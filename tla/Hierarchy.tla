----------------------------- MODULE Hierarchy -----------------------------
(***************************************************************************)
(* The member table of a class-like: `linearized_class` of linearize.rs,   *)
(* and `lookup_member` over it.  A breadth-first walk from the root over   *)
(* trait uses, `extends` and `implements`; the first entry met under a     *)
(* name is the one that answers for it.                                    *)
(***************************************************************************)
EXTENDS Naturals, Sequences

CONSTANTS
    Keys,         \* folded keys of functions and class-likes, each its own file
    Names,        \* folded method names
    Texts,        \* what a file may hold
    NoText,       \* the file does not exist
    ClassOf,      \* what a text that declares a class-like says of it
    StubParents,  \* the compiled stub graph: the parents of each stub class
    StubMethods,  \* and the methods it declares
    EnumParents,  \* the implicit parents of an enum
    NoKey, NoEntry, NoTable

IsList(s) == s \in Seq({s[i] : i \in DOMAIN s})

ASSUME HierarchyAssumption ==
    /\ NoText \notin Texts
    /\ NoKey \notin Keys \cup Names
    /\ DOMAIN ClassOf \subseteq Texts
    /\ \A t \in DOMAIN ClassOf :
          /\ ClassOf[t].own \in Seq(Names)
          /\ IsList(ClassOf[t].uses) /\ IsList(ClassOf[t].extends) /\ IsList(ClassOf[t].implements)
    /\ IsList(EnumParents)
    /\ NoEntry \notin [owner : Keys, method : Names, origin : {"own", "trait", "inherited"},
                       anchor : Keys \cup {NoKey}]

VARIABLES
    program,      \* the text of each file
    root,         \* the class-like being linearized, NoKey between two walks
    queue,        \* class-likes to visit: their key, origin, anchor, adaptations
    visited,
    edges,        \* what is left of the edges of the one just visited
    members,      \* the first entry under each name
    virtuals,     \* the class-like that first annotates each name
    ancestry,     \* the edges followed, in order
    tables        \* the finished table of each class-like, NoTable before

walking   == <<root, queue, visited, edges, members, virtuals, ancestry>>
hierarchy == <<walking, tables>>

----------------------------------------------------------------------------
(* What a class-like declares                                               *)

IsClass(k) == k \in Keys /\ program[k] \in DOMAIN ClassOf
Declared(k) == ClassOf[program[k]]
ClassKeys == {k \in Keys : IsClass(k)}

Edge(owner, relation, target) == [owner |-> owner, relation |-> relation, target |-> target]

\* Traits first, then `extends`, then `implements`, then what an enum implies.
EdgesOf(k) ==
    LET d == Declared(k)
    IN  [i \in DOMAIN d.uses |-> Edge(k, "uses", d.uses[i].trait)]
        \o [i \in DOMAIN d.extends |-> Edge(k, "extends", d.extends[i])]
        \o [i \in DOMAIN d.implements |-> Edge(k, "implements", d.implements[i])]
        \o (IF d.kind = "enum"
            THEN [i \in DOMAIN EnumParents |-> Edge(k, "implicit", EnumParents[i])]
            ELSE << >>)

IsStub(k) == k \in DOMAIN StubParents

Unadapted == [losers |-> {}, aliases |-> {}]

\* The clause that adapts a trait of `k`: the last one that adapts it at all.
Adaptations(k, trait) ==
    LET uses    == Declared(k).uses
        clauses == {i \in DOMAIN uses : uses[i].trait = trait /\ uses[i].adapt # Unadapted}
    IN  IF clauses = {} THEN Unadapted
        ELSE uses[CHOOSE i \in clauses : \A j \in clauses : j <= i].adapt

----------------------------------------------------------------------------
(* What a visited class-like offers                                         *)

Item(key, origin, anchor, adapt) ==
    [key |-> key, origin |-> origin, anchor |-> anchor, adapt |-> adapt]

\* Mutant: the anchor is taken again at every trait that uses a trait.
AnchorRetaken(item, relation) == IF relation = "uses" THEN item.key ELSE NoKey

\* A trait is pasted into the class-like that uses it, and a trait's own traits
\* into the same one; any other edge inherits.
AnchorAcross(item, relation) ==
    IF relation # "uses" THEN NoKey
    ELSE IF item.origin = "trait" THEN item.anchor ELSE item.key

\* Mutant: a trait's members count as inherited.
InheritedAcross(relation) == "inherited"

OriginAcross(relation) == IF relation = "uses" THEN "trait" ELSE "inherited"

\* The i-th method of a visited class-like answers for `name`: under a new name
\* if an `as` gives it one, under its own unless an `insteadof` takes it away.
Offers(item, i, name) ==
    LET method == Declared(item.key).own[i]
    IN  \/ method = name /\ <<method, item.key>> \notin item.adapt.losers
        \/ \E a \in item.adapt.aliases :
              a.member = method /\ a.trait \in {NoKey, item.key} /\ a.alias = name

Offering(item, name) == {i \in DOMAIN Declared(item.key).own : Offers(item, i, name)}

Entry(item, method) ==
    [owner |-> item.key, method |-> method, origin |-> item.origin, anchor |-> item.anchor]

\* Mutant: a later entry replaces an earlier one.
LastEntry(item, name) ==
    LET offering == Offering(item, name)
    IN  IF offering = {} THEN members[name]
        ELSE Entry(item, Declared(item.key).own[CHOOSE i \in offering : \A j \in offering : i <= j])

\* The first entry under a name answers; later ones are shadowed.
FirstEntry(item, name) ==
    LET offering == Offering(item, name)
    IN  IF members[name] # NoEntry \/ offering = {} THEN members[name]
        ELSE Entry(item, Declared(item.key).own[CHOOSE i \in offering : \A j \in offering : i <= j])

----------------------------------------------------------------------------
(* The walk                                                                 *)

Untouched == [n \in Names |-> NoEntry]

BeginWalk(k) ==
    /\ root = NoKey
    /\ IsClass(k) /\ tables[k] = NoTable
    /\ root' = k
    /\ queue' = <<Item(k, "own", NoKey, Unadapted)>>
    /\ visited' = {} /\ edges' = << >> /\ ancestry' = << >>
    /\ members' = Untouched
    /\ virtuals' = [n \in Names |-> NoKey]
    /\ UNCHANGED <<program, tables>>

\* A class-like met a second time is dropped: a diamond, or a cycle closing.
Revisit ==
    /\ root # NoKey /\ edges = << >> /\ queue # << >>
    /\ Head(queue).key \in visited
    /\ queue' = Tail(queue)
    /\ UNCHANGED <<program, root, visited, edges, members, virtuals, ancestry, tables>>

Visit ==
    /\ root # NoKey /\ edges = << >> /\ queue # << >>
    /\ LET item == Head(queue)
       IN  /\ item.key \notin visited
           /\ visited' = visited \cup {item.key}
           /\ members' = [n \in Names |-> FirstEntry(item, n)]
           /\ virtuals' = [n \in Names |->
                 IF virtuals[n] = NoKey /\ n \in Declared(item.key).virtual
                 THEN item.key ELSE virtuals[n]]
           /\ edges' = [i \in DOMAIN EdgesOf(item.key) |-> <<item, EdgesOf(item.key)[i]>>]
    /\ queue' = Tail(queue)
    /\ UNCHANGED <<program, root, ancestry, tables>>

\* An edge is recorded; a source class-like behind it is queued. The implicit
\* edges of an enum exist only where the stubs answer for them.
FollowEdge ==
    /\ root # NoKey /\ edges # << >>
    /\ LET item == Head(edges)[1]
           edge == Head(edges)[2]
       IN  /\ ancestry' = IF edge.relation = "implicit" /\ ~IsStub(edge.target)
                          THEN ancestry ELSE Append(ancestry, edge)
           /\ queue' = IF IsClass(edge.target) /\ edge.relation # "implicit"
                       THEN Append(queue,
                              Item(edge.target, OriginAcross(edge.relation),
                                   AnchorAcross(item, edge.relation),
                                   IF edge.relation = "uses"
                                   THEN Adaptations(item.key, edge.target) ELSE Unadapted))
                       ELSE queue
    /\ edges' = Tail(edges)
    /\ UNCHANGED <<program, root, visited, members, virtuals, tables>>

----------------------------------------------------------------------------
(* The finished table                                                       *)

Followed == {ancestry[i] : i \in DOMAIN ancestry}

SourceEdges(followed) == {e \in followed : IsClass(e.target) /\ e.relation # "implicit"}

\* Peeling class-likes nothing leads to leaves some exactly when the edges close
\* a cycle.
Cyclic(followed) ==
    LET mentioned == {e.owner : e \in SourceEdges(followed)}
                     \cup {e.target : e \in SourceEdges(followed)}
    IN  \E left \in SUBSET mentioned :
            /\ left # {}
            /\ \A k \in left : \E e \in SourceEdges(followed) : e.target = k /\ e.owner \in left

\* The stub classes reached through the compiled parent links.
StubFrontier(seeds) ==
    LET closed(s) == seeds \subseteq s /\ \A k \in s \cap DOMAIN StubParents : StubParents[k] \subseteq s
        bound     == seeds \cup UNION {StubParents[k] : k \in DOMAIN StubParents}
    IN  {k \in bound : \A s \in SUBSET bound : closed(s) => k \in s}

StubSeeds(followed) ==
    {e.target : e \in {f \in followed :
        IsStub(f.target) /\ (f.relation = "implicit" \/ ~IsClass(f.target))}}

\* What cannot be seen may declare anything: an edge that resolved to nothing, or
\* a stub that names a parent with no compiled surface.
Opaque(followed) ==
    \/ \E e \in followed : ~IsClass(e.target) /\ ~IsStub(e.target)
    \/ ~(StubFrontier(StubSeeds(followed)) \subseteq DOMAIN StubParents)

FinishWalk ==
    /\ root # NoKey /\ edges = << >> /\ queue = << >>
    /\ tables' = [tables EXCEPT ![root] =
          [members  |-> members,
           virtuals |-> virtuals,
           ancestry |-> ancestry,
           stubs    |-> StubFrontier(StubSeeds(Followed)),
           cyclic   |-> Cyclic(Followed),
           opaque   |-> Opaque(Followed)]]
    /\ root' = NoKey
    /\ UNCHANGED <<program, queue, visited, edges, members, virtuals, ancestry>>

Walk == (\E k \in Keys : BeginWalk(k)) \/ Revisit \/ Visit \/ FollowEdge \/ FinishWalk

StubDeclares(stubs, name) == \E k \in stubs \cap DOMAIN StubMethods : name \in StubMethods[k]

\* A source member first, then a stub's, then one an annotation declares.
FoundIn(table, name) ==
    CASE table.members[name] # NoEntry -> [tier |-> "source", entry |-> table.members[name]]
      [] table.members[name] = NoEntry ->
            [tier |-> IF StubDeclares(table.stubs, name) THEN "stub"
                      ELSE IF table.virtuals[name] # NoKey THEN "virtual" ELSE "none"]

LookupMember(k, name) ==
    IF IsClass(k) THEN FoundIn(tables[k], name)
    ELSE [tier |-> IF IsStub(k) /\ StubDeclares(StubFrontier({k}), name) THEN "stub" ELSE "none"]

HierarchyInit ==
    /\ root = NoKey /\ queue = << >> /\ visited = {} /\ edges = << >>
    /\ members = Untouched /\ virtuals = [n \in Names |-> NoKey] /\ ancestry = << >>
    /\ tables = [k \in Keys |-> NoTable]

HierarchySpec ==
    /\ program \in [Keys -> Texts \cup {NoText}]
    /\ HierarchyInit
    /\ [][Walk]_<<program, hierarchy>>

----------------------------------------------------------------------------
(* Properties                                                               *)

Linearized(k) == tables[k] # NoTable

\* `owner` is pasted into `anchor` if following trait uses from `anchor` leads to it.
Pasted(anchor, owner) ==
    \A s \in SUBSET ClassKeys :
        /\ anchor \in s
        /\ \A k \in s : \A i \in DOMAIN Declared(k).uses :
               IsClass(Declared(k).uses[i].trait) => Declared(k).uses[i].trait \in s
        => owner \in s

\* `self` and `$this` in a trait's method mean the class-like the method was
\* pasted into: the root or one the root inherits from, never a trait between,
\* and one whose trait uses do lead to the method (`MemberOrigin::Trait`).
SelfIsTheUser ==
    \A k \in Keys, n \in Names :
        LET entry == tables[k].members[n]
        IN  Linearized(k) /\ entry # NoEntry /\ entry.origin = "trait" =>
                /\ Pasted(entry.anchor, entry.owner)
                /\ \/ entry.anchor = k
                   \/ \E i \in DOMAIN tables[k].ancestry :
                        /\ tables[k].ancestry[i].relation \in {"extends", "implements"}
                        /\ tables[k].ancestry[i].target = entry.anchor

\* A method asked of an heir is asked again of the class-like that declares it,
\* which then answers for itself: the second question never asks a third
\* (`inferred_method_return`: "re-key to the defining class").
RekeyIsOneHop ==
    \A k \in Keys, n \in Names :
        LET entry == tables[k].members[n]
        IN  Linearized(k) /\ entry # NoEntry /\ entry.origin = "inherited" =>
                /\ entry.method = n /\ IsClass(entry.owner)
                /\ Linearized(entry.owner) =>
                      tables[entry.owner].members[n] =
                          [owner |-> entry.owner, method |-> n, origin |-> "own", anchor |-> NoKey]

DeclaresItself(k, name) == \E i \in DOMAIN Declared(k).own : Declared(k).own[i] = name

Used(k)     == {Declared(k).uses[i].trait : i \in DOMAIN Declared(k).uses}
Extended(k) == {Declared(k).extends[i] : i \in DOMAIN Declared(k).extends}

\* The traits a class-like uses without adapting them, and the parents it does not
\* use as traits, that declare a name.
TraitsDeclaring(k, n) ==
    {t \in Used(k) : Adaptations(k, t) = Unadapted /\ IsClass(t) /\ DeclaresItself(t, n)}
ParentsDeclaring(k, n) == {p \in Extended(k) \ Used(k) : IsClass(p) /\ DeclaresItself(p, n)}

PastedInto(entry, k) == entry # NoEntry /\ entry.origin = "trait" /\ entry.anchor = k

\* The module's header: own over trait over parent, exactly, at depth one. A trait
\* used without adaptations offers what it declares.
DepthOnePrecedence ==
    \A k \in Keys, n \in Names : Linearized(k) =>
        LET entry == tables[k].members[n]
        IN  IF DeclaresItself(k, n) THEN entry.owner = k
            ELSE IF TraitsDeclaring(k, n) # {} THEN PastedInto(entry, k)
            ELSE ParentsDeclaring(k, n) # {} =>
                    \/ entry # NoEntry /\ entry.owner \in ParentsDeclaring(k, n)
                    \/ PastedInto(entry, k)

============================================================================
