---------------------------- MODULE CacheProofs ----------------------------
(***************************************************************************)
(* What the proof system checks of Cache, for any project, any builds, any *)
(* packs and any number of processes, edits and faults: the types, that    *)
(* every pack and snapshot is what its header says, and that a warm report *)
(* is the cold one.                                                        *)
(***************************************************************************)
EXTENDS Cache, SequenceTheorems, TLAPS

(***************************************************************************)
(* Lemmas about the data.                                                  *)
(***************************************************************************)

\* The packs in order are a sequence of packs.
LEMMA PackOrderType == PackOrder \in Seq(Packs)
<1> DEFINE S == {ItemTrees, MemberTrees, Diagnostics, Signatures}
<1>1. PackOrder \in [1..Len(PackOrder) -> S] /\ Len(PackOrder) \in Nat
  BY CacheAssumption
<1>2. \A i \in 1..Len(PackOrder) : PackOrder[i] \in Packs
  BY <1>1 DEF Packs
<1>3. PackOrder \in [1..Len(PackOrder) -> Packs]
  BY <1>1, <1>2
<1> QED
  BY <1>1, <1>3

\* The pack a process is at, and the packs it has left.
LEMMA TodoType ==
    ASSUME NEW s \in Seq(Packs), s # << >>
    PROVE  Head(s) \in Packs /\ Tail(s) \in Seq(Packs)
BY HeadTailProperties

\* Settings are what a project's range and configuration are.
LEMMA SettingsType ==
    ASSUME NEW s \in Project
    PROVE  SettingsOf(s) \in Settings
BY DEF Project, Settings, SettingsOf

\* A session before its sources are read, and after, has a project's inputs.
LEMMA ContentsType ==
    ASSUME NEW s \in Project, NEW c \in [Files -> Texts \cup {NoText}]
    PROVE  /\ [s EXCEPT !.contents = c] \in Project
           /\ SettingsOf([s EXCEPT !.contents = c]) = SettingsOf(s)
BY DEF Project, SettingsOf

LEMMA NothingType == IsSnapshot(Nothing)
BY DEF IsSnapshot, Nothing

\* One process's snapshot is replaced, or none is.
LEMMA UpdateKeeps ==
    ASSUME NEW f, f = [q \in Procs |-> f[q]], \A q \in Procs : IsSnapshot(f[q]),
           NEW p \in Procs, NEW v, IsSnapshot(v),
           NEW g, g = f \/ g = [f EXCEPT ![p] = v]
    PROVE  g = [q \in Procs |-> g[q]] /\ \A q \in Procs : IsSnapshot(g[q])
<1>1. CASE g = f
  BY <1>1
<1>2. CASE g = [f EXCEPT ![p] = v]
  <2>1. DOMAIN f = Procs
    OBVIOUS
  <2>2. \A q \in Procs : g[q] = IF q = p THEN v ELSE f[q]
    BY <1>2, <2>1
  <2>3. g = [q \in Procs |-> g[q]]
    BY <1>2, <2>1
  <2> QED
    BY <2>2, <2>3
<1> QED
  BY <1>1, <1>2

----------------------------------------------------------------------------
(* Types                                                                    *)

LEMMA TypeInit == Init => TypeOK
<1> SUFFICES ASSUME Init PROVE TypeOK
  OBVIOUS
<1>1. << >> \in Seq(Packs)
  OBVIOUS
<1>2. InitialProjects \subseteq Project
  BY CacheAssumption
<1>3. Pending \in [Packs -> {"pending", "unchanged", "written", "failed"}]
  BY DEF Pending
<1>4. 0 \in 0..MaxEdits /\ 0 \in 0..MaxFaults
  BY CacheAssumption
<1>5. NoProject \notin Project \cup Settings
  BY CacheAssumption
<1>6. /\ pc \in [Procs -> Points]
      /\ todo \in [Procs -> Seq(Packs)]
      /\ seen \in [Procs -> Project \cup {NoProject}]
      /\ loaded \in [Procs -> Settings \cup {NoProject}]
      /\ alien \in [Procs -> SUBSET Packs]
      /\ answered \in [Procs -> [Packs -> {"pending", "unchanged", "written", "failed"}]]
  BY <1>1, <1>3 DEF Init, Points
<1>7. /\ project \in Project /\ edits \in 0..MaxEdits /\ faults \in 0..MaxFaults
      /\ temporaries \subseteq Procs \X Packs
  BY <1>2, <1>4 DEF Init
<1>8. /\ disk = [k \in Packs |-> disk[k]]
      /\ cache = [p \in Procs |-> cache[p]] /\ seeded = [p \in Procs |-> seeded[p]]
      /\ outcome = [p \in Procs |-> outcome[p]]
  BY DEF Init
<1>9. ASSUME NEW p \in Procs
      PROVE  /\ IsSnapshot(cache[p]) /\ IsSnapshot(seeded[p])
             /\ ~Running(p) /\ seen[p] = NoProject /\ loaded[p] = NoProject
             /\ pc[p] # "renaming"
  BY NothingType DEF Init, Running
<1> QED
  BY <1>5, <1>6, <1>7, <1>8, <1>9 DEF TypeOK

LEMMA TypeNext == TypeOK /\ [Next]_vars => TypeOK'
<1> SUFFICES ASSUME TypeOK, [Next]_vars PROVE TypeOK'
  OBVIOUS
<1> USE DEF TypeOK, user, directory, session, Points, Running, IsSnapshot
<1>1. NoProject \notin Project \cup Settings
  BY CacheAssumption
<1>2. MaxEdits \in Nat /\ MaxFaults \in Nat
  BY CacheAssumption
<1>3. CASE Edit
  <2>1. Edits(project) \subseteq Project
    BY CacheAssumption
  <2> QED
    BY <1>2, <1>3, <2>1 DEF Edit
<1>4. ASSUME NEW p \in Procs, Start(p) PROVE TypeOK'
  <2>1. [project EXCEPT !.contents = NoSource] \in Project
    BY ContentsType DEF NoSource
  <2>2. SettingsOf(project) \in Settings
    BY SettingsType
  <2> QED
    BY <1>4, <2>1, <2>2, PackOrderType DEF Start
<1>5. ASSUME NEW p \in Procs, LoadPack(p) PROVE TypeOK'
  BY <1>5, TodoType DEF LoadPack
<1>6. ASSUME NEW p \in Procs, ReadSources(p) PROVE TypeOK'
  <2>1. project.contents \in [Files -> Texts \cup {NoText}]
    BY DEF Project
  <2>2. seen[p] \in Project
    BY <1>6 DEF ReadSources
  <2>3. [seen[p] EXCEPT !.contents = project.contents] \in Project
    BY <2>1, <2>2, ContentsType
  <2> QED
    BY <1>6, <2>3 DEF ReadSources
<1>7. ASSUME NEW p \in Procs, Pass(p) PROVE TypeOK'
  BY <1>7 DEF Pass
<1>8. ASSUME NEW p \in Procs, Absorb(p) PROVE TypeOK'
  BY <1>8 DEF Absorb
<1>9. ASSUME NEW p \in Procs, Gone(p), UNCHANGED <<user, directory>>, faults' \in 0..MaxFaults
      PROVE  TypeOK'
  <2>1. Pending \in [Packs -> {"pending", "unchanged", "written", "failed"}]
    BY DEF Pending
  <2>2. << >> \in Seq(Packs)
    OBVIOUS
  <2> QED
    BY <1>1, <1>9, <2>1, <2>2, NothingType DEF Gone
<1>10. ASSUME NEW p \in Procs, Exit(p) PROVE TypeOK'
  BY <1>9, <1>10 DEF Exit
<1>11. ASSUME NEW p \in Procs, SkipPersist(p) \/ PersistAgain(p) PROVE TypeOK'
  <2>1. CASE SkipPersist(p)
    BY <2>1 DEF SkipPersist
  <2>2. CASE PersistAgain(p)
    BY <2>2 DEF PersistAgain
  <2> QED
    BY <1>11, <2>1, <2>2
<1>12. ASSUME NEW p \in Procs, PrepareDirectory(p) PROVE TypeOK'
  <2>1. Pending \in [Packs -> {"pending", "unchanged", "written", "failed"}]
    BY DEF Pending
  <2> QED
    BY <1>12, <2>1, PackOrderType DEF PrepareDirectory
<1>13. ASSUME NEW p \in Procs, SkipWrite(p) PROVE TypeOK'
  BY <1>13, TodoType DEF SkipWrite, Answer
<1>14. ASSUME NEW p \in Procs, CreateTemporary(p) PROVE TypeOK'
  BY <1>14, TodoType DEF CreateTemporary
<1>15. ASSUME NEW p \in Procs, Rename(p) PROVE TypeOK'
  <2>1. todo[p] # << >> /\ pc[p] = "renaming"
    BY <1>15 DEF Rename
  <2>2. Head(todo[p]) \in Packs /\ Tail(todo[p]) \in Seq(Packs)
    BY <2>1, TodoType
  <2>3. temporaries' \subseteq Procs \X Packs
    BY <1>15, <2>2 DEF Rename
  <2>9. alien' \in [Procs -> SUBSET Packs]
    <3> DEFINE k == Head(todo[p])
    <3> DEFINE others == [q \in Procs |->
                            IF q = p THEN alien[q] \ {k}
                            ELSE IF Running(q) THEN alien[q] \cup {k} ELSE {}]
    <3>1. others \in [Procs -> SUBSET Packs]
      BY <2>2
    <3>2. alien' = others \/ alien' = alien
      BY <1>15 DEF Rename
    <3> QED
      BY <3>1, <3>2
  <2>4. answered' \in [Procs -> [Packs -> {"pending", "unchanged", "written", "failed"}]]
    <3>1. PICK write \in {"written", "failed"} : Answer(p, write)
      BY <1>15 DEF Rename
    <3>2. answered' = [answered EXCEPT ![p][Head(todo[p])] = write]
      BY <3>1 DEF Answer
    <3> QED
      BY <2>2, <3>2
  <2>5. todo' \in [Procs -> Seq(Packs)]
    BY <1>15, <2>2 DEF Rename, Answer
  <2>6. disk' = [k \in Packs |-> disk'[k]]
    BY <1>15 DEF Rename
  <2>7. pc' = [pc EXCEPT ![p] = "writing"] /\ UNCHANGED <<user, faults, session, outcome>>
    BY <1>15 DEF Rename
  <2>8. \A q \in Procs : q # p => todo'[q] = todo[q]
    BY <1>15 DEF Rename, Answer
  <2> QED
    BY <2>1, <2>3, <2>4, <2>5, <2>6, <2>7, <2>8, <2>9
<1>16. ASSUME NEW p \in Procs, FinishPersist(p) PROVE TypeOK'
  <2>1. SettingsOf(seen[p]) \in Settings
    BY <1>16, SettingsType DEF FinishPersist
  <2>2. Pending \in [Packs -> {"pending", "unchanged", "written", "failed"}]
    BY DEF Pending
  <2>3. AnsweredWith(p, "written") \subseteq Packs
    BY DEF AnsweredWith
  <2> DEFINE snapshot == [k \in Packs |-> Collected(p, k)]
  <2>4. IsSnapshot(snapshot)
    OBVIOUS
  <2> HIDE DEF snapshot, IsSnapshot
  <2>5. /\ cache' = cache \/ cache' = [cache EXCEPT ![p] = snapshot]
        /\ loaded' = loaded \/ loaded' = [loaded EXCEPT ![p] = SettingsOf(seen[p])]
        /\ alien' = alien \/ alien' = [alien EXCEPT ![p] = @ \cup AnsweredWith(p, "written")]
    BY <1>16 DEF FinishPersist, SwapSnapshot, snapshot
  <2>6. /\ cache' = [q \in Procs |-> cache'[q]] /\ \A q \in Procs : IsSnapshot(cache'[q])
    BY <2>4, <2>5, UpdateKeeps
  <2>7. /\ loaded' \in [Procs -> Settings \cup {NoProject}]
        /\ \A q \in Procs : loaded'[q] \in Settings <=> Running(q)
    <3>1. Running(p)
      BY <1>16 DEF FinishPersist
    <3>2. CASE loaded' = loaded
      BY <3>2
    <3>3. CASE loaded' = [loaded EXCEPT ![p] = SettingsOf(seen[p])]
      BY <2>1, <3>1, <3>3
    <3> QED
      BY <2>5, <3>2, <3>3
  <2>8. alien' \in [Procs -> SUBSET Packs]
    <3>1. CASE alien' = alien
      BY <3>1
    <3>2. CASE alien' = [alien EXCEPT ![p] = @ \cup AnsweredWith(p, "written")]
      BY <2>3, <3>2
    <3> QED
      BY <2>5, <3>1, <3>2
  <2>9. /\ answered' = [answered EXCEPT ![p] = Pending] /\ pc' = [pc EXCEPT ![p] = "idle"]
        /\ pc[p] = "writing"
        /\ UNCHANGED <<user, directory, faults, todo, seen, seeded, outcome>>
    BY <1>16 DEF FinishPersist
  <2> QED
    BY <2>2, <2>6, <2>7, <2>8, <2>9
<1>17. ASSUME NEW p \in Procs, Kill(p) PROVE TypeOK'
  <2>1. faults' \in 0..MaxFaults
    BY <1>2, <1>17 DEF Kill, Fault
  <2> QED
    BY <1>9, <1>17, <2>1 DEF Kill
<1>18. ASSUME NEW p \in Procs, PrepareFails(p) PROVE TypeOK'
  BY <1>2, <1>18 DEF PrepareFails, Fault
<1>19. ASSUME NEW p \in Procs, WriteFails(p) PROVE TypeOK'
  <2>1. todo[p] # << >>
    BY <1>19 DEF WriteFails
  <2>2. Head(todo[p]) \in Packs /\ Tail(todo[p]) \in Seq(Packs)
    BY <2>1, TodoType
  <2> QED
    BY <1>2, <1>19, <2>2 DEF WriteFails, Fault, Answer
<1>20. ASSUME NEW k \in Packs, Delete(k) \/ Damage(k) PROVE TypeOK'
  <2>1. alien' \in [Procs -> SUBSET Packs]
    <3>1. PICK S \in SUBSET Procs, T \in SUBSET Procs :
            alien' = [p \in Procs |-> IF p \in S THEN alien[p] \cup {k}
                                      ELSE IF p \in T THEN alien[p] ELSE {}]
      <4>1. CASE Delete(k)
        <5> WITNESS {p \in Procs : pc[p] \in {"writing", "renaming"}} \in SUBSET Procs,
                    Procs \in SUBSET Procs
        <5> QED
          BY <4>1 DEF Delete
      <4>2. CASE Damage(k)
        <5> WITNESS {p \in Procs : Running(p)} \in SUBSET Procs, {} \in SUBSET Procs
        <5> QED
          BY <4>2 DEF Damage
      <4> QED
        BY <1>20, <4>1, <4>2
    <3> QED
      BY <3>1
  <2>2. disk' = [j \in Packs |-> disk'[j]]
    BY <1>20 DEF Delete, Damage
  <2>3. /\ faults' \in 0..MaxFaults
        /\ UNCHANGED <<user, temporaries, pc, todo, answered, session, outcome>>
    BY <1>2, <1>20 DEF Delete, Damage, Fault
  <2> QED
    BY <2>1, <2>2, <2>3
<1>21. CASE UNCHANGED vars
  BY <1>21 DEF vars
<1> QED
  BY <1>3, <1>4, <1>5, <1>6, <1>7, <1>8, <1>10, <1>11, <1>12, <1>13, <1>14, <1>15, <1>16,
     <1>17, <1>18, <1>19, <1>20, <1>21 DEF Next, Process, Persist

\* Every variable keeps its type: a process that runs has inputs and settings,
\* and a rename is always of a pack it has left to write.
THEOREM CacheTypeCorrect == Spec => []TypeOK
  BY TypeInit, TypeNext, PTL DEF Spec

(***************************************************************************)
(* Packs, snapshots and what is served from them.                          *)
(***************************************************************************)

\* Nothing is honest under any header.
LEMMA HonestNothing ==
    ASSUME NEW k \in Packs, NEW header
    PROVE  Honest(k, header, Empty) /\ Nothing[k] = Empty
BY DEF Honest, Empty, Nothing

\* What `decode` lets through is as honest as the file.
LEMMA DecodeHonest ==
    ASSUME NEW k \in Packs, NEW file, NEW header,
           file \notin {NoPack, Damaged} => Honest(k, file.header, file.entries)
    PROVE  Honest(k, header, Decode(file, header))
BY HonestNothing DEF Decode

\* The header of settings is the header of a project under them.
LEMMA HeaderOfSettings ==
    ASSUME NEW b, NEW s
    PROVE  Header(b, SettingsOf(s)) = Header(b, s)
BY DEF Header, SettingsOf

\* A tree is the build's own, seeded or not.
LEMMA TreeOfIsTree ==
    ASSUME CacheInvariant, NEW p \in Procs, NEW t, NEW k \in TreePacks
    PROVE  TreeOf(p, t, k) = Tree(Build[p], t)
BY DEF TreeOf, CacheInvariant

\* A recomputed verdict is the one an analysis from nothing makes.
LEMMA ComposedIsCold ==
    ASSUME CacheInvariant, NEW p \in Procs, NEW t
    PROVE  Composed(p, t) = ComposedFrom(Tree(Build[p], t), seen[p], t)
BY TreeOfIsTree DEF Composed, TreePacks

\* An attached snapshot was made under the inputs' own settings.
LEMMA AttachedHonest ==
    ASSUME CacheInvariant, NEW p \in Procs, Running(p), NEW k \in Packs
    PROVE  Honest(k, CurrentHeader(p), Attached(p)[k])
<1>1. CASE SettingsOf(seen[p]) = loaded[p]
  <2>1. Header(Build[p], loaded[p]) = CurrentHeader(p)
    BY <1>1, HeaderOfSettings DEF CurrentHeader
  <2>2. Honest(k, Header(Build[p], loaded[p]), cache[p][k])
    BY DEF CacheInvariant, PacksAreHonest
  <2> QED
    BY <1>1, <2>1, <2>2 DEF Attached
<1>2. CASE SettingsOf(seen[p]) # loaded[p]
  BY <1>2, HonestNothing DEF Attached
<1> QED
  BY <1>1, <1>2

LEMMA DiagnosticsIsAPack == Diagnostics \in Packs
BY CacheAssumption

\* A half that validated is the half that would be recomputed.
LEMMA ServedIsCold ==
    ASSUME CacheInvariant, NEW p \in Procs, Running(p), NEW t,
           Lookup(p, t) \in {"untyped", "served"}
    PROVE  LET stored == Attached(p)[Diagnostics][t]
               cold   == ComposedFrom(Tree(Build[p], t), seen[p], t)
           IN  /\ t \in DOMAIN Attached(p)[Diagnostics]
               /\ stored.untyped = cold.untyped
               /\ Lookup(p, t) = "served" => stored = cold
<1> DEFINE stored == Attached(p)[Diagnostics][t]
<1> DEFINE half(h) == Portion(Tree(Build[p], t), seen[p], h.answers)
<1>1. /\ t \in DOMAIN Attached(p)[Diagnostics]
      /\ stored.untyped.answers = Resolutions(seen[p], t)
      /\ Lookup(p, t) = "served" => stored.typed.answers = Surfaces(seen[p], t)
  BY DEF Lookup
<1>2. Honest(Diagnostics, CurrentHeader(p), Attached(p)[Diagnostics])
  BY AttachedHonest, DiagnosticsIsAPack
<1>3. stored = [untyped |-> half(stored.untyped), typed |-> half(stored.typed)]
  BY <1>1, <1>2 DEF Honest, CurrentHeader, Header, Portion
<1> HIDE DEF stored
<1>4. stored.untyped = half(stored.untyped) /\ stored.typed = half(stored.typed)
  BY <1>3
<1>5. stored.untyped = Portion(Tree(Build[p], t), seen[p], Resolutions(seen[p], t))
  BY <1>1, <1>4 DEF stored
<1>6. Lookup(p, t) = "served" =>
        stored.typed = Portion(Tree(Build[p], t), seen[p], Surfaces(seen[p], t))
  BY <1>1, <1>4 DEF stored
<1> QED
  BY <1>1, <1>3, <1>4, <1>5, <1>6 DEF ComposedFrom, stored

\* One file's report, warm, is its report from nothing.
LEMMA AnalyzedIsCold ==
    ASSUME CacheInvariant, NEW p \in Procs, Running(p), NEW t
    PROVE  Analyzed(p, t) =
             IF t \in Poison THEN Panicked ELSE ComposedFrom(Tree(Build[p], t), seen[p], t)
<1> DEFINE cold == ComposedFrom(Tree(Build[p], t), seen[p], t)
<1>1. CASE t \in Poison
  BY <1>1 DEF Analyzed
<1>2. CASE t \notin Poison /\ Lookup(p, t) = "served"
  BY <1>2, ServedIsCold DEF Analyzed
<1>3. CASE t \notin Poison /\ Lookup(p, t) = "untyped"
  <2>1. Analyzed(p, t) = [Composed(p, t) EXCEPT !.untyped = Attached(p)[Diagnostics][t].untyped]
    BY <1>3 DEF Analyzed
  <2>2. Attached(p)[Diagnostics][t].untyped = cold.untyped
    BY <1>3, ServedIsCold
  <2>3. [cold EXCEPT !.untyped = cold.untyped] = cold
    BY DEF ComposedFrom
  <2> QED
    BY <1>3, <2>1, <2>2, <2>3, ComposedIsCold
<1>4. CASE t \notin Poison /\ Lookup(p, t) \notin {"served", "untyped"}
  BY <1>4, ComposedIsCold DEF Analyzed
<1> QED
  BY <1>1, <1>2, <1>3, <1>4

\* What a persist collects is under the header it writes.
LEMMA CollectedHonest ==
    ASSUME CacheInvariant, NEW p \in Procs, Running(p), NEW k \in Packs
    PROVE  Honest(k, CurrentHeader(p), Collected(p, k))
<1>1. CurrentHeader(p).build = Build[p]
  BY DEF CurrentHeader, Header
<1>2. CASE k \in TreePacks
  <2>1. \A t \in DOMAIN Collected(p, k) : Collected(p, k)[t] = Tree(Build[p], t)
    <3>1. k \notin {Diagnostics, Signatures}
      BY <1>2 DEF TreePacks, ItemTrees, MemberTrees, Diagnostics, Signatures
    <3>2. Collected(p, k) =
            [t \in TextsOf(p, Sound(p, Sources(seen[p]))) |-> TreeOf(p, t, k)]
      BY <1>2, <3>1 DEF Collected
    <3> QED
      BY <1>2, <3>2, TreeOfIsTree
  <2> QED
    BY <1>1, <1>2, <2>1 DEF Honest, TreePacks, ItemTrees, MemberTrees, Diagnostics, Signatures
<1>3. CASE k = Diagnostics
  <2> DEFINE half(t, h) == Portion(Tree(Build[p], t), CurrentHeader(p), h.answers)
  <2>1. ASSUME NEW t \in DOMAIN Verdicts(p)
        PROVE  Verdicts(p)[t] = [untyped |-> half(t, Verdicts(p)[t].untyped),
                                 typed   |-> half(t, Verdicts(p)[t].typed)]
    <3>1. Verdicts(p)[t] = ComposedFrom(Tree(Build[p], t), seen[p], t)
      BY <2>1, ComposedIsCold, ServedIsCold DEF Verdicts, Kept
    <3> QED
      BY <3>1 DEF ComposedFrom, Portion, CurrentHeader, Header
  <2>2. Collected(p, k) = Verdicts(p)
    BY <1>3 DEF Collected, TreePacks, ItemTrees, MemberTrees, Diagnostics, Signatures
  <2> QED
    BY <1>1, <1>3, <2>1, <2>2 DEF Honest, TreePacks, ItemTrees, MemberTrees, Diagnostics, Signatures
<1>4. CASE k = Signatures
  <2>1. ASSUME NEW n \in DOMAIN SignatureEntries(p)
        PROVE  SignatureEntries(p)[n].tree = Tree(Build[p], SignatureEntries(p)[n].content)
    BY <2>1, TreeOfIsTree DEF SignatureEntries, TreePacks
  <2>2. Collected(p, k) = SignatureEntries(p)
    BY <1>4 DEF Collected, TreePacks, ItemTrees, MemberTrees, Diagnostics, Signatures
  <2> QED
    BY <1>1, <1>4, <2>1, <2>2 DEF Honest, TreePacks, ItemTrees, MemberTrees, Diagnostics, Signatures
<1>5. k \in {ItemTrees, MemberTrees, Diagnostics, Signatures}
  BY CacheAssumption DEF Packs
<1> QED
  BY <1>2, <1>3, <1>4, <1>5 DEF TreePacks

(***************************************************************************)
(* The invariant.                                                          *)
(***************************************************************************)

LEMMA CacheInit == Init => CacheInvariant
<1> SUFFICES ASSUME Init PROVE CacheInvariant
  OBVIOUS
<1>1. PacksAreHonest
  BY DEF Init, PacksAreHonest, Running
<1>2. ServedIsFresh
  BY DEF Init, ServedIsFresh
<1>3. ASSUME NEW p \in Procs, NEW k \in TreePacks \cap Packs, NEW t \in DOMAIN seeded[p][k]
      PROVE  seeded[p][k][t] = Tree(Build[p], t)
  BY <1>3, HonestNothing DEF Init, Empty
<1> QED
  BY <1>1, <1>2, <1>3 DEF Init, CacheInvariant

\* A step that touches no pack, no inputs and no snapshot, and starts or
\* restarts no process.
LEMMA Quiet ==
    ASSUME CacheInvariant, UNCHANGED <<disk, session, outcome>>,
           \A p \in Procs : \/ pc'[p] = pc[p]
                           \/ {pc[p], pc'[p]} \cap {"off", "loading", "ready"} = {}
    PROVE  CacheInvariant'
<1>1. \A p \in Procs : Running(p)' <=> Running(p)
  BY DEF Running
<1>2. PacksAreHonest'
  BY <1>1 DEF CacheInvariant, PacksAreHonest, session
<1>3. ServedIsFresh'
  BY DEF CacheInvariant, ServedIsFresh, session
<1> QED
  BY <1>1, <1>2, <1>3 DEF CacheInvariant, session

\* A process that is gone holds nothing.
LEMMA GoneKeeps ==
    ASSUME TypeOK, CacheInvariant, NEW p \in Procs, Gone(p), UNCHANGED disk
    PROVE  CacheInvariant'
<1>1. /\ pc'[p] = "off" /\ cache'[p] = Nothing /\ seeded'[p] = Nothing
      /\ outcome'[p] = NoOutcome
  BY DEF TypeOK, Gone
<1>2. ASSUME NEW q \in Procs, q # p
      PROVE  /\ pc'[q] = pc[q] /\ cache'[q] = cache[q] /\ seeded'[q] = seeded[q]
             /\ outcome'[q] = outcome[q] /\ loaded'[q] = loaded[q] /\ seen'[q] = seen[q]
  BY <1>2 DEF TypeOK, Gone
<1>3. PacksAreHonest'
  BY <1>1, <1>2 DEF CacheInvariant, PacksAreHonest, Running
<1>4. ServedIsFresh'
  BY <1>1, <1>2 DEF CacheInvariant, ServedIsFresh
<1>5. ASSUME NEW q \in Procs, NEW k \in TreePacks \cap Packs, NEW t \in DOMAIN seeded'[q][k]
      PROVE  seeded'[q][k][t] = Tree(Build[q], t)
  BY <1>1, <1>2, <1>5, HonestNothing DEF CacheInvariant, Empty
<1> QED
  BY <1>1, <1>2, <1>3, <1>4, <1>5 DEF CacheInvariant, Running

\* A pack file is replaced by an honest one, or by no pack at all.
LEMMA DiskKeeps ==
    ASSUME TypeOK, CacheInvariant, NEW k \in Packs, NEW file, disk' = [disk EXCEPT ![k] = file],
           file \notin {NoPack, Damaged} => Honest(k, file.header, file.entries),
           UNCHANGED <<session, outcome>>,
           \A p \in Procs : \/ pc'[p] = pc[p]
                           \/ {pc[p], pc'[p]} \cap {"off", "loading", "ready"} = {}
    PROVE  CacheInvariant'
<1>1. \A p \in Procs : Running(p)' <=> Running(p)
  BY DEF Running
<1>2. disk'[k] = file /\ \A j \in Packs : j # k => disk'[j] = disk[j]
  BY DEF TypeOK
<1>3. PacksAreHonest'
  BY <1>1, <1>2 DEF CacheInvariant, PacksAreHonest, session
<1>4. ServedIsFresh'
  BY DEF CacheInvariant, ServedIsFresh, session
<1> QED
  BY <1>1, <1>3, <1>4 DEF CacheInvariant, session

LEMMA CacheNext == TypeOK /\ CacheInvariant /\ [Next]_vars => CacheInvariant'
<1> SUFFICES ASSUME TypeOK, CacheInvariant, [Next]_vars PROVE CacheInvariant'
  OBVIOUS
<1> USE DEF user, directory, session
<1>1. CASE Edit
  BY <1>1, Quiet DEF Edit
<1>2. ASSUME NEW p \in Procs, Start(p) PROVE CacheInvariant'
  <2>1. /\ pc[p] = "off" /\ pc'[p] = "loading"
        /\ cache[p] = Nothing /\ outcome[p] = NoOutcome
        /\ UNCHANGED <<disk, cache, seeded, outcome>>
    BY <1>2 DEF TypeOK, Start, CacheInvariant, Running
  <2>2. ASSUME NEW q \in Procs, q # p
        PROVE  pc'[q] = pc[q] /\ seen'[q] = seen[q] /\ loaded'[q] = loaded[q]
    BY <1>2, <2>2 DEF TypeOK, Start
  <2>3. \A k \in Packs : Honest(k, Header(Build[p], loaded'[p]), cache'[p][k])
    BY <2>1, HonestNothing
  <2>4. PacksAreHonest'
    BY <2>1, <2>2, <2>3 DEF CacheInvariant, PacksAreHonest, Running
  <2>5. ServedIsFresh'
    BY <2>1, <2>2 DEF CacheInvariant, ServedIsFresh
  <2> QED
    BY <2>1, <2>2, <2>4, <2>5 DEF CacheInvariant, Running
<1>3. ASSUME NEW p \in Procs, LoadPack(p) PROVE CacheInvariant'
  <2> DEFINE k == Head(todo[p])
  <2> DEFINE read == Decode(disk[k], Header(Build[p], loaded[p]))
  <2>1. k \in Packs
    BY <1>3, TodoType DEF TypeOK, LoadPack
  <2>2. Honest(k, Header(Build[p], loaded[p]), read)
    BY <2>1, DecodeHonest DEF CacheInvariant, PacksAreHonest
  <2> HIDE DEF read
  <2>3. cache' = [cache EXCEPT ![p][k] = read] /\ pc[p] = "loading"
        /\ UNCHANGED <<disk, pc, seen, loaded, seeded, outcome>>
    BY <1>3 DEF LoadPack, read
  <2>4. /\ cache'[p][k] = read
        /\ \A j \in Packs : j # k => cache'[p][j] = cache[p][j]
        /\ \A q \in Procs : q # p => cache'[q] = cache[q]
    BY <2>1, <2>3 DEF TypeOK, IsSnapshot
  <2> HIDE DEF k
  <2>5. PacksAreHonest'
    BY <2>1, <2>2, <2>3, <2>4 DEF CacheInvariant, PacksAreHonest, Running
  <2>6. ServedIsFresh'
    BY <2>3 DEF CacheInvariant, ServedIsFresh
  <2> QED
    BY <2>3, <2>4, <2>5, <2>6 DEF CacheInvariant, Running
<1>4. ASSUME NEW p \in Procs, ReadSources(p) PROVE CacheInvariant'
  <2>1. /\ pc[p] = "loading" /\ pc'[p] = "ready" /\ outcome[p] = NoOutcome
        /\ seeded'[p] = cache[p]
        /\ UNCHANGED <<disk, cache, loaded, outcome>>
    BY <1>4 DEF TypeOK, ReadSources, CacheInvariant
  <2>2. ASSUME NEW q \in Procs, q # p
        PROVE  pc'[q] = pc[q] /\ seen'[q] = seen[q] /\ seeded'[q] = seeded[q]
    BY <1>4, <2>2 DEF TypeOK, ReadSources
  <2>3. ASSUME NEW k \in TreePacks \cap Packs, NEW t \in DOMAIN cache[p][k]
        PROVE  cache[p][k][t] = Tree(Build[p], t)
    <3>1. Honest(k, Header(Build[p], loaded[p]), cache[p][k])
      BY <2>1 DEF CacheInvariant, PacksAreHonest, Running
    <3> QED
      BY <2>3, <3>1 DEF Honest, Header
  <2>4. PacksAreHonest'
    BY <2>1, <2>2 DEF CacheInvariant, PacksAreHonest, Running
  <2>5. ServedIsFresh'
    BY <2>1, <2>2 DEF CacheInvariant, ServedIsFresh
  <2> QED
    BY <2>1, <2>2, <2>3, <2>4, <2>5 DEF CacheInvariant, Running
<1>5. ASSUME NEW p \in Procs, Pass(p) PROVE CacheInvariant'
  <2>1. /\ pc[p] = "ready" /\ pc'[p] = "passed" /\ Running(p)
        /\ outcome'[p] = [f \in Speaking(seen[p]) |-> Analyzed(p, seen[p].contents[f])]
        /\ UNCHANGED <<disk, session>>
    BY <1>5 DEF TypeOK, Pass, Running
  <2>2. ASSUME NEW q \in Procs, q # p
        PROVE  pc'[q] = pc[q] /\ outcome'[q] = outcome[q]
    BY <1>5, <2>2 DEF TypeOK, Pass
  <2>3. outcome'[p] = Expected(Build[p], seen[p])
    BY <2>1, AnalyzedIsCold DEF Expected
  <2>4. PacksAreHonest'
    BY <2>1, <2>2 DEF CacheInvariant, PacksAreHonest, Running
  <2>5. ServedIsFresh'
    BY <2>1, <2>2, <2>3 DEF CacheInvariant, ServedIsFresh
  <2> QED
    BY <2>1, <2>2, <2>4, <2>5 DEF CacheInvariant, Running
<1>6. ASSUME NEW p \in Procs, Absorb(p) PROVE CacheInvariant'
  <2>1. /\ Running(p) /\ pc'[p] = "ready" /\ outcome'[p] = NoOutcome
        /\ UNCHANGED <<disk, cache, loaded, seeded>>
    BY <1>6 DEF TypeOK, Absorb, Running
  <2>2. ASSUME NEW q \in Procs, q # p
        PROVE  pc'[q] = pc[q] /\ outcome'[q] = outcome[q] /\ seen'[q] = seen[q]
    BY <1>6, <2>2 DEF TypeOK, Absorb
  <2>3. PacksAreHonest'
    BY <2>1, <2>2 DEF CacheInvariant, PacksAreHonest, Running
  <2>4. ServedIsFresh'
    BY <2>1, <2>2 DEF CacheInvariant, ServedIsFresh
  <2> QED
    BY <2>1, <2>2, <2>3, <2>4 DEF CacheInvariant, Running
<1>7. ASSUME NEW p \in Procs, Exit(p) \/ Kill(p) PROVE CacheInvariant'
  BY <1>7, GoneKeeps DEF Exit, Kill
<1>8. ASSUME NEW p \in Procs, SkipPersist(p) \/ PersistAgain(p) \/ PrepareDirectory(p) \/ PrepareFails(p)
      PROVE  CacheInvariant'
  BY <1>8, Quiet DEF TypeOK, SkipPersist, PersistAgain, PrepareDirectory, PrepareFails
<1>9. ASSUME NEW p \in Procs, SkipWrite(p) \/ CreateTemporary(p) \/ WriteFails(p)
      PROVE  CacheInvariant'
  BY <1>9, Quiet DEF TypeOK, SkipWrite, CreateTemporary, WriteFails
<1>10. ASSUME NEW p \in Procs, Rename(p) PROVE CacheInvariant'
  <2> DEFINE k == Head(todo[p])
  <2>1. /\ pc[p] = "renaming" /\ pc' = [pc EXCEPT ![p] = "writing"] /\ Running(p)
        /\ UNCHANGED <<session, outcome>>
        /\ disk' = disk \/ disk' = [disk EXCEPT ![k] = PackOf(p, k)]
    BY <1>10 DEF Rename, Running
  <2>2. k \in Packs
    BY <2>1, TodoType DEF TypeOK
  <2>3. \A q \in Procs : \/ pc'[q] = pc[q]
                         \/ {pc[q], pc'[q]} \cap {"off", "loading", "ready"} = {}
    BY <2>1 DEF TypeOK
  <2>4. Honest(k, PackOf(p, k).header, PackOf(p, k).entries)
    BY <2>1, <2>2, CollectedHonest DEF PackOf
  <2> HIDE DEF k
  <2>5. CASE disk' = disk
    BY <2>1, <2>3, <2>5, Quiet
  <2>6. CASE disk' = [disk EXCEPT ![k] = PackOf(p, k)]
    BY <2>1, <2>2, <2>3, <2>4, <2>6, DiskKeeps
  <2> QED
    BY <2>1, <2>5, <2>6
<1>11. ASSUME NEW p \in Procs, FinishPersist(p) PROVE CacheInvariant'
  <2>1. /\ pc[p] = "writing" /\ pc' = [pc EXCEPT ![p] = "idle"] /\ Running(p)
        /\ UNCHANGED <<disk, seen, seeded, outcome>>
    BY <1>11 DEF FinishPersist, Running
  <2>2. \A q \in Procs : \/ pc'[q] = pc[q]
                         \/ {pc[q], pc'[q]} \cap {"off", "loading", "ready"} = {}
    BY <2>1 DEF TypeOK
  <2>3. CASE UNCHANGED <<cache, loaded>>
    BY <2>1, <2>2, <2>3, Quiet
  <2>4. CASE SwapSnapshot(p)
    <3>1. /\ cache'[p] = [k \in Packs |-> Collected(p, k)]
          /\ loaded'[p] = SettingsOf(seen[p])
          /\ \A q \in Procs : q # p => cache'[q] = cache[q] /\ loaded'[q] = loaded[q]
      BY <2>4 DEF TypeOK, SwapSnapshot
    <3>2. Header(Build[p], loaded'[p]) = CurrentHeader(p)
      BY <3>1, HeaderOfSettings DEF CurrentHeader
    <3>3. \A k \in Packs : Honest(k, Header(Build[p], loaded'[p]), cache'[p][k])
      BY <2>1, <3>1, <3>2, CollectedHonest
    <3>4. \A q \in Procs : Running(q)' <=> Running(q)
      BY <2>2 DEF Running
    <3>5. PacksAreHonest'
      BY <2>1, <3>1, <3>3, <3>4 DEF CacheInvariant, PacksAreHonest
    <3>6. ServedIsFresh'
      BY <2>1 DEF CacheInvariant, ServedIsFresh
    <3> QED
      BY <2>1, <2>2, <3>1, <3>4, <3>5, <3>6 DEF CacheInvariant
  <2> QED
    BY <1>11, <2>3, <2>4 DEF FinishPersist
<1>12. ASSUME NEW k \in Packs, Delete(k) PROVE CacheInvariant'
  BY <1>12, DiskKeeps DEF Delete
<1>13. ASSUME NEW k \in Packs, Damage(k) PROVE CacheInvariant'
  BY <1>13, DiskKeeps DEF Damage
<1>14. CASE UNCHANGED vars
  BY <1>14, Quiet DEF vars
<1> QED
  BY <1>1, <1>2, <1>3, <1>4, <1>5, <1>6, <1>7, <1>8, <1>9, <1>10, <1>11, <1>12, <1>13, <1>14
  DEF Next, Process, Persist

\* Every pack on disk and every snapshot in memory is what its header says,
\* whoever wrote it, and a warm report is the cold one.
THEOREM CacheCorrect == Spec => []CacheInvariant
  BY TypeInit, TypeNext, CacheInit, CacheNext, PTL DEF Spec

\* A header, and a snapshot's settings, are true of every entry beneath them.
THEOREM Honesty == Spec => []PacksAreHonest
<1>1. CacheInvariant => PacksAreHonest
  BY DEF CacheInvariant
<1> QED
  BY <1>1, CacheCorrect, PTL

\* A warm run reports what a cold one would, for any project, any history of
\* edits and faults, and any number of processes over the directory.
THEOREM WarmIsCold == Spec => []ServedIsFresh
<1>1. CacheInvariant => ServedIsFresh
  BY DEF CacheInvariant
<1> QED
  BY <1>1, CacheCorrect, PTL

(***************************************************************************)
(* The processes implement analysis from nothing.                          *)
(***************************************************************************)

\* Both specifications mean the same by a project and by its analysis.
LEMMA ColdMeansTheSame ==
    /\ Cold!Project = Project
    /\ \A b, s : Cold!Expected(b, s) = Expected(b, s)
<1>1. Cold!Project = Project
  BY DEF Project, Cold!Project
<1>2. \A s : Cold!Speaking(s) = Speaking(s)
  BY DEF Speaking, Sources, Cold!Speaking, Cold!Sources
<1>3. \A s, n : /\ Cold!Resolution(s, n) = Resolution(s, n)
                /\ Cold!Surface(s, n) = Surface(s, n)
  BY DEF Resolution, Surface, Declaring, First, Sources,
         Cold!Resolution, Cold!Surface, Cold!Declaring, Cold!First, Cold!Sources
<1>4. \A s, t : /\ Cold!Resolutions(s, t) = Resolutions(s, t)
                /\ Cold!Surfaces(s, t) = Surfaces(s, t)
  BY <1>3 DEF Resolutions, Surfaces, Cold!Resolutions, Cold!Surfaces
<1>5. \A b, s, t : Cold!ComposedFrom(Cold!Tree(b, t), s, t) = ComposedFrom(Tree(b, t), s, t)
  BY <1>4 DEF ComposedFrom, Portion, Tree, Cold!ComposedFrom, Cold!Portion, Cold!Tree
<1> QED
  BY <1>1, <1>2, <1>5 DEF Expected, Cold!Expected

\* A process that takes a project in, or is gone, has reported nothing of it.
LEMMA TakesOne ==
    ASSUME TypeOK, NEW p \in Procs, NEW s \in Project \cup {NoProject},
           seen' = [seen EXCEPT ![p] = s],
           outcome' = [outcome EXCEPT ![p] = NoOutcome]
    PROVE  Cold!Next
<1>1. Cold!Take(p)
  BY ColdMeansTheSame DEF Cold!Take
<1> QED
  BY <1>1 DEF Cold!Next

LEMMA ColdStep ==
    TypeOK /\ TypeOK' /\ CacheInvariant /\ CacheInvariant' /\ [Next]_vars => [Cold!Next]_(Cold!vars)
<1> SUFFICES ASSUME TypeOK, TypeOK', CacheInvariant, CacheInvariant', [Next]_vars
             PROVE  Cold!Next \/ UNCHANGED <<seen, outcome>>
  BY DEF Cold!vars
<1> USE DEF user, directory, session
<1>1. ASSUME NEW p \in Procs, outcome[p] = NoOutcome
      PROVE  outcome = [outcome EXCEPT ![p] = NoOutcome]
  BY <1>1 DEF TypeOK
<1>2. ASSUME NEW p \in Procs, Start(p) PROVE Cold!Next
  <2>1. [project EXCEPT !.contents = NoSource] \in Project
    BY ContentsType DEF TypeOK, NoSource
  <2>2. outcome' = [outcome EXCEPT ![p] = NoOutcome]
    BY <1>1, <1>2 DEF Start, CacheInvariant
  <2> QED
    BY <1>2, <2>1, <2>2, TakesOne DEF Start
<1>3. ASSUME NEW p \in Procs, ReadSources(p) PROVE Cold!Next
  <2>1. seen[p] \in Project /\ outcome' = [outcome EXCEPT ![p] = NoOutcome]
    BY <1>1, <1>3 DEF TypeOK, ReadSources, CacheInvariant, Running
  <2>2. [seen[p] EXCEPT !.contents = project.contents] \in Project
    BY <2>1, ContentsType DEF TypeOK, Project
  <2>3. seen' = [seen EXCEPT ![p] = [seen[p] EXCEPT !.contents = project.contents]]
    BY <1>3 DEF ReadSources
  <2> QED
    BY <2>1, <2>2, <2>3, TakesOne
<1>4. ASSUME NEW p \in Procs, Pass(p) PROVE Cold!Next \/ UNCHANGED <<seen, outcome>>
  <2> DEFINE report == [f \in Speaking(seen[p]) |-> Analyzed(p, seen[p].contents[f])]
  <2>1. /\ seen' = seen /\ seen[p] \in Project /\ Running(p)
        /\ outcome' = [outcome EXCEPT ![p] = report]
    BY <1>4 DEF TypeOK, Pass, Running
  <2>2. report = Expected(Build[p], seen[p])
    BY <2>1, AnalyzedIsCold DEF Expected
  <2>3. seen[p] # NoProject
    BY <2>1, CacheAssumption
  <2> HIDE DEF report
  <2>4. Cold!Report(p)
    BY <2>1, <2>2, <2>3, ColdMeansTheSame DEF Cold!Report
  <2> QED
    BY <2>4 DEF Cold!Next
<1>5. ASSUME NEW p \in Procs, Absorb(p) PROVE Cold!Next
  BY <1>5, TakesOne DEF TypeOK, Absorb
<1>6. ASSUME NEW p \in Procs, Exit(p) \/ Kill(p) PROVE Cold!Next
  BY <1>6, TakesOne DEF Exit, Kill, Gone
<1>7. ASSUME NEW p \in Procs,
             \/ LoadPack(p) \/ Persist(p) \/ PrepareFails(p) \/ WriteFails(p)
      PROVE  UNCHANGED <<seen, outcome>>
  BY <1>7 DEF LoadPack, Persist, SkipPersist, PersistAgain, PrepareDirectory, SkipWrite,
              CreateTemporary, Rename, FinishPersist, PrepareFails, WriteFails
<1>8. ASSUME Edit \/ UNCHANGED vars \/ \E k \in Packs : Delete(k) \/ Damage(k)
      PROVE  UNCHANGED <<seen, outcome>>
  BY <1>8 DEF Edit, vars, Delete, Damage
<1> QED
  BY <1>2, <1>3, <1>4, <1>5, <1>6, <1>7, <1>8 DEF Next, Process

\* No pack, no crash, no other process and no history of edits shows in what a
\* run reports: the cache implements a check that has none.
THEOREM Transparent == Spec => ImplementsColdCheck
<1>1. Init => Cold!Init
  BY DEF Init, Cold!Init
<1>2. TypeOK /\ TypeOK' /\ CacheInvariant /\ CacheInvariant' /\ [Next]_vars
        => [Cold!Next]_(Cold!vars)
  BY ColdStep
<1> QED
  BY <1>1, <1>2, CacheTypeCorrect, CacheCorrect, PTL DEF Spec, ImplementsColdCheck, Cold!Spec

----------------------------------------------------------------------------
(***************************************************************************)
(* Persisting, for any packs and any number of processes, edits and        *)
(* faults: what a persist answers for is on disk, and a persist leaves the *)
(* next run warm.                                                          *)
(***************************************************************************)

\* A pack file is told from a missing one and from damaged bytes.
PacksAreFiles ==
    \A header, entries : [header |-> header, entries |-> entries] \notin {NoPack, Damaged}

Left(p) == {todo[p][i] : i \in DOMAIN todo[p]}

NoRepeat(s) == \A i, j \in DOMAIN s : s[i] = s[j] => i = j

\* The file has gone, or a start would load what the snapshot holds.
Holds(p, k) ==
    disk[k] = NoPack \/ Decode(disk[k], Header(Build[p], loaded[p])) = cache[p][k]

\* A start would load what this pass persists.
IsCurrent(p, k) == Decode(disk[k], CurrentHeader(p)) = Collected(p, k)

Writing(p) == pc[p] \in {"writing", "renaming"}

\* Where each pack of a process stands, but for those that are alien to it.
DiskPart(p) ==
    /\ pc[p] = "loading" \/ Writing(p) => NoRepeat(todo[p])
    /\ Writing(p) => \A k \in Packs : answered[p][k] = "pending" <=> k \in Left(p)
    /\ \A k \in Packs \ alien[p] :
          /\ pc[p] = "loading" /\ k \notin Left(p) => Holds(p, k)
          /\ pc[p] \in {"ready", "passed", "idle"} => Holds(p, k)
          /\ Writing(p) /\ answered[p][k] # "written" => Holds(p, k)
          /\ Writing(p) /\ answered[p][k] \in {"unchanged", "written"} => IsCurrent(p, k)

DiskInvariant == \A p \in Procs : DiskPart(p)

----------------------------------------------------------------------------

\* The pack at hand leaves the list, and no other does.
LEMMA TakeHead ==
    ASSUME NEW s \in Seq(Packs), s # << >>, NoRepeat(s)
    PROVE  /\ NoRepeat(Tail(s))
           /\ Head(s) \in Packs
           /\ {Tail(s)[i] : i \in DOMAIN Tail(s)} = {s[i] : i \in DOMAIN s} \ {Head(s)}
<1>1. /\ Tail(s) \in Seq(Packs) /\ Len(Tail(s)) = Len(s) - 1
      /\ Len(s) \in Nat \ {0} /\ DOMAIN s = 1..Len(s)
      /\ DOMAIN Tail(s) = 1..(Len(s) - 1)
      /\ \A i \in 1..(Len(s) - 1) : Tail(s)[i] = s[i + 1]
      /\ Head(s) = s[1] /\ Head(s) \in Packs
  BY HeadTailProperties, LenProperties
<1>2. NoRepeat(Tail(s))
  <2> SUFFICES ASSUME NEW i \in 1..(Len(s) - 1), NEW j \in 1..(Len(s) - 1),
                      s[i + 1] = s[j + 1]
               PROVE  i = j
    BY <1>1 DEF NoRepeat
  <2>1. i + 1 \in DOMAIN s /\ j + 1 \in DOMAIN s
    BY <1>1
  <2>2. i + 1 = j + 1
    BY <2>1 DEF NoRepeat
  <2> QED
    BY <1>1, <2>2
<1>3. ASSUME NEW i \in DOMAIN Tail(s)
      PROVE  Tail(s)[i] \in {s[j] : j \in DOMAIN s} /\ Tail(s)[i] # Head(s)
  <2>1. i + 1 \in DOMAIN s /\ 1 \in DOMAIN s /\ i + 1 # 1 /\ Tail(s)[i] = s[i + 1]
    BY <1>1
  <2> QED
    BY <1>1, <2>1 DEF NoRepeat
<1>4. ASSUME NEW j \in DOMAIN s, s[j] # Head(s)
      PROVE  s[j] \in {Tail(s)[i] : i \in DOMAIN Tail(s)}
  <2>1. j # 1 /\ j - 1 \in DOMAIN Tail(s) /\ Tail(s)[j - 1] = s[j]
    BY <1>1, <1>4
  <2> QED
    BY <2>1
<1> QED
  BY <1>1, <1>2, <1>3, <1>4

LEMMA PackOrderIs == NoRepeat(PackOrder) /\ Packs = {PackOrder[i] : i \in DOMAIN PackOrder}
BY CacheAssumption DEF NoRepeat, Packs

\* What a process would persist depends on what it holds and nothing else.
LEMMA CollectedStands ==
    ASSUME NEW p \in Procs,
           seen'[p] = seen[p], cache'[p] = cache[p], loaded'[p] = loaded[p],
           seeded'[p] = seeded[p], outcome'[p] = outcome[p], NEW k
    PROVE  Collected(p, k)' = Collected(p, k)
<1>1. /\ \A t, j : TreeOf(p, t, j)' = TreeOf(p, t, j)
      /\ Attached(p)' = Attached(p)
      /\ \A S : Sound(p, S)' = Sound(p, S)
      /\ \A S : TextsOf(p, S)' = TextsOf(p, S)
  BY DEF TreeOf, Attached, Sound, TextsOf
<1>2. \A t : Lookup(p, t)' = Lookup(p, t) /\ Composed(p, t)' = Composed(p, t)
  BY <1>1 DEF Lookup, Composed
<1>3. Verdicts(p)' = Verdicts(p)
  BY <1>1, <1>2 DEF Verdicts, Kept
<1>4. SignatureEntries(p)' = SignatureEntries(p)
  BY <1>1 DEF SignatureEntries
<1> QED
  BY <1>1, <1>3, <1>4 DEF Collected

LEMMA IsCurrentStands ==
    ASSUME NEW p \in Procs,
           seen'[p] = seen[p], cache'[p] = cache[p], loaded'[p] = loaded[p],
           seeded'[p] = seeded[p], outcome'[p] = outcome[p],
           NEW k, disk'[k] = disk[k]
    PROVE  IsCurrent(p, k)' <=> IsCurrent(p, k)
BY CollectedStands DEF IsCurrent, CurrentHeader

\* A process that holds what it held, over packs as they were but for alien ones
\* and for ones deleted while it was not writing.
LEMMA DiskStands ==
    ASSUME NEW p \in Procs, DiskPart(p),
           pc'[p] = pc[p], todo'[p] = todo[p], answered'[p] = answered[p],
           seen'[p] = seen[p], cache'[p] = cache[p], loaded'[p] = loaded[p],
           seeded'[p] = seeded[p], outcome'[p] = outcome[p],
           \A k \in Packs \ alien'[p] :
               /\ k \notin alien[p]
               /\ \/ disk'[k] = disk[k]
                  \/ /\ disk'[k] = NoPack
                     /\ ~Writing(p)
    PROVE  DiskPart(p)'
<1>1. Left(p)' = Left(p) /\ Writing(p)' = Writing(p)
  BY DEF Left, Writing
<1>2. ASSUME NEW k \in Packs \ alien'[p], Holds(p, k)
      PROVE  Holds(p, k)'
  BY <1>2 DEF Holds
<1>3. ASSUME NEW k \in Packs \ alien'[p], Writing(p), IsCurrent(p, k)
      PROVE  IsCurrent(p, k)'
  BY <1>3, IsCurrentStands
<1> QED
  BY <1>1, <1>2, <1>3 DEF DiskPart

\* A process that is not running has nothing on its hands.
LEMMA DiskOff ==
    ASSUME NEW p, pc[p] = "off"
    PROVE  DiskPart(p)
BY DEF DiskPart, Writing

LEMMA DiskInit == Init => DiskInvariant
BY DiskOff DEF Init, DiskInvariant

LEMMA DiskLoads ==
    ASSUME TypeOK, DiskInvariant, NEW p \in Procs, Start(p) \/ LoadPack(p) \/ ReadSources(p)
    PROVE  DiskPart(p)'
<1> USE DEF TypeOK, session, directory
<1>1. CASE Start(p)
  <2>1. pc'[p] = "loading" /\ todo'[p] = PackOrder
    BY <1>1 DEF Start
  <2>2. NoRepeat(todo'[p]) /\ \A k \in Packs : k \in Left(p)'
    BY <2>1, PackOrderIs DEF Left
  <2> QED
    BY <2>1, <2>2 DEF DiskPart, Writing
<1>2. CASE LoadPack(p)
  <2> DEFINE k == Head(todo[p])
  <2>1. /\ pc[p] = "loading" /\ pc' = pc /\ todo[p] # << >> /\ NoRepeat(todo[p])
        /\ todo'[p] = Tail(todo[p])
        /\ disk' = disk /\ loaded' = loaded
        /\ alien'[p] = alien[p] \ {k}
    BY <1>2 DEF LoadPack, DiskInvariant, DiskPart
  <2>2. k \in Packs /\ NoRepeat(todo'[p]) /\ Left(p)' = Left(p) \ {k}
    <3>1. todo[p] \in Seq(Packs)
      BY DEF TypeOK
    <3>2. /\ NoRepeat(Tail(todo[p])) /\ Head(todo[p]) \in Packs
          /\ {Tail(todo[p])[i] : i \in DOMAIN Tail(todo[p])} = Left(p) \ {Head(todo[p])}
      BY <2>1, <3>1, TakeHead DEF Left
    <3> DEFINE rest == Tail(todo[p])
    <3>3. todo'[p] = rest
      BY <2>1
    <3> HIDE DEF rest
    <3>4. Left(p)' = {rest[i] : i \in DOMAIN rest} /\ NoRepeat(rest) = NoRepeat(todo'[p])
      BY <3>3, Zenon DEF Left
    <3> QED
      BY <2>1, <3>2, <3>4 DEF rest
  <2>3. /\ cache'[p][k] = Decode(disk[k], Header(Build[p], loaded[p]))
        /\ \A j \in Packs : j # k => cache'[p][j] = cache[p][j]
    <3>1. cache[p] = [j \in Packs |-> cache[p][j]]
      BY DEF IsSnapshot
    <3>2. cache' = [cache EXCEPT ![p] = [cache[p] EXCEPT ![k] =
                        Decode(disk[k], Header(Build[p], loaded[p]))]]
      BY <1>2 DEF LoadPack
    <3> QED
      BY <2>2, <3>1, <3>2
  <2>4. \A j \in Packs \ alien'[p] : j \notin Left(p)' => Holds(p, j)'
    <3> TAKE j \in Packs \ alien'[p]
    <3>1. CASE j = k
      BY <2>1, <2>3, <3>1 DEF Holds
    <3>2. CASE j # k
      <4>1. j \notin Left(p)' => Holds(p, j)
        BY <2>1, <2>2, <3>2 DEF DiskInvariant, DiskPart
      <4> QED
        BY <2>1, <2>3, <3>2, <4>1 DEF Holds
    <3> QED
      BY <3>1, <3>2
  <2> QED
    BY <2>1, <2>2, <2>4 DEF DiskPart, Writing
<1>3. CASE ReadSources(p)
  <2>1. /\ pc[p] = "loading" /\ pc'[p] = "ready" /\ todo[p] = << >>
        /\ disk' = disk /\ loaded' = loaded /\ cache' = cache /\ alien' = alien
    BY <1>3 DEF ReadSources
  <2>2. Left(p) = {}
    BY <2>1 DEF Left
  <2>3. \A k \in Packs \ alien[p] : Holds(p, k)
    BY <2>1, <2>2 DEF DiskInvariant, DiskPart
  <2>4. \A k \in Packs \ alien'[p] : Holds(p, k)'
    BY <2>1, <2>3 DEF Holds
  <2> QED
    BY <2>1, <2>4 DEF DiskPart, Writing
<1> QED
  BY <1>1, <1>2, <1>3

\* Between persists a process keeps its snapshot.
LEMMA DiskRests ==
    ASSUME TypeOK, DiskInvariant, NEW p \in Procs,
           \/ Pass(p) \/ Absorb(p) \/ SkipPersist(p) \/ PersistAgain(p) \/ PrepareFails(p)
    PROVE  DiskPart(p)'
<1> USE DEF TypeOK, session, directory
<1>1. /\ pc[p] \in {"ready", "passed", "idle"} /\ pc'[p] \in {"ready", "passed", "idle"}
      /\ disk' = disk /\ loaded' = loaded /\ cache' = cache /\ alien' = alien
  BY DEF Pass, Absorb, SkipPersist, PersistAgain, PrepareFails
<1>2. \A k \in Packs \ alien[p] : Holds(p, k)
  BY <1>1 DEF DiskInvariant, DiskPart
<1>3. \A k \in Packs \ alien'[p] : Holds(p, k)'
  BY <1>1, <1>2 DEF Holds
<1> QED
  BY <1>1, <1>3 DEF DiskPart, Writing

LEMMA DiskPrepares ==
    ASSUME TypeOK, DiskInvariant, NEW p \in Procs, PrepareDirectory(p)
    PROVE  DiskPart(p)'
<1> USE DEF TypeOK, session, directory
<1>1. /\ pc[p] = "passed" /\ pc'[p] = "writing" /\ todo'[p] = PackOrder /\ answered'[p] = Pending
      /\ disk' = disk /\ loaded' = loaded /\ cache' = cache /\ alien' = alien
  BY DEF PrepareDirectory
<1>2. \A k \in Packs \ alien[p] : Holds(p, k)
  BY <1>1 DEF DiskInvariant, DiskPart
<1>3. \A k \in Packs \ alien'[p] : Holds(p, k)'
  BY <1>1, <1>2 DEF Holds
<1>4. NoRepeat(todo'[p]) /\ \A k \in Packs : k \in Left(p)' /\ answered'[p][k] = "pending"
  BY <1>1, PackOrderIs DEF Left, Pending
<1> QED
  BY <1>1, <1>3, <1>4 DEF DiskPart, Writing

\* One pack is answered for; the others are as they were.
LEMMA DiskAnswers ==
    ASSUME TypeOK, DiskInvariant, NEW p \in Procs,
           Writing(p), todo[p] # << >>, pc'[p] \in {"writing", "renaming"},
           NEW write \in {"unchanged", "written", "failed"}, Answer(p, write),
           NEW k, k = Head(todo[p]),
           UNCHANGED session, UNCHANGED outcome,
           \A j \in Packs : j # k => /\ disk'[j] = disk[j]
                                     /\ j \in alien[p] <=> j \in alien'[p],
           k \notin alien'[p] /\ write # "written" => Holds(p, k)',
           k \notin alien'[p] /\ write \in {"unchanged", "written"} => IsCurrent(p, k)'
    PROVE  DiskPart(p)'
<1>1. UNCHANGED <<seen, cache, loaded, seeded, outcome>>
  BY DEF session
<1>2. NoRepeat(todo[p]) /\ todo[p] \in Seq(Packs)
      /\ \A j \in Packs : answered[p][j] = "pending" <=> j \in Left(p)
  BY DEF TypeOK, DiskInvariant, DiskPart
<1>3. /\ todo'[p] = Tail(todo[p])
      /\ answered'[p] = [answered[p] EXCEPT ![k] = write]
  BY DEF Answer, TypeOK
<1>4. k \in Packs /\ NoRepeat(todo'[p]) /\ Left(p)' = Left(p) \ {k}
  <2>1. todo[p] \in Seq(Packs)
    BY DEF TypeOK
  <2>2. /\ NoRepeat(Tail(todo[p])) /\ Head(todo[p]) \in Packs
        /\ {Tail(todo[p])[i] : i \in DOMAIN Tail(todo[p])} = Left(p) \ {Head(todo[p])}
    BY <1>2, <1>3, <2>1, TakeHead DEF Left
  <2> DEFINE rest == Tail(todo[p])
  <2>3. todo'[p] = rest
    BY <1>2, <1>3
  <2> HIDE DEF rest
  <2>4. Left(p)' = {rest[i] : i \in DOMAIN rest} /\ NoRepeat(rest) = NoRepeat(todo'[p])
    BY <2>3, Zenon DEF Left
  <2> QED
    BY <1>2, <1>3, <2>2, <2>4 DEF rest
<1>5. answered'[p][k] = write /\ \A j \in Packs : j # k => answered'[p][j] = answered[p][j]
  BY <1>3, <1>4 DEF TypeOK
<1>6. \A j \in Packs : answered'[p][j] = "pending" <=> j \in Left(p)'
  BY <1>2, <1>4, <1>5
<1>7. ASSUME NEW j \in Packs \ alien'[p], j # k
      PROVE  /\ Holds(p, j)' <=> Holds(p, j)
             /\ IsCurrent(p, j)' <=> IsCurrent(p, j)
  BY <1>1, <1>7, IsCurrentStands DEF Holds
<1>8. ASSUME NEW j \in Packs \ alien'[p], j # k
      PROVE  /\ answered[p][j] # "written" => Holds(p, j)
             /\ answered[p][j] \in {"unchanged", "written"} => IsCurrent(p, j)
  BY <1>8 DEF DiskInvariant, DiskPart
<1>9. \A j \in Packs \ alien'[p] :
        /\ answered'[p][j] # "written" => Holds(p, j)'
        /\ answered'[p][j] \in {"unchanged", "written"} => IsCurrent(p, j)'
  BY <1>5, <1>7, <1>8
<1> QED
  BY <1>4, <1>6, <1>9 DEF DiskPart, Writing

\* What a header says of a process's settings, once they are the snapshot's.
LEMMA SettledHeader ==
    ASSUME NEW p, SettingsOf(seen[p]) = loaded[p]
    PROVE  CurrentHeader(p) = Header(Build[p], loaded[p])
BY HeaderOfSettings DEF CurrentHeader

\* The pack at hand is one that has not been answered for.
LEMMA HeadIsLeft ==
    ASSUME TypeOK, DiskInvariant, NEW p \in Procs, Writing(p), todo[p] # << >>
    PROVE  \E k \in Packs : k = Head(todo[p]) /\ k \in Left(p) /\ answered[p][k] = "pending"
<1>1. todo[p] \in Seq(Packs) /\ \A j \in Packs : answered[p][j] = "pending" <=> j \in Left(p)
  BY DEF TypeOK, DiskInvariant, DiskPart
<1>2. Head(todo[p]) = todo[p][1] /\ 1 \in DOMAIN todo[p] /\ Head(todo[p]) \in Packs
  BY <1>1, LenProperties, HeadTailProperties
<1> QED
  BY <1>1, <1>2 DEF Left

\* A write is skipped when the snapshot already is what would be written.
LEMMA DiskSkips ==
    ASSUME TypeOK, DiskInvariant, NEW p \in Procs, SkipWrite(p)
    PROVE  DiskPart(p)'
<1>1. /\ pc[p] = "writing" /\ pc' = pc /\ todo[p] # << >> /\ Answer(p, "unchanged")
      /\ Unchanged(p, Head(todo[p])) /\ UNCHANGED session /\ UNCHANGED outcome
      /\ disk' = disk /\ alien' = alien
  BY DEF SkipWrite, directory
<1>2. UNCHANGED <<seen, cache, loaded, seeded, outcome>>
  BY <1>1 DEF session
<1>3. Writing(p) /\ pc'[p] \in {"writing", "renaming"}
  BY <1>1 DEF Writing
<1>4. PICK k \in Packs : k = Head(todo[p]) /\ answered[p][k] = "pending"
  BY <1>1, <1>3, HeadIsLeft
<1>5. k \notin alien[p] => Holds(p, k)
  BY <1>3, <1>4 DEF DiskInvariant, DiskPart
<1>6. disk[k] # NoPack /\ SettingsOf(seen[p]) = loaded[p] /\ Collected(p, k) = cache[p][k]
  BY <1>1, <1>4 DEF Unchanged
<1>7. k \notin alien[p] => IsCurrent(p, k)
  BY <1>5, <1>6, SettledHeader DEF Holds, IsCurrent
<1>8. k \notin alien'[p] => Holds(p, k)' /\ IsCurrent(p, k)'
  <2>1. Holds(p, k)' <=> Holds(p, k)
    BY <1>1, <1>2 DEF Holds
  <2>2. IsCurrent(p, k)' <=> IsCurrent(p, k)
    BY <1>1, <1>2, IsCurrentStands
  <2> QED
    BY <1>1, <1>5, <1>7, <2>1, <2>2
<1>9. \A j \in Packs : disk'[j] = disk[j] /\ (j \in alien[p] <=> j \in alien'[p])
  BY <1>1
<1> QED
  BY <1>1, <1>3, <1>4, <1>8, <1>9, DiskAnswers

\* A write that fails leaves the file as it was.
LEMMA DiskFails ==
    ASSUME TypeOK, DiskInvariant, NEW p \in Procs, Writing(p), todo[p] # << >>,
           pc' = [pc EXCEPT ![p] = "writing"], Answer(p, "failed"),
           UNCHANGED <<session, outcome, disk, alien>>
    PROVE  DiskPart(p)'
<1>1. UNCHANGED <<seen, cache, loaded, seeded, outcome, disk, alien>>
  BY DEF session
<1>2. PICK k \in Packs : k = Head(todo[p]) /\ answered[p][k] = "pending"
  BY HeadIsLeft
<1>3. k \notin alien[p] => Holds(p, k)
  BY <1>2 DEF DiskInvariant, DiskPart
<1>4. k \notin alien'[p] => Holds(p, k)'
  BY <1>1, <1>3 DEF Holds
<1>5. pc'[p] \in {"writing", "renaming"}
  BY DEF TypeOK
<1>6. \A j \in Packs : disk'[j] = disk[j] /\ (j \in alien[p] <=> j \in alien'[p])
  BY <1>1
<1> QED
  BY <1>1, <1>2, <1>4, <1>5, <1>6, DiskAnswers

\* The rename puts what was collected in place, unless the temporary has gone.
LEMMA DiskRenames ==
    ASSUME PacksAreFiles, TypeOK, DiskInvariant, NEW p \in Procs, Rename(p)
    PROVE  DiskPart(p)'
<1>1. /\ pc[p] = "renaming" /\ pc' = [pc EXCEPT ![p] = "writing"]
      /\ UNCHANGED session /\ UNCHANGED outcome
      /\ todo[p] # << >>
  BY DEF Rename, TypeOK
<1>2. UNCHANGED <<seen, cache, loaded, seeded, outcome>> /\ Writing(p)
  BY <1>1 DEF session, Writing
<1>3. PICK k \in Packs : k = Head(todo[p])
  BY <1>1, <1>2, HeadIsLeft
<1>4. CASE <<p, k>> \notin temporaries
  <2>1. Answer(p, "failed") /\ UNCHANGED <<disk, alien>>
    BY <1>3, <1>4 DEF Rename, directory
  <2> QED
    BY <1>1, <1>2, <2>1, DiskFails
<1>5. CASE <<p, k>> \in temporaries
  <2>1. /\ Answer(p, "written") /\ disk' = [disk EXCEPT ![k] = PackOf(p, k)]
        /\ alien'[p] = alien[p] \ {k}
    BY <1>3, <1>5 DEF Rename
  <2>2. disk'[k] = PackOf(p, k) /\ \A j \in Packs : j # k => disk'[j] = disk[j]
    BY <2>1 DEF TypeOK
  <2>3. IsCurrent(p, k)'
    <3>1. PackOf(p, k) \notin {NoPack, Damaged}
      BY DEF PackOf, PacksAreFiles
    <3>2. Collected(p, k)' = Collected(p, k)
      BY <1>2, CollectedStands
    <3>3. CurrentHeader(p)' = CurrentHeader(p)
      BY <1>2 DEF CurrentHeader
    <3>4. Decode(disk'[k], CurrentHeader(p)) = Collected(p, k)
      BY <2>2, <3>1 DEF Decode, PackOf
    <3> QED
      BY <3>2, <3>3, <3>4 DEF IsCurrent
  <2>4. pc'[p] \in {"writing", "renaming"}
    BY <1>1 DEF TypeOK
  <2>5. \A j \in Packs : j # k => /\ disk'[j] = disk[j]
                                  /\ j \in alien[p] <=> j \in alien'[p]
    BY <2>1, <2>2
  <2> QED
    BY <1>1, <1>2, <1>3, <2>1, <2>3, <2>4, <2>5, DiskAnswers
<1> QED
  BY <1>4, <1>5

\* After the last pack, all that was not written is as the snapshot has it.
LEMMA DiskFinishes ==
    ASSUME TypeOK, DiskInvariant, NEW p \in Procs, FinishPersist(p)
    PROVE  DiskPart(p)'
<1>1. /\ pc[p] = "writing" /\ pc'[p] = "idle" /\ todo[p] = << >> /\ disk' = disk
  BY DEF FinishPersist, TypeOK, directory
<1>2. Left(p) = {} /\ Writing(p)
  BY <1>1 DEF Left, Writing
<1>3. \A k \in Packs : answered[p][k] \in {"unchanged", "written", "failed"}
  BY <1>2 DEF DiskInvariant, DiskPart, TypeOK
<1>4. \A k \in Packs \ alien[p] :
        /\ answered[p][k] # "written" => Holds(p, k)
        /\ answered[p][k] \in {"unchanged", "written"} => IsCurrent(p, k)
  BY <1>2 DEF DiskInvariant, DiskPart
<1>5. \A k \in Packs \ alien'[p] : Holds(p, k)'
  <2>1. CASE AnsweredWith(p, "failed") = {}
    <3>1. /\ cache'[p] = [k \in Packs |-> Collected(p, k)]
          /\ loaded'[p] = SettingsOf(seen[p]) /\ alien' = alien
      BY <2>1 DEF FinishPersist, SwapSnapshot, TypeOK
    <3>2. \A k \in Packs : answered[p][k] \in {"unchanged", "written"}
      BY <1>3, <2>1 DEF AnsweredWith
    <3>3. Header(Build[p], loaded'[p]) = CurrentHeader(p)
      BY <3>1, HeaderOfSettings DEF CurrentHeader
    <3> QED
      BY <1>1, <1>4, <3>1, <3>2, <3>3 DEF Holds, IsCurrent
  <2>2. CASE AnsweredWith(p, "failed") # {}
    <3>1. cache' = cache /\ loaded' = loaded /\ alien'[p] = alien[p] \cup AnsweredWith(p, "written")
      BY <2>2 DEF FinishPersist, TypeOK
    <3>2. \A k \in Packs \ alien'[p] : k \notin alien[p] /\ answered[p][k] # "written"
      BY <3>1 DEF AnsweredWith
    <3> QED
      BY <1>1, <1>4, <3>1, <3>2 DEF Holds
  <2> QED
    BY <2>1, <2>2
<1> QED
  BY <1>1, <1>5 DEF DiskPart, Writing

\* What a process does leaves the others where they were, or makes a pack alien
\* to them.
LEMMA DiskOfOthers ==
    ASSUME TypeOK, DiskInvariant, NEW p \in Procs, Process(p), NEW q \in Procs, q # p
    PROVE  DiskPart(q)'
<1> USE DEF TypeOK, session, directory
<1>1. /\ pc'[q] = pc[q] /\ todo'[q] = todo[q] /\ answered'[q] = answered[q]
      /\ seen'[q] = seen[q] /\ cache'[q] = cache[q] /\ loaded'[q] = loaded[q]
      /\ seeded'[q] = seeded[q] /\ outcome'[q] = outcome[q]
  <2>1. CASE Start(p) \/ LoadPack(p) \/ ReadSources(p) \/ Pass(p) \/ Absorb(p)
    BY <2>1 DEF Start, LoadPack, ReadSources, Pass, Absorb
  <2>2. CASE Exit(p) \/ Kill(p)
    BY <2>2 DEF Exit, Kill, Gone
  <2>3. CASE Persist(p)
    BY <2>3 DEF Persist, SkipPersist, PersistAgain, PrepareDirectory, SkipWrite,
                CreateTemporary, Rename, Answer, FinishPersist, SwapSnapshot
  <2>4. CASE PrepareFails(p) \/ WriteFails(p)
    BY <2>4 DEF PrepareFails, WriteFails, Answer
  <2> QED
    BY <2>1, <2>2, <2>3, <2>4 DEF Process
<1>2. CASE ~Running(q)
  BY <1>1, <1>2 DEF DiskPart, Writing, Running
<1>3. CASE Running(q)
  <2>1. \A k \in Packs \ alien'[q] : k \notin alien[q] /\ disk'[k] = disk[k]
    <3>1. CASE Rename(p)
      <4>1. CASE disk' = disk /\ alien' = alien
        BY <4>1
      <4>2. CASE /\ disk' = [disk EXCEPT ![Head(todo[p])] = PackOf(p, Head(todo[p]))]
                 /\ alien'[q] = alien[q] \cup {Head(todo[p])}
        BY <4>2
      <4> QED
        BY <1>3, <3>1, <4>1, <4>2 DEF Rename
    <3>2. CASE ~Rename(p)
      <4>1. disk' = disk /\ alien'[q] = alien[q]
        BY <3>2 DEF Process, Start, LoadPack, ReadSources, Pass, Absorb, Exit, Kill, Gone,
           Persist, SkipPersist, PersistAgain, PrepareDirectory, SkipWrite, CreateTemporary,
           FinishPersist, PrepareFails, WriteFails
      <4> QED
        BY <4>1
    <3> QED
      BY <3>1, <3>2
  <2> QED
    BY <1>1, <2>1, DiskStands DEF DiskInvariant
<1> QED
  BY <1>2, <1>3

LEMMA DiskOfProcess ==
    ASSUME PacksAreFiles, TypeOK, DiskInvariant, NEW p \in Procs, Process(p)
    PROVE  DiskPart(p)'
<1>1. CASE Start(p) \/ LoadPack(p) \/ ReadSources(p)
  BY <1>1, DiskLoads
<1>2. CASE Pass(p) \/ Absorb(p) \/ SkipPersist(p) \/ PersistAgain(p) \/ PrepareFails(p)
  BY <1>2, DiskRests
<1>3. CASE Exit(p) \/ Kill(p)
  <2>1. pc'[p] = "off"
    BY <1>3 DEF Exit, Kill, Gone, TypeOK
  <2> QED
    BY <2>1 DEF DiskPart, Writing
<1>4. CASE PrepareDirectory(p)
  BY <1>4, DiskPrepares
<1>5. CASE SkipWrite(p)
  BY <1>5, DiskSkips
<1>6. CASE CreateTemporary(p)
  <2>1. /\ Writing(p) /\ pc'[p] = "renaming" /\ todo' = todo /\ answered' = answered
        /\ UNCHANGED <<seen, cache, loaded, seeded, outcome, disk, alien>>
    BY <1>6 DEF CreateTemporary, session, Writing, TypeOK
  <2>2. \A k \in Packs : /\ Holds(p, k)' <=> Holds(p, k)
                         /\ IsCurrent(p, k)' <=> IsCurrent(p, k)
    BY <2>1, IsCurrentStands DEF Holds
  <2>3. Left(p)' = Left(p)
    BY <2>1 DEF Left
  <2> QED
    BY <2>1, <2>2, <2>3 DEF DiskInvariant, DiskPart, Writing
<1>7. CASE Rename(p)
  BY <1>7, DiskRenames
<1>8. CASE FinishPersist(p)
  BY <1>8, DiskFinishes
<1>9. CASE WriteFails(p)
  <2>1. /\ Writing(p) /\ todo[p] # << >> /\ pc' = [pc EXCEPT ![p] = "writing"]
        /\ Answer(p, "failed") /\ UNCHANGED <<session, outcome, disk, alien>>
    BY <1>9 DEF WriteFails, Writing, TypeOK
  <2> QED
    BY <2>1, DiskFails
<1> QED
  BY <1>1, <1>2, <1>3, <1>4, <1>5, <1>6, <1>7, <1>8, <1>9 DEF Process, Persist

LEMMA DiskNext ==
    ASSUME PacksAreFiles, TypeOK, DiskInvariant, [Next]_vars
    PROVE  DiskInvariant'
<1> SUFFICES ASSUME NEW q \in Procs PROVE DiskPart(q)'
  BY DEF DiskInvariant
<1>1. ASSUME NEW p \in Procs, Process(p) PROVE DiskPart(q)'
  BY <1>1, DiskOfProcess, DiskOfOthers
<1>2. CASE Edit \/ UNCHANGED vars
  <2>1. UNCHANGED <<pc, todo, answered, seen, cache, loaded, seeded, outcome, disk, alien>>
    BY <1>2 DEF Edit, vars, session, directory
  <2> QED
    BY <2>1, DiskStands DEF DiskInvariant
<1>3. ASSUME NEW k \in Packs, Delete(k) \/ Damage(k) PROVE DiskPart(q)'
  <2>1. UNCHANGED <<pc, todo, answered, seen, cache, loaded, seeded, outcome>>
    BY <1>3 DEF Delete, Damage, session
  <2>2. CASE ~Running(q)
    BY <2>1, <2>2 DEF DiskPart, Writing, Running
  <2>3. CASE Running(q)
    <3>1. CASE Delete(k)
      <4>1. /\ disk' = [disk EXCEPT ![k] = NoPack]
            /\ alien'[q] = IF Writing(q) THEN alien[q] \cup {k} ELSE alien[q]
        BY <3>1 DEF Delete, Writing
      <4>2. \A j \in Packs \ alien'[q] :
                /\ j \notin alien[q]
                /\ \/ disk'[j] = disk[j]
                   \/ /\ disk'[j] = NoPack
                      /\ ~Writing(q)
        BY <4>1 DEF TypeOK
      <4> QED
        BY <2>1, <4>2, DiskStands DEF DiskInvariant
    <3>2. CASE Damage(k)
      <4>1. disk' = [disk EXCEPT ![k] = Damaged] /\ alien'[q] = alien[q] \cup {k}
        BY <2>3, <3>2 DEF Damage
      <4>2. \A j \in Packs \ alien'[q] : j \notin alien[q] /\ disk'[j] = disk[j]
        BY <4>1
      <4> QED
        BY <2>1, <4>2, DiskStands DEF DiskInvariant
    <3> QED
      BY <1>3, <3>1, <3>2
  <2> QED
    BY <2>2, <2>3
<1> QED
  BY <1>1, <1>2, <1>3 DEF Next

\* What a persist answers for, a start would load: whatever else is written,
\* killed, deleted or damaged around it, but for packs it cannot know about.
THEOREM AnsweredIsOnDisk ==
    ASSUME PacksAreFiles
    PROVE  Spec => []AnsweredPacksAreOnDisk
<1>1. DiskInvariant => AnsweredPacksAreOnDisk
  BY DEF DiskInvariant, DiskPart, Writing, IsCurrent, AnsweredPacksAreOnDisk
<1>2. Init => DiskInvariant
  BY DiskInit
<1>3. TypeOK /\ DiskInvariant /\ [Next]_vars => DiskInvariant'
  BY DiskNext
<1> QED
  BY <1>1, <1>2, <1>3, CacheTypeCorrect, PTL DEF Spec

(***************************************************************************)
(* A persist leaves the next run warm.                                     *)
(***************************************************************************)

LEMMA CollectedServes ==
    ASSUME TypeOK, NEW p \in Procs, FinishPersist(p), AnsweredWith(p, "failed") = {},
           NEW f \in Speaking(seen[p]), outcome[p][f] # Panicked
    PROVE  Lookup(p, seen[p].contents[f])' = "served"
<1> DEFINE t == seen[p].contents[f]
<1>1. /\ cache'[p] = [k \in Packs |-> Collected(p, k)] /\ loaded'[p] = SettingsOf(seen[p])
      /\ seen' = seen
  BY DEF FinishPersist, SwapSnapshot, TypeOK
<1>2. Attached(p)'[Diagnostics] = Verdicts(p)
  BY <1>1, DiagnosticsIsAPack DEF Attached, Collected, TreePacks, ItemTrees, MemberTrees,
     Diagnostics, Signatures
<1>3. t \in DOMAIN Verdicts(p)
  BY DEF Verdicts, TextsOf, Sound
<1>4. /\ Verdicts(p)[t].untyped.answers = Resolutions(seen[p], t)
      /\ Verdicts(p)[t].typed.answers = Surfaces(seen[p], t)
  <2>1. CASE Kept(p, t)
    <3>1. Verdicts(p)[t] = Attached(p)[Diagnostics][t]
      BY <1>3, <2>1 DEF Verdicts
    <3> QED
      BY <2>1, <3>1 DEF Kept, Lookup
  <2>2. CASE ~Kept(p, t)
    <3>1. Verdicts(p)[t] = Composed(p, t)
      BY <1>3, <2>2 DEF Verdicts
    <3> QED
      BY <3>1 DEF Composed, ComposedFrom, Portion
  <2> QED
    BY <2>1, <2>2
<1> QED
  BY <1>1, <1>2, <1>3, <1>4 DEF Lookup

\* A persist that succeeded leaves both halves of every file that did not panic
\* to be served, whatever it had itself served or recomputed.
THEOREM PersistWarms == Spec => PersistedIsWarm
<1> DEFINE Warms ==
      \A p \in Procs :
          FinishPersist(p) /\ AnsweredWith(p, "failed") = {} =>
            \A f \in Speaking(seen[p]) :
              outcome[p][f] # Panicked => Lookup(p, seen[p].contents[f])' = "served"
<1>1. TypeOK /\ [Next]_vars => [Warms]_vars
  BY CollectedServes
<1> QED
  BY <1>1, CacheTypeCorrect, PTL DEF Spec, PersistedIsWarm

=============================================================================
