------------------------------- MODULE Cache -------------------------------
(***************************************************************************)
(* The persistent cache of cache/mod.rs, pack.rs, snapshot.rs and          *)
(* verdict.rs: processes over one project that share `.celerrate/cache`.   *)
(* Each loads the packs once, serves what still validates, and rewrites    *)
(* the packs after a completed pass; each may be killed between any two of *)
(* its steps, and any step on the directory may fail.                      *)
(***************************************************************************)
EXTENDS Artifacts, Sequences

CONSTANTS
    Procs,            \* celerrate processes
    Build,            \* the build each runs
    PackOrder,        \* the packs, in the order they are loaded and written
    InitialProjects,  \* what the project may be at first
    Edits(_),         \* what one edit may make of a project
    FaultKinds,       \* what may go wrong, see Fault
    NoProject, NoOutcome, NoPack,
    Damaged,          \* bytes `decode` rejects: short, torn, wrong checksum
    MaxEdits,         \* bound on the user's edits
    MaxFaults         \* bound on what goes wrong

ItemTrees   == "item_trees"
MemberTrees == "member_trees"
Diagnostics == "diagnostics"
Signatures  == "inferred_signatures"

TreePacks == {ItemTrees, MemberTrees}
Packs     == {PackOrder[i] : i \in DOMAIN PackOrder}

ASSUME CacheAssumption ==
    /\ Build \in [Procs -> Builds]
    /\ PackOrder \in Seq({ItemTrees, MemberTrees, Diagnostics, Signatures})
    /\ \A i, j \in DOMAIN PackOrder : PackOrder[i] = PackOrder[j] => i = j
    /\ Diagnostics \in Packs
    /\ InitialProjects \subseteq Project
    /\ \A s \in Project : Edits(s) \subseteq Project
    /\ NoProject \notin Project \cup Settings
    /\ MaxEdits \in Nat /\ MaxFaults \in Nat

VARIABLES
    project, edits,   \* what the user has on disk, and edits made so far
    disk,             \* each pack file
    temporaries,      \* the `.tmp` files in the directory: whose, of which pack
    faults,           \* faults so far
    pc,               \* where each process is
    todo,             \* the packs it has yet to load, or to write
    answered,         \* how each write of this persist ended
    seen,             \* the inputs of its database
    cache, loaded,    \* its snapshot, and the settings that snapshot is under
    seeded,           \* the snapshot its database was given at the start
    outcome,          \* what its last pass reported
    alien             \* history: packs changed since it last read or wrote them

user      == <<project, edits>>
directory == <<disk, temporaries>>
session   == <<seen, cache, loaded, seeded>>
vars      == <<user, directory, faults, pc, todo, answered, session, outcome, alien>>

----------------------------------------------------------------------------
(* A pack file                                                              *)

Empty    == << >>
Nothing  == [k \in Packs |-> Empty]
NoSource == [f \in Files |-> NoText]
Pending  == [k \in Packs |-> "pending"]

Header(build, settings) ==
    [build |-> build, range |-> settings.range, config |-> settings.config]

\* Mutant: the checksum is trusted, the header is not read.
DecodeAny(file, expected) ==
    IF file \notin {NoPack, Damaged} THEN file.entries ELSE Empty

\* Anything less than a whole pack under the expected header reads as empty.
Decode(file, expected) ==
    IF file \notin {NoPack, Damaged} /\ file.header = expected
    THEN file.entries ELSE Empty

----------------------------------------------------------------------------
(* Serving: verdict.rs, and `inputs` of session.rs                          *)

\* Mutant: a moved configuration does not detach the snapshot.
AttachedByRange(p) == IF seen[p].range = loaded[p].range THEN cache[p] ELSE Nothing

\* The snapshot speaks only under the settings it was loaded or written for.
Attached(p) == IF SettingsOf(seen[p]) = loaded[p] THEN cache[p] ELSE Nothing

\* A verdict speaks again if every answer recorded with it still holds; the
\* typed half is asked only once the untyped half has passed.
Lookup(p, t) ==
    LET verdicts == Attached(p)[Diagnostics]
    IN  IF t \notin DOMAIN verdicts THEN "absent"
        ELSE IF verdicts[t].untyped.answers # Resolutions(seen[p], t) THEN "discarded"
        ELSE IF verdicts[t].typed.answers # Surfaces(seen[p], t) THEN "untyped"
        ELSE "served"

\* The tree queries read through the seeded snapshot, whatever the settings.
TreeOf(p, t, pack) ==
    IF pack \in Packs /\ t \in DOMAIN seeded[p][pack] THEN seeded[p][pack][t]
    ELSE Tree(Build[p], t)

Composed(p, t) == ComposedFrom(TreeOf(p, t, ItemTrees), seen[p], t)

\* `analyze_one`: each half from the pack if it validated, recomputed if not.
Analyzed(p, t) ==
    LET stored == Attached(p)[Diagnostics]
    IN  IF t \in Poison THEN Panicked
        ELSE CASE Lookup(p, t) = "served"  -> stored[t]
               [] Lookup(p, t) = "untyped" ->
                    [Composed(p, t) EXCEPT !.untyped = stored[t].untyped]
               [] OTHER                    -> Composed(p, t)

----------------------------------------------------------------------------
(* Collecting: the entries one pass may persist                             *)

Sound(p, files) == {f \in files : ~(f \in DOMAIN outcome[p] /\ outcome[p][f] = Panicked)}

TextsOf(p, files) == {seen[p].contents[f] : f \in files}

\* Mutant: a verdict whose untyped half was served is kept as it is.
KeptOnHit(p, t) == Lookup(p, t) \in {"served", "untyped"}

\* A stored verdict is kept only if both halves were served.
Kept(p, t) == Lookup(p, t) = "served"

Verdicts(p) ==
    [t \in TextsOf(p, Sound(p, Speaking(seen[p]))) |->
        IF Kept(p, t) THEN Attached(p)[Diagnostics][t] ELSE Composed(p, t)]

\* One per function or method of a reported file: `sort_entries` keeps the
\* first of two declarations of one name.
SignatureEntries(p) ==
    LET sound   == Sound(p, Speaking(seen[p]))
        of(n)   == {f \in sound : n \in DOMAIN Declares[seen[p].contents[f]]}
        text(n) == seen[p].contents[First(of(n))]
        names   == UNION {DOMAIN Declares[t] : t \in TextsOf(p, sound)}
    IN  [n \in names |->
            [content |-> text(n),
             tree    |-> TreeOf(p, text(n), MemberTrees),
             answers |-> Surfaces(seen[p], text(n))]]

Collected(p, k) ==
    CASE k \in TreePacks   -> [t \in TextsOf(p, Sound(p, Sources(seen[p]))) |-> TreeOf(p, t, k)]
      [] k = Diagnostics   -> Verdicts(p)
      [] k = Signatures    -> SignatureEntries(p)

\* `PackHeader::current`, over the settings the pass ran under.
CurrentHeader(p) == Header(Build[p], seen[p])

PackOf(p, k) == [header |-> CurrentHeader(p), entries |-> Collected(p, k)]

\* Mutant: equal entries are enough, whatever header they were written under.
UnchangedEntries(p, k) == disk[k] # NoPack /\ Collected(p, k) = cache[p][k]

\* Mutant: equal entries under the same settings are enough, the file or not.
UnchangedInMemory(p, k) ==
    SettingsOf(seen[p]) = loaded[p] /\ Collected(p, k) = cache[p][k]

\* `write_when_changed`: the file is there, under this header, with these entries.
Unchanged(p, k) ==
    /\ disk[k] # NoPack
    /\ SettingsOf(seen[p]) = loaded[p]
    /\ Collected(p, k) = cache[p][k]

----------------------------------------------------------------------------
(* The user                                                                 *)

Edit ==
    /\ edits < MaxEdits
    /\ project' \in Edits(project) \ {project}
    /\ edits' = edits + 1
    /\ UNCHANGED <<directory, faults, pc, todo, answered, session, outcome, alien>>

----------------------------------------------------------------------------
(* A process                                                                *)

Running(p) == pc[p] # "off"

\* Settings first, then the packs, then the sources: three reads of the disk.
Start(p) ==
    /\ pc[p] = "off"
    /\ pc' = [pc EXCEPT ![p] = "loading"]
    /\ seen' = [seen EXCEPT ![p] = [project EXCEPT !.contents = NoSource]]
    /\ loaded' = [loaded EXCEPT ![p] = SettingsOf(project)]
    /\ todo' = [todo EXCEPT ![p] = PackOrder]
    /\ UNCHANGED <<user, directory, faults, answered, cache, seeded, outcome, alien>>

LoadPack(p) ==
    /\ pc[p] = "loading" /\ todo[p] # << >>
    /\ LET k == Head(todo[p])
       IN  /\ cache' = [cache EXCEPT ![p][k] = Decode(disk[k], Header(Build[p], loaded[p]))]
           /\ alien' = [alien EXCEPT ![p] = @ \ {k}]
    /\ todo' = [todo EXCEPT ![p] = Tail(@)]
    /\ UNCHANGED <<user, directory, faults, pc, answered, seen, loaded, seeded, outcome>>

ReadSources(p) ==
    /\ pc[p] = "loading" /\ todo[p] = << >>
    /\ seeded' = [seeded EXCEPT ![p] = cache[p]]
    /\ seen' = [seen EXCEPT ![p].contents = project.contents]
    /\ pc' = [pc EXCEPT ![p] = "ready"]
    /\ UNCHANGED <<user, directory, faults, todo, answered, cache, loaded, outcome, alien>>

\* Every reported file is analyzed, each on its own; a panic names its file.
Pass(p) ==
    /\ pc[p] = "ready"
    /\ outcome' = [outcome EXCEPT ![p] =
          [f \in Speaking(seen[p]) |-> Analyzed(p, seen[p].contents[f])]]
    /\ pc' = [pc EXCEPT ![p] = "passed"]
    /\ UNCHANGED <<user, directory, faults, todo, answered, session, alien>>

\* Under `--watch`: a burst is absorbed, and cancels a pass under way.
Absorb(p) ==
    /\ pc[p] \in {"idle", "ready"}
    /\ seen[p] # project
    /\ seen' = [seen EXCEPT ![p] = project]
    /\ outcome' = [outcome EXCEPT ![p] = NoOutcome]
    /\ pc' = [pc EXCEPT ![p] = "ready"]
    /\ UNCHANGED <<user, directory, faults, todo, answered, cache, loaded, seeded, alien>>

\* What a process that is not running holds.
Gone(p) ==
    /\ pc' = [pc EXCEPT ![p] = "off"]
    /\ todo' = [todo EXCEPT ![p] = << >>]
    /\ answered' = [answered EXCEPT ![p] = Pending]
    /\ seen' = [seen EXCEPT ![p] = NoProject]
    /\ cache' = [cache EXCEPT ![p] = Nothing]
    /\ seeded' = [seeded EXCEPT ![p] = Nothing]
    /\ loaded' = [loaded EXCEPT ![p] = NoProject]
    /\ outcome' = [outcome EXCEPT ![p] = NoOutcome]
    /\ alien' = [alien EXCEPT ![p] = {}]

Exit(p) ==
    /\ pc[p] = "idle"
    /\ Gone(p)
    /\ UNCHANGED <<user, directory, faults>>

----------------------------------------------------------------------------
(* `persist`                                                                *)

\* No packs are written: the next burst is already waiting, or collecting the
\* entries panicked.
SkipPersist(p) ==
    /\ pc[p] = "passed"
    /\ pc' = [pc EXCEPT ![p] = "idle"]
    /\ UNCHANGED <<user, directory, faults, todo, answered, session, outcome, alien>>

\* A graceful exit persists the last picture once more before the process ends.
PersistAgain(p) ==
    /\ pc[p] = "idle"
    /\ pc' = [pc EXCEPT ![p] = "passed"]
    /\ UNCHANGED <<user, directory, faults, todo, answered, session, outcome, alien>>

\* Every `.tmp` in the directory goes, a live one of another process too.
PrepareDirectory(p) ==
    /\ pc[p] = "passed"
    /\ temporaries' = {}
    /\ pc' = [pc EXCEPT ![p] = "writing"]
    /\ todo' = [todo EXCEPT ![p] = PackOrder]
    /\ answered' = [answered EXCEPT ![p] = Pending]
    /\ UNCHANGED <<user, disk, faults, session, outcome, alien>>

Answer(p, write) ==
    /\ answered' = [answered EXCEPT ![p][Head(todo[p])] = write]
    /\ todo' = [todo EXCEPT ![p] = Tail(@)]

SkipWrite(p) ==
    /\ pc[p] = "writing" /\ todo[p] # << >>
    /\ Unchanged(p, Head(todo[p]))
    /\ Answer(p, "unchanged")
    /\ UNCHANGED <<user, directory, faults, pc, session, outcome, alien>>

\* The bytes go to a temporary beside the pack.
CreateTemporary(p) ==
    /\ pc[p] = "writing" /\ todo[p] # << >>
    /\ ~Unchanged(p, Head(todo[p]))
    /\ temporaries' = temporaries \cup {<<p, Head(todo[p])>>}
    /\ pc' = [pc EXCEPT ![p] = "renaming"]
    /\ UNCHANGED <<user, disk, faults, todo, answered, session, outcome, alien>>

\* The temporary replaces the pack, or was swept and there is none to rename.
Rename(p) ==
    LET k == Head(todo[p])
    IN  /\ pc[p] = "renaming"
        /\ IF <<p, k>> \in temporaries
           THEN /\ disk' = [disk EXCEPT ![k] = PackOf(p, k)]
                /\ temporaries' = temporaries \ {<<p, k>>}
                /\ Answer(p, "written")
                /\ alien' = [q \in Procs |->
                      IF q = p THEN alien[q] \ {k}
                      ELSE IF Running(q) THEN alien[q] \cup {k} ELSE {}]
           ELSE /\ Answer(p, "failed")
                /\ UNCHANGED <<directory, alien>>
        /\ pc' = [pc EXCEPT ![p] = "writing"]
        /\ UNCHANGED <<user, faults, session, outcome>>

AnsweredWith(p, write) == {k \in Packs : answered[p][k] = write}

\* Mutant: the settings the packs are now under are not noted.
SwapSnapshotOnly(p) ==
    /\ cache' = [cache EXCEPT ![p] = [k \in Packs |-> Collected(p, k)]]
    /\ UNCHANGED loaded

\* What is on disk is what the session compares with from here on.
SwapSnapshot(p) ==
    /\ cache' = [cache EXCEPT ![p] = [k \in Packs |-> Collected(p, k)]]
    /\ loaded' = [loaded EXCEPT ![p] = SettingsOf(seen[p])]

\* Whole or nothing: one failed pack keeps the old snapshot for all of them.
FinishPersist(p) ==
    /\ pc[p] = "writing" /\ todo[p] = << >>
    /\ IF AnsweredWith(p, "failed") = {}
       THEN SwapSnapshot(p) /\ UNCHANGED alien
       ELSE /\ UNCHANGED <<cache, loaded>>
            /\ alien' = [alien EXCEPT ![p] = @ \cup AnsweredWith(p, "written")]
    /\ answered' = [answered EXCEPT ![p] = Pending]
    /\ pc' = [pc EXCEPT ![p] = "idle"]
    /\ UNCHANGED <<user, directory, faults, todo, seen, seeded, outcome>>

----------------------------------------------------------------------------
(* What may go wrong                                                        *)

Fault(kind) ==
    /\ kind \in FaultKinds
    /\ faults < MaxFaults
    /\ faults' = faults + 1

\* The process is killed; a temporary it was writing stays behind.
Kill(p) ==
    /\ Fault("kill")
    /\ Running(p)
    /\ Gone(p)
    /\ UNCHANGED <<user, directory>>

\* The directory, or its `.gitignore`, cannot be written.
PrepareFails(p) ==
    /\ Fault("prepare")
    /\ pc[p] = "passed"
    /\ temporaries' \in {temporaries, {}}
    /\ pc' = [pc EXCEPT ![p] = "idle"]
    /\ UNCHANGED <<user, disk, todo, answered, session, outcome, alien>>

\* The temporary cannot be created, filled or renamed, and is dropped.
WriteFails(p) ==
    /\ Fault("write")
    /\ \/ pc[p] = "writing" /\ todo[p] # << >> /\ ~Unchanged(p, Head(todo[p]))
       \/ pc[p] = "renaming"
    /\ temporaries' = temporaries \ {<<p, Head(todo[p])>>}
    /\ Answer(p, "failed")
    /\ pc' = [pc EXCEPT ![p] = "writing"]
    /\ UNCHANGED <<user, disk, session, outcome, alien>>

\* A pack file is deleted: a process between two writes cannot know.
Delete(k) ==
    /\ Fault("delete")
    /\ disk[k] # NoPack
    /\ disk' = [disk EXCEPT ![k] = NoPack]
    /\ alien' = [p \in Procs |->
          IF pc[p] \in {"writing", "renaming"} THEN alien[p] \cup {k} ELSE alien[p]]
    /\ UNCHANGED <<user, temporaries, pc, todo, answered, session, outcome>>

\* A pack file is truncated or overwritten by anything but a pack.
Damage(k) ==
    /\ Fault("damage")
    /\ disk[k] \notin {NoPack, Damaged}
    /\ disk' = [disk EXCEPT ![k] = Damaged]
    /\ alien' = [p \in Procs |-> IF Running(p) THEN alien[p] \cup {k} ELSE {}]
    /\ UNCHANGED <<user, temporaries, pc, todo, answered, session, outcome>>

----------------------------------------------------------------------------

Init ==
    /\ project \in InitialProjects /\ edits = 0
    /\ disk = [k \in Packs |-> NoPack] /\ temporaries = {}
    /\ faults = 0
    /\ pc = [p \in Procs |-> "off"]
    /\ todo = [p \in Procs |-> << >>]
    /\ answered = [p \in Procs |-> Pending]
    /\ seen = [p \in Procs |-> NoProject]
    /\ cache = [p \in Procs |-> Nothing]
    /\ loaded = [p \in Procs |-> NoProject]
    /\ seeded = [p \in Procs |-> Nothing]
    /\ outcome = [p \in Procs |-> NoOutcome]
    /\ alien = [p \in Procs |-> {}]

Persist(p) ==
    \/ SkipPersist(p) \/ PersistAgain(p) \/ PrepareDirectory(p) \/ SkipWrite(p)
    \/ CreateTemporary(p) \/ Rename(p) \/ FinishPersist(p)

Process(p) ==
    \/ Start(p) \/ LoadPack(p) \/ ReadSources(p) \/ Pass(p) \/ Absorb(p) \/ Exit(p)
    \/ Persist(p)
    \/ Kill(p) \/ PrepareFails(p) \/ WriteFails(p)

Next ==
    \/ Edit
    \/ \E p \in Procs : Process(p)
    \/ \E k \in Packs : Delete(k) \/ Damage(k)

Spec == Init /\ [][Next]_vars

----------------------------------------------------------------------------
(* Properties                                                               *)

Points == {"off", "loading", "ready", "passed", "idle", "writing", "renaming"}

IsSnapshot(c) == c = [k \in Packs |-> c[k]]

TypeOK ==
    /\ project \in Project
    /\ edits \in 0..MaxEdits /\ faults \in 0..MaxFaults
    /\ disk = [k \in Packs |-> disk[k]]
    /\ temporaries \subseteq Procs \X Packs
    /\ pc \in [Procs -> Points]
    /\ todo \in [Procs -> Seq(Packs)]
    /\ answered \in [Procs -> [Packs -> {"pending", "unchanged", "written", "failed"}]]
    /\ seen \in [Procs -> Project \cup {NoProject}]
    /\ loaded \in [Procs -> Settings \cup {NoProject}]
    /\ alien \in [Procs -> SUBSET Packs]
    /\ cache = [p \in Procs |-> cache[p]] /\ seeded = [p \in Procs |-> seeded[p]]
    /\ outcome = [p \in Procs |-> outcome[p]]
    /\ \A p \in Procs :
          /\ IsSnapshot(cache[p]) /\ IsSnapshot(seeded[p])
          /\ Running(p) <=> seen[p] \in Project
          /\ Running(p) <=> loaded[p] \in Settings
          /\ pc[p] = "renaming" => todo[p] # << >>

\* A snapshot, or the entries of a pack, are under `header`: each was derived
\* by the build and under the settings the header names, and from the text or
\* the name it is filed under.
Honest(k, header, entries) ==
    \A key \in DOMAIN entries :
        LET e == entries[key]
            half(h) == Portion(Tree(header.build, key), header, h.answers)
        IN  /\ k \in TreePacks => e = Tree(header.build, key)
            /\ k = Diagnostics => e = [untyped |-> half(e.untyped), typed |-> half(e.typed)]
            /\ k = Signatures => e.tree = Tree(header.build, e.content)

\* A header is the only thing a later process checks before it believes a pack,
\* and the settings the only thing a later pass checks before it believes the
\* snapshot: both speak for every entry beneath them (pack.rs, `inputs`).
PacksAreHonest ==
    /\ \A k \in Packs : disk[k] \notin {NoPack, Damaged} =>
          Honest(k, disk[k].header, disk[k].entries)
    /\ \A p \in Procs, k \in Packs : Running(p) =>
          Honest(k, Header(Build[p], loaded[p]), cache[p][k])

\* What a pass reports is what an analysis from nothing would report, whatever
\* packs it started from, whoever wrote them, and however the project and the
\* settings moved since (`analyze_one`).
ServedIsFresh ==
    \A p \in Procs : outcome[p] # NoOutcome => outcome[p] = Expected(Build[p], seen[p])

\* Why the two hold: a process that is not running holds nothing, the trees its
\* database is given once and for all are its own build's, and a report is only
\* ever of the inputs the database still has.
CacheInvariant ==
    /\ PacksAreHonest
    /\ ServedIsFresh
    /\ \A p \in Procs :
          /\ ~Running(p) => cache[p] = Nothing
          /\ pc[p] \in {"off", "loading", "ready"} => outcome[p] = NoOutcome
          /\ \A k \in TreePacks \cap Packs : \A t \in DOMAIN seeded[p][k] :
                seeded[p][k][t] = Tree(Build[p], t)

\* A persist that succeeded leaves a snapshot that serves both halves of every
\* file that did not panic, so long as nothing is edited: no stale half is
\* carried forward from one persist to the next (`collect_entries`).
PersistedIsWarm ==
    [][\A p \in Procs :
          FinishPersist(p) /\ AnsweredWith(p, "failed") = {} =>
            \A f \in Speaking(seen[p]) :
              outcome[p][f] # Panicked => Lookup(p, seen[p].contents[f])' = "served"]_vars

\* What `write_when_changed` answers for is what a restart would load: the pack
\* decodes to these entries, unless someone else has changed it since this
\* process last read or wrote it, or an earlier persist wrote only part of it.
AnsweredPacksAreOnDisk ==
    \A p \in Procs : \A k \in Packs \ alien[p] :
        pc[p] \in {"writing", "renaming"} /\ answered[p][k] \in {"unchanged", "written"} =>
            Decode(disk[k], CurrentHeader(p)) = Collected(p, k)

\* The doc of `persist`: the equality check never compares against a snapshot
\* the disk does not hold.
UnchangedIsOnDisk ==
    \A p \in Procs : \A k \in AnsweredWith(p, "unchanged") :
        Decode(disk[k], CurrentHeader(p)) = Collected(p, k)

Cold == INSTANCE ColdCheck

\* The processes implement analysis from nothing.
ImplementsColdCheck == Cold!Spec

============================================================================
