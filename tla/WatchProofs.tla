---------------------------- MODULE WatchProofs ----------------------------
(***************************************************************************)
(* What the proof system checks of Watch, for every project, every layout  *)
(* and any number of edits: its types, its inductive invariant and what    *)
(* follows from it, and that the loop implements Picture.                  *)
(***************************************************************************)
EXTENDS WatchInvariants, TLAPS

USE SessionAssumption, WatchAssumption

(***************************************************************************)
(* Lemmas about the session's operators.                                   *)
(***************************************************************************)

\* A function from some of the files to contents is a set of mutations.
LEMMA MutationsIntro ==
    ASSUME NEW S \in SUBSET Files, NEW m \in [S -> Contents]
    PROVE  m \in Mutations
BY DEF Mutations

\* Applying mutations keeps the analyzed set a map from files to contents.
LEMMA ApplyType ==
    ASSUME NEW m \in Mutations, NEW s \in [Files -> Contents]
    PROVE  Apply(m, s) \in [Files -> Contents]
<1>1. PICK S \in SUBSET Files : m \in [S -> Contents]
  BY DEF Mutations
<1>2. \A f \in Files : f \in DOMAIN m => m[f] \in Contents
  BY <1>1
<1> QED
  BY <1>2 DEF Apply

\* Reading a burst keeps the VFS a map from files to contents.
LEMMA AbsorbedVfsType ==
    ASSUME NEW burst, NEW l, NEW d \in [Files -> OnDisk], NEW v \in [Files -> Contents]
    PROVE  AbsorbedVfs(burst, l, d, v) \in [Files -> Contents]
BY DEF AbsorbedVfs, ReadOrNone, Contents

LEMMA ReconcileType ==
    ASSUME NEW c \in SUBSET Files, NEW s, NEW v \in [Files -> Contents]
    PROVE  Reconcile(c, s, v) \in Mutations
<1> DEFINE S == {g \in c : v[g] # Absent \/ g \in Analyzed(s)}
<1>1. [f \in S |-> v[f]] \in [S -> Contents]
  OBVIOUS
<1> QED
  BY <1>1, MutationsIntro DEF Reconcile

LEMMA LoadedVfsType ==
    ASSUME NEW r, NEW d, NEW s, NEW v \in [Files -> Contents]
    PROVE  LoadedVfs(r, d, s, v) \in [Files -> Contents]
BY DEF LoadedVfs, ReadOrEmpty, Contents, SessionAssumption

LEMMA LoadMutationsType ==
    ASSUME NEW r, NEW d, NEW s
    PROVE  LoadMutations(r, d, s) \in Mutations
<1> DEFINE wanted == [f \in Files |-> IF f \in r THEN ReadOrEmpty(d[f]) ELSE Absent]
<1>1. wanted \in [Files -> Contents]
  BY DEF ReadOrEmpty, Contents
<1>2. Changes(s, wanted) \in SUBSET Files
  BY DEF Changes
<1> HIDE DEF wanted
<1>3. [f \in Changes(s, wanted) |-> wanted[f]] \in [Changes(s, wanted) -> Contents]
  BY <1>1, <1>2
<1>4. [f \in Changes(s, wanted) |-> wanted[f]] \in Mutations
  BY <1>2, <1>3, MutationsIntro
<1> QED
  BY <1>4 DEF LoadMutations, wanted

(***************************************************************************)
(* Lemmas about the loop's operators.                                      *)
(***************************************************************************)

\* What a pass reads is an analysis.
LEMMA CurrentType ==
    ASSUME NEW s \in [Files -> Contents], NEW l \in Layouts
    PROVE  [sources |-> s, settings |-> l.settings] \in Analysis
BY DEF WatchAssumption, Layout, Analysis

\* A registration records refusals of watchable paths only.
LEMMA RefusalsType ==
    ASSUME NEW l \in Layouts, NEW seen, NEW granted
    PROVE  /\ Refusals(l.roots, seen, granted) \subseteq Refusal
           /\ l.roots \subseteq Roots
           /\ Targets(l.roots) \subseteq Watchable
<1>1. l.roots \subseteq Roots
  BY DEF WatchAssumption, Layout
<1>2. Targets(l.roots) \subseteq Watchable
  BY <1>1 DEF Targets, Watchable
<1>3. ASSUME NEW p \in Targets(l.roots)
      PROVE  [path |-> p, existed |-> p \in seen] \in Refusal
  <2>1. \A e \in BOOLEAN : [path |-> p, existed |-> e] \in Refusal
    BY <1>2 DEF Refusal
  <2> DEFINE there == p \in seen
  <2>2. there \in BOOLEAN
    OBVIOUS
  <2> HIDE DEF there
  <2>3. [path |-> p, existed |-> there] \in Refusal
    BY <2>1, <2>2
  <2> QED
    BY <2>3 DEF there
<1>4. Refusals(l.roots, seen, granted) \subseteq Refusal
  BY <1>3, Zenon DEF Refusals
<1> QED
  BY <1>1, <1>2, <1>4

\* What is read from the front of the channel, and what is left of it.
LEMMA QueueType ==
    ASSUME NEW q \in Seq(Paths \cup {Shutdown}), q # <<>>
    PROVE  Head(q) \in Paths \cup {Shutdown} /\ Tail(q) \in Seq(Paths \cup {Shutdown})
OBVIOUS

LEMMA InitialPathsType == \A p \in InitialPaths : p \subseteq Watchable
BY DEF WatchAssumption

LEMMA NoMutations == <<>> \in Mutations
<1>1. <<>> \in [{} -> Contents]
  OBVIOUS
<1> QED
  BY <1>1, MutationsIntro

(***************************************************************************)
(* Type correctness.                                                       *)
(***************************************************************************)

LEMMA TypeInit == Init => TypeOK
<1> SUFFICES ASSUME Init PROVE TypeOK
  OBVIOUS
<1>1. NoFiles \in [Files -> Contents]
  BY DEF NoFiles, Contents
<1>2. vfs \in [Files -> Contents]
  BY <1>1, LoadedVfsType DEF Init
<1>3. Unreadable(Walk(layout, disk), disk) \subseteq Files
  BY DEF Unreadable, Walk, Project
<1>4. input \in Analysis /\ sources = vfs
  BY <1>2, CurrentType DEF Init, Current
<1>5. exists \subseteq Watchable
  BY InitialPathsType DEF Init
<1>6. disk \in [Files -> OnDisk]
  BY DEF Init, WatchAssumption
<1>7. edits \in 0 .. MaxEdits
  BY DEF Init, WatchAssumption
<1>8. next \in [existed : SUBSET Watchable, watched : SUBSET Watchable,
                refused : SUBSET Refusal, os : SUBSET Paths]
  BY DEF Init, NoWatch
<1>9. events \in Seq(Paths \cup {Shutdown})
  BY DEF Init
<1> QED
  BY <1>2, <1>3, <1>4, <1>5, <1>6, <1>7, <1>8, <1>9, NoMutations DEF Init, TypeOK, Pc

LEMMA TypeNext == TypeOK /\ [Next]_vars => TypeOK'
<1> SUFFICES ASSUME TypeOK, [Next]_vars PROVE TypeOK'
  OBVIOUS
<1> USE DEF TypeOK, project, watch, channel, loop, workerVars, errors, session, outputs,
            signals, history, Pc
<1>1. CASE \E f \in Files, d \in OnDisk : EditFile(f, d)
  BY <1>1 DEF EditFile, Editing, Notify, Paths
<1>2. CASE \E m \in Manifests, l \in Layouts : SaveManifest(m, l)
  BY <1>2 DEF SaveManifest, Editing, Notify, Paths, Watchable
<1>3. CASE \E r \in Roots : CreateRoot(r)
  BY <1>3 DEF CreateRoot, Editing, Watchable
<1>4. CASE Spawn
  <2>1. PICK over \in SUBSET (MayRefuse \cap exists) :
          LET granted == (Targets(layout.roots) \cap exists) \ over
          IN  /\ watched' = granted
              /\ refused' = Refusals(layout.roots, exists, granted)
    BY <1>4 DEF Spawn
  <2>2. watched' \subseteq Watchable /\ refused' \subseteq Refusal
    BY <2>1, RefusalsType
  <2>3. declared' \subseteq Roots
    BY <1>4, RefusalsType DEF Spawn
  <2>4. /\ appeared' = {} /\ pc' = "iterate"
        /\ UNCHANGED <<project, channel, next, loop, workerVars, errors, session, outputs,
                       signals, lost, edited>>
    BY <1>4 DEF Spawn
  <2> QED
    BY <2>2, <2>3, <2>4
<1>5. CASE Iterate
  BY <1>5, CurrentType DEF Iterate, ForgetAnalysisErrors, SpawnWorker, Current
<1>6. CASE Restart
  BY <1>6, CurrentType DEF Restart, SpawnWorker, Current
<1>7. CASE PollChange
  BY <1>7 DEF PollChange, TakeFirstChange
<1>8. CASE PollShutdown
  BY <1>8 DEF PollShutdown, TakeShutdown
<1>9. CASE PollTimeout
  BY <1>9 DEF PollTimeout
<1>10. CASE CheckFinished
  BY <1>10 DEF CheckFinished
<1>11. CASE DrainChange
  BY <1>11 DEF DrainChange
<1>12. CASE DrainEnd
  BY <1>12 DEF DrainEnd
<1>13. CASE DrainShutdown
  BY <1>13 DEF DrainShutdown, TakeShutdown, FlagAfterDrain
<1>14. CASE AbsorbFiles
  <2> DEFINE read == AbsorbedVfs(changed, layout, disk, vfs)
  <2>1. read \in [Files -> Contents]
    BY AbsorbedVfsType
  <2>2. Changes(vfs, read) \subseteq Files
    BY DEF Changes
  <2> HIDE DEF read
  <2>3. Reconcile(Changes(vfs, read), sources, read) \in Mutations
    BY <2>1, <2>2, ReconcileType
  <2>4. vfs' = read /\ mutations' = Reconcile(Changes(vfs, read), sources, read)
    BY <1>14 DEF AbsorbFiles, read
  <2> QED
    BY <1>14, <2>1, <2>3, <2>4 DEF AbsorbFiles
<1>15. CASE Rediscover
  BY <1>15 DEF Rediscover
<1>16. CASE Refresh
  BY <1>16 DEF Refresh
<1>17. CASE WalkProject
  BY <1>17 DEF WalkProject, Walk, Project
<1>18. CASE Load
  <2>1. vfs' \in [Files -> Contents] /\ mutations' \in Mutations
    BY <1>18, LoadedVfsType, LoadMutationsType DEF Load
  <2>2. unreadable' \subseteq Files
    BY <1>18 DEF Load, Unreadable
  <2> QED
    BY <1>18, <2>1, <2>2 DEF Load
<1>19. CASE ApplyMutations
  BY <1>19, ApplyType, NoMutations DEF ApplyMutations
<1>20. CASE Resynchronize
  BY <1>20 DEF Resynchronize, Resumed
<1>21. CASE BuildLooks
  BY <1>21 DEF BuildLooks, NoWatch
<1>22. CASE BuildRegisters
  <2>1. PICK over \in SUBSET (MayRefuse \cap exists) :
          LET granted == (Targets(layout.roots) \cap exists) \ over
          IN  next' = [next EXCEPT !.watched = granted,
                          !.refused = Refusals(layout.roots, next.existed, granted)]
    BY <1>22 DEF BuildRegisters
  <2> DEFINE granted == (Targets(layout.roots) \cap exists) \ over
  <2>2. granted \subseteq Watchable
    BY RefusalsType
  <2>3. Refusals(layout.roots, next.existed, granted) \subseteq Refusal
    BY RefusalsType
  <2>4. next' \in [existed : SUBSET Watchable, watched : SUBSET Watchable,
                   refused : SUBSET Refusal, os : SUBSET Paths]
    BY <2>1, <2>2, <2>3
  <2> QED
    BY <1>22, <2>4 DEF BuildRegisters
<1>23. CASE BuildFails
  BY <1>23 DEF BuildFails
<1>24. CASE Swap
  BY <1>24 DEF Swap, NoWatch, Layout, Resumed, Dropped, Elems, Paths
<1>25. CASE JoinOvertaken
  BY <1>25 DEF JoinOvertaken
<1>26. CASE JoinCompleted
  BY <1>26 DEF JoinCompleted, Complete, Refusal, Analysis
<1>27. CASE JoinPanicked
  BY <1>27 DEF JoinPanicked, Complete, Refusal
<1>28. CASE RenderFails
  BY <1>28 DEF RenderFails
<1>29. CASE PersistQuiet
  <2>1. persisted' \in Analysis
    BY <1>29, CurrentType DEF PersistQuiet, Persist, Current
  <2>2. /\ pc' \in Pc /\ inCycle' = FALSE
        /\ UNCHANGED <<project, watch, channel, changed, shutdown, found, reached, mutations,
                       workerVars, errors, session, shown, exit, signals, history>>
    BY <1>29 DEF PersistQuiet
  <2> HIDE DEF Pc
  <2> QED
    BY <2>1, <2>2
<1>30. CASE PersistSkipped
  <2>1. events' \in Seq(Paths \cup {Shutdown}) /\ changed' \subseteq Paths
    BY <1>30, QueueType DEF PersistSkipped, HandedBack
  <2>2. /\ UNCHANGED <<disk, manifest, exists, edits, watched, declared, refused, os, next>>
        /\ UNCHANGED <<shutdown, found, reached, mutations, worker, input, layout>>
        /\ UNCHANGED <<vfs, sources, unreadable, panicked, unwatchable, shown, persisted>>
        /\ UNCHANGED <<exit, signal, observed, lost, edited, appeared>>
        /\ pc' \in Pc /\ inCycle' \in BOOLEAN
    BY <1>30 DEF PersistSkipped
  <2> HIDE DEF Pc
  <2> QED
    BY <2>1, <2>2
<1>31. CASE PersistAtShutdown
  <2>1. persisted' \in Analysis
    BY <1>31, CurrentType DEF PersistAtShutdown, Persist, Current
  <2>2. events' \in Seq(Paths \cup {Shutdown}) /\ observed' = TRUE
    BY <1>31, QueueType DEF PersistAtShutdown, TakeShutdown
  <2>3. /\ pc' = "exit" /\ inCycle' = FALSE
        /\ UNCHANGED <<project, watch, os, changed, shutdown, found, reached, mutations,
                       workerVars, errors, session, shown, exit, signal, history>>
    BY <1>31 DEF PersistAtShutdown
  <2> QED
    BY <2>1, <2>2, <2>3
<1>32. CASE WaitChange
  BY <1>32 DEF WaitChange, TakeFirstChange
<1>33. CASE WaitShutdown
  BY <1>33 DEF WaitShutdown, TakeShutdown
<1>34. CASE GracefulExit
  <2>1. persisted' \in Analysis
    BY <1>34, CurrentType DEF GracefulExit, Persist, Current
  <2>2. /\ pc' = "exited" /\ exit' = "graceful"
        /\ UNCHANGED <<project, watch, channel, loop, workerVars, errors, session, shown,
                       signals, history>>
    BY <1>34 DEF GracefulExit
  <2> QED
    BY <2>1, <2>2
<1>35. CASE Worker
  BY <1>35 DEF Worker, WorkerFinishes, WorkerUnwinds, WorkerPanics, WorkerStep
<1>36. CASE FirstSignal
  BY <1>36 DEF FirstSignal
<1>37. CASE Kill
  BY <1>37 DEF Kill
<1>38. CASE \E p \in Paths : Deliver(p)
  BY <1>38 DEF Deliver
<1>39. CASE UNCHANGED vars
  BY <1>39 DEF vars
<1> QED
  BY <1>1, <1>2, <1>3, <1>4, <1>5, <1>6, <1>7, <1>8, <1>9, <1>10, <1>11, <1>12, <1>13, <1>14, <1>15, <1>16, <1>17, <1>18, <1>19, <1>20, <1>21, <1>22, <1>23, <1>24, <1>25, <1>26, <1>27, <1>28, <1>29, <1>30, <1>31, <1>32, <1>33, <1>34, <1>35, <1>36, <1>37, <1>38, <1>39 DEF Next, User, Loop

\* Every variable of the watch loop keeps its type, for any project.
THEOREM TypeCorrect == Spec => []TypeOK
  BY TypeInit, TypeNext, PTL DEF Spec

(***************************************************************************)
(* Lemmas about queues, roots and the two maps of the session.             *)
(***************************************************************************)

\* The mutations a burst is reconciled into are exactly the difference between
\* the analyzed set and what was read, when the two maps agreed before it.
LEMMA ReconciledIsRead ==
    ASSUME NEW s \in [Files -> Contents], NEW read \in [Files -> Contents]
    PROVE  Apply(Reconcile(Changes(s, read), s, read), s) = read
<1> DEFINE domain == {g \in Changes(s, read) : read[g] # Absent \/ g \in Analyzed(s)}
           m      == [f \in domain |-> read[f]]
<1>1. \A f \in Files : f \notin domain => s[f] = read[f]
  BY DEF Changes, Analyzed
<1>2. DOMAIN m = domain /\ \A f \in domain : m[f] = read[f]
  OBVIOUS
<1> HIDE DEF m
<1>3. \A f \in Files : Apply(m, s)[f] = read[f]
  BY <1>1, <1>2 DEF Apply
<1>4. Apply(m, s) = read
  BY <1>3 DEF Apply
<1> QED
  BY <1>4 DEF Reconcile, m

\* A reload's mutations leave the analyzed set holding what its VFS holds.
LEMMA LoadedIsWanted ==
    ASSUME NEW s \in [Files -> Contents], NEW r \in SUBSET Files, NEW d
    PROVE  /\ Apply(LoadMutations(r, d, s), s) = LoadedVfs(r, d, s, s)
           /\ Analyzed(LoadedVfs(r, d, s, s)) \subseteq r
<1> DEFINE wanted == [f \in Files |-> IF f \in r THEN ReadOrEmpty(d[f]) ELSE Absent]
           m      == [f \in Changes(s, wanted) |-> wanted[f]]
<1>1. \A f \in Files : LoadedVfs(r, d, s, s)[f] = wanted[f]
  BY DEF LoadedVfs, Analyzed
<1>2. DOMAIN m = Changes(s, wanted) /\ \A f \in Changes(s, wanted) : m[f] = wanted[f]
  OBVIOUS
<1>3. \A f \in Files : f \notin Changes(s, wanted) => s[f] = wanted[f]
  BY DEF Changes
<1>4. Analyzed(LoadedVfs(r, d, s, s)) \subseteq r
  BY <1>1 DEF Analyzed
<1>5. m = LoadMutations(r, d, s)
  BY DEF LoadMutations
<1> HIDE DEF m, wanted
<1>6. \A f \in Files : Apply(m, s)[f] = wanted[f]
  BY <1>2, <1>3 DEF Apply
<1>7. Apply(m, s) = LoadedVfs(r, d, s, s)
  BY <1>1, <1>6 DEF Apply, LoadedVfs
<1> QED
  BY <1>4, <1>5, <1>7

\* What a burst under the declared roots adds is under them and not excluded.
LEMMA BurstStaysInTheProject ==
    ASSUME NEW l, NEW d, NEW burst, NEW s \in [Files -> Contents],
           UnderRoots(burst, l.roots), Analyzed(s) \subseteq Project(l)
    PROVE  Analyzed(AbsorbedVfs(burst, l, d, s)) \subseteq Project(l)
BY DEF AbsorbedVfs, Analyzed, Project, UnderRoots

\* The elements of a queue, when something is appended or taken.
LEMMA ElemsOfQueue ==
    ASSUME NEW q \in Seq(Paths \cup {Shutdown})
    PROVE  /\ \A x : Elems(Append(q, x)) = Elems(q) \cup {x}
           /\ q # <<>> => Head(q) \in Elems(q) /\ Elems(Tail(q)) \subseteq Elems(q)
           /\ Elems(<<>>) = {}
<1>1. ASSUME NEW x PROVE Elems(Append(q, x)) = Elems(q) \cup {x}
  <2>1. DOMAIN Append(q, x) = DOMAIN q \cup {Len(q) + 1}
    OBVIOUS
  <2>2. \A i \in DOMAIN q : Append(q, x)[i] = q[i]
    OBVIOUS
  <2>3. Append(q, x)[Len(q) + 1] = x
    OBVIOUS
  <2>4. ASSUME NEW y \in Elems(Append(q, x)) PROVE y \in Elems(q) \cup {x}
    BY <2>1, <2>2, <2>3, Zenon DEF Elems
  <2>5. ASSUME NEW y \in Elems(q) PROVE y \in Elems(Append(q, x))
    BY <2>1, <2>2, Zenon DEF Elems
  <2>6. x \in Elems(Append(q, x))
    BY <2>1, <2>3, Zenon DEF Elems
  <2> QED
    BY <2>4, <2>5, <2>6, Zenon
<1>2. ASSUME q # <<>> PROVE Head(q) \in Elems(q) /\ Elems(Tail(q)) \subseteq Elems(q)
  <2>1. 1 \in DOMAIN q /\ Head(q) = q[1]
    BY <1>2
  <2>2. ASSUME NEW i \in DOMAIN Tail(q)
        PROVE  i + 1 \in DOMAIN q /\ Tail(q)[i] = q[i + 1]
    BY <1>2
  <2>3. Head(q) \in Elems(q)
    BY <2>1, Zenon DEF Elems
  <2>4. Elems(Tail(q)) \subseteq Elems(q)
    BY <2>2, Zenon DEF Elems
  <2> QED
    BY <2>3, <2>4
<1>3. Elems(<<>>) = {}
  BY DEF Elems
<1> QED
  BY <1>1, <1>2, <1>3

\* The roots among the paths a registration targets are the declared ones.
LEMMA TargetRoots ==
    ASSUME NEW l \in Layouts
    PROVE  Targets(l.roots) \cap Roots \subseteq l.roots
<1>1. Roots \cap Manifests = {}
  BY WatchAssumption DEF WatchAssumption
<1> QED
  BY <1>1 DEF Targets

\* An edit notifies only the watches that observe it.
LEMMA NotifiedUnderRoots ==
    ASSUME NEW p \in Paths, NEW observing, NEW roots, NEW queue,
           observing \cap Roots \subseteq roots, UnderRoots(queue, roots),
           Covers(observing, p)
    PROVE  UnderRoots(queue \cup {p}, roots)
<1>1. Files \cap Manifests = {}
  BY WatchAssumption DEF WatchAssumption
<1>2. p \in Files => RootOf[p] \in observing \cap Roots
  BY <1>1, SessionAssumption DEF Covers, SessionAssumption
<1> QED
  BY <1>2 DEF UnderRoots

\* A queue is its first element and the rest.
LEMMA ElemsTaken ==
    ASSUME NEW q \in Seq(Paths \cup {Shutdown}), q # <<>>
    PROVE  Elems(q) = {Head(q)} \cup Elems(Tail(q))
<1>1. ASSUME NEW i \in DOMAIN q PROVE q[i] \in {Head(q)} \cup Elems(Tail(q))
  <2>1. CASE i = 1
    BY <2>1
  <2>2. CASE i # 1
    <3>1. i - 1 \in DOMAIN Tail(q) /\ Tail(q)[i - 1] = q[i]
      BY <2>2
    <3> QED
      BY <3>1 DEF Elems
  <2> QED
    BY <2>1, <2>2
<1> QED
  BY <1>1, ElemsOfQueue DEF Elems

\* What a reload gets wrong of a file is what moved since the walk.
LEMMA LoadReads ==
    ASSUME TypeOK, LoopInvariant, Load
    PROVE  \A f \in Files : vfs'[f] \notin Truth(f)' =>
               MovedSinceTheWalk(f) /\ disk[f] # Denied /\ (f \in reached => disk[f] = Absent)
<1>1. /\ pc = "load" /\ vfs' = LoadedVfs(reached, disk, sources, vfs)
      /\ UNCHANGED <<disk, layout>>
  BY DEF Load, project
<1>2. vfs = sources /\ reached \subseteq Project(layout)
  BY <1>1 DEF LoopInvariant, MapsAgree, SetIsTheProjects
<1>3. \A f \in Files : vfs'[f] = IF f \in reached THEN ReadOrEmpty(disk[f]) ELSE Absent
  BY <1>1, <1>2 DEF LoadedVfs, Analyzed
<1> SUFFICES ASSUME NEW f \in Files, vfs'[f] \notin Truth(f)'
             PROVE  /\ MovedSinceTheWalk(f) /\ disk[f] # Denied
                    /\ f \in reached => disk[f] = Absent
  OBVIOUS
<1>4. disk[f] \in OnDisk
  BY DEF TypeOK
<1> QED
  BY <1>1, <1>2, <1>3, <1>4, SessionAssumption
     DEF Truth, MovedSinceTheWalk, ReadOrEmpty, OnDisk, Contents, SessionAssumption

\* A registration that records what it was not granted accounts for all of it.
LEMMA RefusalsCover ==
    ASSUME NEW roots, NEW existed, NEW granted
    PROVE  AccountedFor(roots, granted, Refusals(roots, existed, granted))
<1> SUFFICES ASSUME NEW p \in Targets(roots) \ granted
             PROVE  \E r \in Refusals(roots, existed, granted) : r.path = p
  BY DEF AccountedFor
<1>1. [path |-> p, existed |-> p \in existed] \in Refusals(roots, existed, granted)
  BY DEF Refusals
<1> QED
  BY <1>1

\* What is refused although it was there is one of those that may be.
LEMMA RefusalsRead ==
    ASSUME NEW roots, NEW existed, existed \subseteq exists,
           NEW over \in SUBSET (MayRefuse \cap exists)
    PROVE  \A r \in Refusals(roots, existed, (Targets(roots) \cap exists) \ over) :
               IF r.existed THEN r.path \in MayRefuse \cap existed ELSE r.path \notin existed
<1> SUFFICES ASSUME NEW r \in Refusals(roots, existed, (Targets(roots) \cap exists) \ over)
             PROVE  IF r.existed THEN r.path \in MayRefuse \cap existed
                    ELSE r.path \notin existed
  OBVIOUS
<1>1. PICK p \in Targets(roots) \ ((Targets(roots) \cap exists) \ over) :
          r = [path |-> p, existed |-> p \in existed]
  BY DEF Refusals
<1>2. r.path = p /\ r.existed = (p \in existed)
  BY <1>1
<1>3. p \in existed => p \in MayRefuse
  OBVIOUS
<1> QED
  BY <1>2, <1>3

(***************************************************************************)
(* The first state.                                                        *)
(***************************************************************************)

LEMMA LoopInit == Init => LoopInvariant
<1> SUFFICES ASSUME Init PROVE LoopInvariant
  OBVIOUS
<1> USE DEF Init
<1>1. NoFiles \in [Files -> Contents] /\ Analyzed(NoFiles) = {}
  BY DEF NoFiles, Contents, Analyzed
<1>2. Walk(layout, disk) \in SUBSET Files /\ Walk(layout, disk) \subseteq Project(layout)
  BY DEF Walk, Project
<1>3. Analyzed(sources) \subseteq Project(layout)
  BY <1>1, <1>2, LoadedIsWanted
<1>4. FlowIsSound /\ PassIsOfTheSession /\ RequestIsCarried /\ MapsAgree
  BY DEF FlowIsSound, InsideAPass, OutsideAPass, BurstInHand, PassIsOfTheSession,
         RequestIsCarried, MapsAgree
<1>5. QueuesFollowTheWatch
  BY DEF QueuesFollowTheWatch, WatchIsInPlace, UnderRoots, Elems
<1>6. RefusalsAreKept
  BY DEF RefusalsAreKept
<1>7. EditsAreRemembered
  <2>1. ASSUME NEW f \in Files PROVE ~Stale(f)
    <3>1. vfs[f] = IF f \in Walk(layout, disk) THEN ReadOrEmpty(disk[f]) ELSE Absent
      BY DEF LoadedVfs, NoFiles
    <3>2. disk[f] \in OnDisk
      BY TypeInit DEF TypeOK
    <3> QED
      BY <3>1, <3>2, SessionAssumption
         DEF Stale, Truth, Walk, ReadOrEmpty, OnDisk, Contents, SessionAssumption
  <2> QED
    BY <2>1 DEF EditsAreRemembered, NoSilentStaleness, NoSilentDrift
<1>8. ReloadsAreWhole
  BY DEF ReloadsAreWhole, Reloaded
<1> QED
  BY <1>3, <1>4, <1>5, <1>6, <1>7, <1>8 DEF LoopInvariant, SetIsTheProjects

(***************************************************************************)
(* Every step preserves every part.                                        *)
(***************************************************************************)

\* A pass is entered, left and restarted only where the code does.
LEMMA FlowNext ==
    ASSUME TypeOK, LoopInvariant, [Next]_vars
    PROVE  FlowIsSound'
<1> USE DEF project, watch, channel, loop, workerVars, errors, session, outputs, signals,
            history, LoopInvariant, FlowIsSound, InsideAPass, OutsideAPass, BurstInHand
<1>1. CASE Spawn
  BY <1>1 DEF Spawn
<1>2. CASE Iterate
  BY <1>2 DEF Iterate, ForgetAnalysisErrors, SpawnWorker
<1>3. CASE Restart
  BY <1>3 DEF Restart, SpawnWorker
<1>4. CASE PollChange
  BY <1>4 DEF PollChange, TakeFirstChange
<1>5. CASE PollShutdown
  BY <1>5 DEF PollShutdown, TakeShutdown
<1>6. CASE PollTimeout
  BY <1>6 DEF PollTimeout
<1>7. CASE CheckFinished
  BY <1>7 DEF CheckFinished
<1>8. CASE DrainChange
  BY <1>8 DEF DrainChange
<1>9. CASE DrainEnd
  BY <1>9 DEF DrainEnd
<1>10. CASE DrainShutdown
  BY <1>10 DEF DrainShutdown, TakeShutdown, FlagAfterDrain
<1>11. CASE AbsorbFiles
  BY <1>11 DEF AbsorbFiles
<1>12. CASE Rediscover
  BY <1>12 DEF Rediscover
<1>13. CASE Refresh
  BY <1>13 DEF Refresh
<1>14. CASE WalkProject
  BY <1>14 DEF WalkProject
<1>15. CASE Load
  BY <1>15 DEF Load
<1>16. CASE ApplyMutations
  BY <1>16 DEF ApplyMutations
<1>17. CASE Resynchronize
  BY <1>17 DEF Resynchronize, Resumed
<1>18. CASE BuildLooks
  BY <1>18 DEF BuildLooks
<1>19. CASE BuildRegisters
  BY <1>19 DEF BuildRegisters
<1>20. CASE BuildFails
  BY <1>20 DEF BuildFails
<1>21. CASE Swap
  BY <1>21 DEF Swap, Resumed
<1>22. CASE JoinOvertaken
  BY <1>22 DEF JoinOvertaken
<1>23. CASE JoinCompleted
  BY <1>23 DEF JoinCompleted, Complete
<1>24. CASE JoinPanicked
  BY <1>24 DEF JoinPanicked, Complete
<1>25. CASE RenderFails
  BY <1>25 DEF RenderFails
<1>26. CASE PersistQuiet
  BY <1>26 DEF PersistQuiet, Persist
<1>27. CASE PersistSkipped
  BY <1>27 DEF PersistSkipped, HandedBack
<1>28. CASE PersistAtShutdown
  BY <1>28 DEF PersistAtShutdown, TakeShutdown, Persist
<1>29. CASE WaitChange
  BY <1>29 DEF WaitChange, TakeFirstChange
<1>30. CASE WaitShutdown
  BY <1>30 DEF WaitShutdown, TakeShutdown
<1>31. CASE GracefulExit
  BY <1>31 DEF GracefulExit, Persist
<1>32. CASE FirstSignal
  BY <1>32 DEF FirstSignal
<1>33. CASE Kill
  BY <1>33 DEF Kill
<1>34. CASE User
  BY <1>34 DEF User, EditFile, SaveManifest, CreateRoot, Editing, Notify
<1>35. CASE Worker
  BY <1>35 DEF Worker, WorkerFinishes, WorkerUnwinds, WorkerPanics, WorkerStep
<1>36. CASE \E p \in Paths : Deliver(p)
  BY <1>36 DEF Deliver
<1>37. CASE UNCHANGED vars
  BY <1>37 DEF vars
<1> QED
  BY <1>1, <1>2, <1>3, <1>4, <1>5, <1>6, <1>7, <1>8, <1>9, <1>10, <1>11, <1>12,
     <1>13, <1>14, <1>15, <1>16, <1>17, <1>18, <1>19, <1>20, <1>21, <1>22, <1>23,
     <1>24, <1>25, <1>26, <1>27, <1>28, <1>29, <1>30, <1>31, <1>32, <1>33, <1>34,
     <1>35, <1>36, <1>37
     DEF Next, Loop

\* What a pass reads, and what its picture shows, is the session's.
LEMMA PassNext ==
    ASSUME TypeOK, LoopInvariant, [Next]_vars
    PROVE  PassIsOfTheSession'
<1> USE DEF project, watch, channel, loop, workerVars, errors, session, outputs, signals,
            history, LoopInvariant, FlowIsSound, InsideAPass, OutsideAPass, BurstInHand,
            PassIsOfTheSession,
            PictureStands, Current
<1>1. CASE Spawn
  BY <1>1 DEF Spawn
<1>2. CASE Iterate
  BY <1>2 DEF Iterate, ForgetAnalysisErrors, SpawnWorker
<1>3. CASE Restart
  BY <1>3 DEF Restart, SpawnWorker
<1>4. CASE PollChange
  BY <1>4 DEF PollChange, TakeFirstChange
<1>5. CASE PollShutdown
  BY <1>5 DEF PollShutdown, TakeShutdown
<1>6. CASE PollTimeout
  BY <1>6 DEF PollTimeout
<1>7. CASE CheckFinished
  BY <1>7 DEF CheckFinished
<1>8. CASE DrainChange
  BY <1>8 DEF DrainChange
<1>9. CASE DrainEnd
  BY <1>9 DEF DrainEnd
<1>10. CASE DrainShutdown
  BY <1>10 DEF DrainShutdown, TakeShutdown, FlagAfterDrain
<1>11. CASE AbsorbFiles
  BY <1>11 DEF AbsorbFiles
<1>12. CASE Rediscover
  BY <1>12 DEF Rediscover
<1>13. CASE Refresh
  BY <1>13 DEF Refresh
<1>14. CASE WalkProject
  BY <1>14 DEF WalkProject
<1>15. CASE Load
  BY <1>15 DEF Load
<1>16. CASE ApplyMutations
  BY <1>16 DEF ApplyMutations
<1>17. CASE Resynchronize
  BY <1>17 DEF Resynchronize, Resumed
<1>18. CASE BuildLooks
  BY <1>18 DEF BuildLooks
<1>19. CASE BuildRegisters
  BY <1>19 DEF BuildRegisters
<1>20. CASE BuildFails
  BY <1>20 DEF BuildFails
<1>21. CASE Swap
  BY <1>21 DEF Swap, Resumed
<1>22. CASE JoinOvertaken
  BY <1>22 DEF JoinOvertaken
<1>23. CASE JoinCompleted
  BY <1>23 DEF JoinCompleted, Complete
<1>24. CASE JoinPanicked
  BY <1>24 DEF JoinPanicked, Complete
<1>25. CASE RenderFails
  BY <1>25 DEF RenderFails
<1>26. CASE PersistQuiet
  BY <1>26 DEF PersistQuiet, Persist
<1>27. CASE PersistSkipped
  BY <1>27 DEF PersistSkipped, HandedBack
<1>28. CASE PersistAtShutdown
  BY <1>28 DEF PersistAtShutdown, TakeShutdown, Persist
<1>29. CASE WaitChange
  BY <1>29 DEF WaitChange, TakeFirstChange
<1>30. CASE WaitShutdown
  BY <1>30 DEF WaitShutdown, TakeShutdown
<1>31. CASE GracefulExit
  BY <1>31 DEF GracefulExit, Persist
<1>32. CASE FirstSignal
  BY <1>32 DEF FirstSignal
<1>33. CASE Kill
  BY <1>33 DEF Kill
<1>34. CASE User
  BY <1>34 DEF User, EditFile, SaveManifest, CreateRoot, Editing, Notify
<1>35. CASE Worker
  BY <1>35 DEF Worker, WorkerFinishes, WorkerUnwinds, WorkerPanics, WorkerStep
<1>36. CASE \E p \in Paths : Deliver(p)
  BY <1>36 DEF Deliver
<1>37. CASE UNCHANGED vars
  BY <1>37 DEF vars
<1> QED
  BY <1>1, <1>2, <1>3, <1>4, <1>5, <1>6, <1>7, <1>8, <1>9, <1>10, <1>11, <1>12,
     <1>13, <1>14, <1>15, <1>16, <1>17, <1>18, <1>19, <1>20, <1>21, <1>22, <1>23,
     <1>24, <1>25, <1>26, <1>27, <1>28, <1>29, <1>30, <1>31, <1>32, <1>33, <1>34,
     <1>35, <1>36, <1>37
     DEF Next, Loop

\* A shutdown that was read is carried to the exit.
LEMMA RequestNext ==
    ASSUME TypeOK, LoopInvariant, [Next]_vars
    PROVE  RequestIsCarried'
<1> USE DEF project, watch, channel, loop, workerVars, errors, session, outputs, signals,
            history, LoopInvariant, FlowIsSound, InsideAPass, OutsideAPass, BurstInHand,
            RequestIsCarried
<1>1. CASE Spawn
  BY <1>1 DEF Spawn
<1>2. CASE Iterate
  BY <1>2 DEF Iterate, ForgetAnalysisErrors, SpawnWorker
<1>3. CASE Restart
  BY <1>3 DEF Restart, SpawnWorker
<1>4. CASE PollChange
  BY <1>4 DEF PollChange, TakeFirstChange
<1>5. CASE PollShutdown
  BY <1>5 DEF PollShutdown, TakeShutdown
<1>6. CASE PollTimeout
  BY <1>6 DEF PollTimeout
<1>7. CASE CheckFinished
  BY <1>7 DEF CheckFinished
<1>8. CASE DrainChange
  BY <1>8 DEF DrainChange
<1>9. CASE DrainEnd
  BY <1>9 DEF DrainEnd
<1>10. CASE DrainShutdown
  BY <1>10 DEF DrainShutdown, TakeShutdown, FlagAfterDrain
<1>11. CASE AbsorbFiles
  BY <1>11 DEF AbsorbFiles
<1>12. CASE Rediscover
  BY <1>12 DEF Rediscover
<1>13. CASE Refresh
  BY <1>13 DEF Refresh
<1>14. CASE WalkProject
  BY <1>14 DEF WalkProject
<1>15. CASE Load
  BY <1>15 DEF Load
<1>16. CASE ApplyMutations
  BY <1>16 DEF ApplyMutations
<1>17. CASE Resynchronize
  BY <1>17 DEF Resynchronize, Resumed
<1>18. CASE BuildLooks
  BY <1>18 DEF BuildLooks
<1>19. CASE BuildRegisters
  BY <1>19 DEF BuildRegisters
<1>20. CASE BuildFails
  BY <1>20 DEF BuildFails
<1>21. CASE Swap
  BY <1>21 DEF Swap, Resumed
<1>22. CASE JoinOvertaken
  BY <1>22 DEF JoinOvertaken
<1>23. CASE JoinCompleted
  BY <1>23 DEF JoinCompleted, Complete
<1>24. CASE JoinPanicked
  BY <1>24 DEF JoinPanicked, Complete
<1>25. CASE RenderFails
  BY <1>25 DEF RenderFails
<1>26. CASE PersistQuiet
  BY <1>26 DEF PersistQuiet, Persist
<1>27. CASE PersistSkipped
  BY <1>27 DEF PersistSkipped, HandedBack
<1>28. CASE PersistAtShutdown
  BY <1>28 DEF PersistAtShutdown, TakeShutdown, Persist
<1>29. CASE WaitChange
  BY <1>29 DEF WaitChange, TakeFirstChange
<1>30. CASE WaitShutdown
  BY <1>30 DEF WaitShutdown, TakeShutdown
<1>31. CASE GracefulExit
  BY <1>31 DEF GracefulExit, Persist
<1>32. CASE FirstSignal
  BY <1>32 DEF FirstSignal
<1>33. CASE Kill
  BY <1>33 DEF Kill
<1>34. CASE User
  BY <1>34 DEF User, EditFile, SaveManifest, CreateRoot, Editing, Notify
<1>35. CASE Worker
  BY <1>35 DEF Worker, WorkerFinishes, WorkerUnwinds, WorkerPanics, WorkerStep
<1>36. CASE \E p \in Paths : Deliver(p)
  BY <1>36 DEF Deliver
<1>37. CASE UNCHANGED vars
  BY <1>37 DEF vars
<1> QED
  BY <1>1, <1>2, <1>3, <1>4, <1>5, <1>6, <1>7, <1>8, <1>9, <1>10, <1>11, <1>12,
     <1>13, <1>14, <1>15, <1>16, <1>17, <1>18, <1>19, <1>20, <1>21, <1>22, <1>23,
     <1>24, <1>25, <1>26, <1>27, <1>28, <1>29, <1>30, <1>31, <1>32, <1>33, <1>34,
     <1>35, <1>36, <1>37
     DEF Next, Loop

\* The mutations in hand take the analyzed set to the VFS.
LEMMA MapsNext ==
    ASSUME TypeOK, LoopInvariant, [Next]_vars
    PROVE  MapsAgree'
<1> USE DEF project, watch, channel, loop, workerVars, errors, session, outputs, signals,
            history, LoopInvariant, FlowIsSound, InsideAPass, OutsideAPass, BurstInHand,
            MapsAgree
<1>1. CASE Spawn
  BY <1>1 DEF Spawn
<1>2. CASE Iterate
  BY <1>2 DEF Iterate, ForgetAnalysisErrors, SpawnWorker
<1>3. CASE Restart
  BY <1>3 DEF Restart, SpawnWorker
<1>4. CASE PollChange
  BY <1>4 DEF PollChange, TakeFirstChange
<1>5. CASE PollShutdown
  BY <1>5 DEF PollShutdown, TakeShutdown
<1>6. CASE PollTimeout
  BY <1>6 DEF PollTimeout
<1>7. CASE CheckFinished
  BY <1>7 DEF CheckFinished
<1>8. CASE DrainChange
  BY <1>8 DEF DrainChange
<1>9. CASE DrainEnd
  BY <1>9 DEF DrainEnd
<1>10. CASE DrainShutdown
  BY <1>10 DEF DrainShutdown, TakeShutdown, FlagAfterDrain
<1>11. CASE AbsorbFiles
  <2> DEFINE read == AbsorbedVfs(changed, layout, disk, vfs)
  <2>1. vfs = sources /\ sources \in [Files -> Contents] /\ sources' = sources
    BY <1>11 DEF AbsorbFiles, MapsAgree, TypeOK
  <2>2. read \in [Files -> Contents]
    BY AbsorbedVfsType DEF TypeOK
  <2>3. /\ vfs' = read /\ pc' = "apply"
        /\ mutations' = Reconcile(Changes(vfs, read), sources, read)
    BY <1>11 DEF AbsorbFiles
  <2> HIDE DEF read
  <2>4. Apply(mutations', sources') = vfs'
    BY <2>1, <2>2, <2>3, ReconciledIsRead
  <2> QED
    BY <2>3, <2>4 DEF MapsAgree
<1>12. CASE Rediscover
  BY <1>12 DEF Rediscover
<1>13. CASE Refresh
  BY <1>13 DEF Refresh
<1>14. CASE WalkProject
  BY <1>14 DEF WalkProject
<1>15. CASE Load
  <2>1. vfs = sources /\ sources \in [Files -> Contents] /\ reached \in SUBSET Files
    BY <1>15 DEF Load, MapsAgree, TypeOK
  <2>2. Apply(mutations', sources') = vfs'
    BY <1>15, <2>1, LoadedIsWanted DEF Load
  <2> QED
    BY <1>15, <2>2 DEF Load, MapsAgree
<1>16. CASE ApplyMutations
  BY <1>16 DEF ApplyMutations
<1>17. CASE Resynchronize
  BY <1>17 DEF Resynchronize, Resumed
<1>18. CASE BuildLooks
  BY <1>18 DEF BuildLooks
<1>19. CASE BuildRegisters
  BY <1>19 DEF BuildRegisters
<1>20. CASE BuildFails
  BY <1>20 DEF BuildFails
<1>21. CASE Swap
  BY <1>21 DEF Swap, Resumed
<1>22. CASE JoinOvertaken
  BY <1>22 DEF JoinOvertaken
<1>23. CASE JoinCompleted
  BY <1>23 DEF JoinCompleted, Complete
<1>24. CASE JoinPanicked
  BY <1>24 DEF JoinPanicked, Complete
<1>25. CASE RenderFails
  BY <1>25 DEF RenderFails
<1>26. CASE PersistQuiet
  BY <1>26 DEF PersistQuiet, Persist
<1>27. CASE PersistSkipped
  BY <1>27 DEF PersistSkipped, HandedBack
<1>28. CASE PersistAtShutdown
  BY <1>28 DEF PersistAtShutdown, TakeShutdown, Persist
<1>29. CASE WaitChange
  BY <1>29 DEF WaitChange, TakeFirstChange
<1>30. CASE WaitShutdown
  BY <1>30 DEF WaitShutdown, TakeShutdown
<1>31. CASE GracefulExit
  BY <1>31 DEF GracefulExit, Persist
<1>32. CASE FirstSignal
  BY <1>32 DEF FirstSignal
<1>33. CASE Kill
  BY <1>33 DEF Kill
<1>34. CASE User
  BY <1>34 DEF User, EditFile, SaveManifest, CreateRoot, Editing, Notify
<1>35. CASE Worker
  BY <1>35 DEF Worker, WorkerFinishes, WorkerUnwinds, WorkerPanics, WorkerStep
<1>36. CASE \E p \in Paths : Deliver(p)
  BY <1>36 DEF Deliver
<1>37. CASE UNCHANGED vars
  BY <1>37 DEF vars
<1> QED
  BY <1>1, <1>2, <1>3, <1>4, <1>5, <1>6, <1>7, <1>8, <1>9, <1>10, <1>11, <1>12,
     <1>13, <1>14, <1>15, <1>16, <1>17, <1>18, <1>19, <1>20, <1>21, <1>22, <1>23,
     <1>24, <1>25, <1>26, <1>27, <1>28, <1>29, <1>30, <1>31, <1>32, <1>33, <1>34,
     <1>35, <1>36, <1>37
     DEF Next, Loop

\* The queues hold files under the roots their watch was built over.
LEMMA QueuesNext ==
    ASSUME TypeOK, LoopInvariant, [Next]_vars
    PROVE  QueuesFollowTheWatch'
<1> USE DEF project, watch, channel, loop, workerVars, errors, session, outputs, signals,
            history, LoopInvariant, FlowIsSound, InsideAPass, OutsideAPass, BurstInHand,
            QueuesFollowTheWatch, WatchIsInPlace, UnderRoots
<1>1. CASE Spawn
  <2>1. Elems(events) = {} /\ os = {}
    BY <1>1, ElemsOfQueue DEF Spawn, TypeOK
  <2>2. watched' \subseteq Targets(layout.roots)
    BY <1>1 DEF Spawn
  <2>3. watched' \cap Roots \subseteq layout.roots
    BY <2>2, TargetRoots DEF TypeOK
  <2>4. declared' = layout'.roots
    BY <1>1 DEF Spawn
  <2> QED
    BY <1>1, <2>1, <2>3, <2>4 DEF Spawn
<1>2. CASE Iterate
  BY <1>2 DEF Iterate, ForgetAnalysisErrors, SpawnWorker
<1>3. CASE Restart
  BY <1>3 DEF Restart, SpawnWorker
<1>4. CASE PollChange
  <2>1. events # <<>> /\ events' = Tail(events)
    BY <1>4 DEF PollChange, TakeFirstChange
  <2>2. Head(events) \in Elems(events) /\ Elems(events') \subseteq Elems(events)
    BY <2>1, ElemsOfQueue DEF TypeOK
  <2> QED
    BY <1>4, <2>2 DEF PollChange, TakeFirstChange
<1>5. CASE PollShutdown
  <2>1. events # <<>> /\ events' = Tail(events)
    BY <1>5 DEF PollShutdown, TakeShutdown
  <2>2. Head(events) \in Elems(events) /\ Elems(events') \subseteq Elems(events)
    BY <2>1, ElemsOfQueue DEF TypeOK
  <2> QED
    BY <1>5, <2>2 DEF PollShutdown, TakeShutdown
<1>6. CASE PollTimeout
  BY <1>6 DEF PollTimeout
<1>7. CASE CheckFinished
  BY <1>7 DEF CheckFinished
<1>8. CASE DrainChange
  <2>1. events # <<>> /\ events' = Tail(events)
    BY <1>8 DEF DrainChange
  <2>2. Head(events) \in Elems(events) /\ Elems(events') \subseteq Elems(events)
    BY <2>1, ElemsOfQueue DEF TypeOK
  <2> QED
    BY <1>8, <2>2 DEF DrainChange
<1>9. CASE DrainEnd
  BY <1>9 DEF DrainEnd
<1>10. CASE DrainShutdown
  <2>1. events # <<>> /\ events' = Tail(events)
    BY <1>10 DEF DrainShutdown, TakeShutdown, FlagAfterDrain
  <2>2. Head(events) \in Elems(events) /\ Elems(events') \subseteq Elems(events)
    BY <2>1, ElemsOfQueue DEF TypeOK
  <2> QED
    BY <1>10, <2>2 DEF DrainShutdown, TakeShutdown, FlagAfterDrain
<1>11. CASE AbsorbFiles
  BY <1>11 DEF AbsorbFiles
<1>12. CASE Rediscover
  BY <1>12 DEF Rediscover
<1>13. CASE Refresh
  BY <1>13 DEF Refresh
<1>14. CASE WalkProject
  BY <1>14 DEF WalkProject
<1>15. CASE Load
  BY <1>15 DEF Load
<1>16. CASE ApplyMutations
  BY <1>16 DEF ApplyMutations
<1>17. CASE Resynchronize
  BY <1>17 DEF Resynchronize, Resumed, MustRespawn
<1>18. CASE BuildLooks
  BY <1>18 DEF BuildLooks, NoWatch
<1>19. CASE BuildRegisters
  <2>1. next'.os = {} /\ next'.watched \subseteq Targets(layout.roots)
    BY <1>19 DEF BuildRegisters, TypeOK
  <2>2. next'.watched \cap Roots \subseteq layout.roots
    BY <2>1, TargetRoots DEF TypeOK
  <2> QED
    BY <1>19, <2>1, <2>2 DEF BuildRegisters
<1>20. CASE BuildFails
  BY <1>20 DEF BuildFails
<1>21. CASE Swap
  <2>1. Elems(events') = {}
    BY <1>21, ElemsOfQueue DEF Swap, TypeOK
  <2> QED
    BY <1>21, <2>1 DEF Swap, Resumed
<1>22. CASE JoinOvertaken
  BY <1>22 DEF JoinOvertaken
<1>23. CASE JoinCompleted
  BY <1>23 DEF JoinCompleted, Complete
<1>24. CASE JoinPanicked
  BY <1>24 DEF JoinPanicked, Complete
<1>25. CASE RenderFails
  BY <1>25 DEF RenderFails
<1>26. CASE PersistQuiet
  BY <1>26 DEF PersistQuiet, Persist
<1>27. CASE PersistSkipped
  <2>1. events # <<>> /\ events' = Tail(events)
    BY <1>27 DEF PersistSkipped, HandedBack
  <2>2. Head(events) \in Elems(events) /\ Elems(events') \subseteq Elems(events)
    BY <2>1, ElemsOfQueue DEF TypeOK
  <2> QED
    BY <1>27, <2>2 DEF PersistSkipped, HandedBack
<1>28. CASE PersistAtShutdown
  <2>1. events # <<>> /\ events' = Tail(events)
    BY <1>28 DEF PersistAtShutdown, TakeShutdown, Persist
  <2>2. Head(events) \in Elems(events) /\ Elems(events') \subseteq Elems(events)
    BY <2>1, ElemsOfQueue DEF TypeOK
  <2> QED
    BY <1>28, <2>2 DEF PersistAtShutdown, TakeShutdown, Persist
<1>29. CASE WaitChange
  <2>1. events # <<>> /\ events' = Tail(events)
    BY <1>29 DEF WaitChange, TakeFirstChange
  <2>2. Head(events) \in Elems(events) /\ Elems(events') \subseteq Elems(events)
    BY <2>1, ElemsOfQueue DEF TypeOK
  <2> QED
    BY <1>29, <2>2 DEF WaitChange, TakeFirstChange
<1>30. CASE WaitShutdown
  <2>1. events # <<>> /\ events' = Tail(events)
    BY <1>30 DEF WaitShutdown, TakeShutdown
  <2>2. Head(events) \in Elems(events) /\ Elems(events') \subseteq Elems(events)
    BY <2>1, ElemsOfQueue DEF TypeOK
  <2> QED
    BY <1>30, <2>2 DEF WaitShutdown, TakeShutdown
<1>31. CASE GracefulExit
  BY <1>31 DEF GracefulExit, Persist
<1>32. CASE FirstSignal
  <2>1. Elems(events') = Elems(events) \cup {Shutdown}
    <3>1. events \in Seq(Paths \cup {Shutdown})
      BY DEF TypeOK
    <3>2. events' = Append(events, Shutdown)
      BY <1>32 DEF FirstSignal
    <3> QED
      BY <3>1, <3>2, ElemsOfQueue, Zenon
  <2>2. Shutdown \notin Files
    BY WatchAssumption DEF WatchAssumption, Paths
  <2> QED
    BY <1>32, <2>1, <2>2 DEF FirstSignal
<1>33. CASE Kill
  BY <1>33 DEF Kill
<1>34. CASE User
  <2>1. CASE \E r \in Roots : CreateRoot(r)
    BY <2>1 DEF CreateRoot, Editing
  <2>2. ASSUME NEW p \in Paths, Notify(p), declared' = declared, watched' = watched,
               events' = events, UNCHANGED <<pc, loop, session>>
        PROVE  QueuesFollowTheWatch'
    <3>1. UnderRoots(os', declared)
      BY <2>2, NotifiedUnderRoots DEF Notify
    <3>2. next' # next => pc = "swap" /\ Covers(next.watched, p)
                          /\ next' = [next EXCEPT !.os = @ \cup {p}]
      BY <2>2 DEF Notify
    <3>3. next'.watched = next.watched
      BY <3>2 DEF TypeOK
    <3>4. CASE next' = next
      <4>1. /\ events' = events /\ changed' = changed /\ layout' = layout /\ pc' = pc
            /\ declared' = declared /\ watched' = watched
        BY <2>2
      <4>2. pc = "spawn" => os' = {}
        BY <2>2 DEF Notify, Covers
      <4> QED
        BY <3>1, <3>4, <4>1, <4>2
    <3>5. CASE next' # next
      <4>1. pc = "swap" /\ Covers(next.watched, p)
        BY <3>2, <3>5
      <4>2. next'.os = next.os \cup {p}
        BY <3>2, <3>5 DEF TypeOK
      <4>3. next.watched \cap Roots \subseteq layout.roots /\ UnderRoots(next.os, layout.roots)
        BY <4>1
      <4> HIDE DEF UnderRoots, LoopInvariant, QueuesFollowTheWatch
      <4>4. UnderRoots(next.os \cup {p}, layout.roots)
        BY <4>1, <4>3, NotifiedUnderRoots, Zenon
      <4>5. UnderRoots(next'.os, layout.roots)
        BY <4>2, <4>4
      <4> USE DEF UnderRoots, LoopInvariant, QueuesFollowTheWatch
      <4>6. /\ events' = events /\ changed' = changed /\ layout' = layout /\ pc' = "swap"
            /\ declared' = declared /\ watched' = watched
        BY <2>2, <4>1
      <4> QED
        BY <3>1, <3>3, <4>1, <4>5, <4>6
    <3> QED
      BY <3>4, <3>5
  <2>3. CASE \E f \in Files, d \in OnDisk : EditFile(f, d)
    BY <2>2, <2>3 DEF EditFile, Paths
  <2>4. CASE \E m \in Manifests, l \in Layouts : SaveManifest(m, l)
    BY <2>2, <2>4 DEF SaveManifest, Paths
  <2> QED
    BY <1>34, <2>1, <2>3, <2>4 DEF User
<1>35. CASE Worker
  BY <1>35 DEF Worker, WorkerFinishes, WorkerUnwinds, WorkerPanics, WorkerStep
<1>36. CASE \E p \in Paths : Deliver(p)
  <2>1. PICK p \in Paths : Deliver(p)
    BY <1>36
  <2>2. Elems(events') = Elems(events) \cup {p} /\ p \in os
    BY <2>1, ElemsOfQueue DEF Deliver, TypeOK
  <2> QED
    BY <2>1, <2>2 DEF Deliver
<1>37. CASE UNCHANGED vars
  BY <1>37 DEF vars
<1> QED
  BY <1>1, <1>2, <1>3, <1>4, <1>5, <1>6, <1>7, <1>8, <1>9, <1>10, <1>11, <1>12,
     <1>13, <1>14, <1>15, <1>16, <1>17, <1>18, <1>19, <1>20, <1>21, <1>22, <1>23,
     <1>24, <1>25, <1>26, <1>27, <1>28, <1>29, <1>30, <1>31, <1>32, <1>33, <1>34,
     <1>35, <1>36, <1>37
     DEF Next, Loop

\* The analyzed set stays within the project.
LEMMA SetNext ==
    ASSUME TypeOK, LoopInvariant, [Next]_vars
    PROVE  SetIsTheProjects'
<1> USE DEF project, watch, channel, loop, workerVars, errors, session, outputs, signals,
            history, LoopInvariant, FlowIsSound, InsideAPass, OutsideAPass, BurstInHand,
            SetIsTheProjects
<1>1. CASE Spawn
  BY <1>1 DEF Spawn
<1>2. CASE Iterate
  BY <1>2 DEF Iterate, ForgetAnalysisErrors, SpawnWorker
<1>3. CASE Restart
  BY <1>3 DEF Restart, SpawnWorker
<1>4. CASE PollChange
  BY <1>4 DEF PollChange, TakeFirstChange
<1>5. CASE PollShutdown
  BY <1>5 DEF PollShutdown, TakeShutdown
<1>6. CASE PollTimeout
  BY <1>6 DEF PollTimeout
<1>7. CASE CheckFinished
  BY <1>7 DEF CheckFinished
<1>8. CASE DrainChange
  BY <1>8 DEF DrainChange
<1>9. CASE DrainEnd
  BY <1>9 DEF DrainEnd
<1>10. CASE DrainShutdown
  BY <1>10 DEF DrainShutdown, TakeShutdown, FlagAfterDrain
<1>11. CASE AbsorbFiles
  <2> DEFINE read == AbsorbedVfs(changed, layout, disk, sources)
  <2>1. vfs = sources /\ sources \in [Files -> Contents]
    BY <1>11 DEF AbsorbFiles, MapsAgree, TypeOK
  <2>2. UnderRoots(changed, layout.roots)
    BY <1>11 DEF AbsorbFiles, QueuesFollowTheWatch, WatchIsInPlace
  <2>3. Analyzed(read) \subseteq Project(layout)
    BY <1>11, <2>1, <2>2, BurstStaysInTheProject DEF AbsorbFiles
  <2>4. read \in [Files -> Contents]
    BY <2>1, AbsorbedVfsType DEF TypeOK
  <2>5. mutations' = Reconcile(Changes(sources, read), sources, read) /\ sources' = sources
    BY <1>11, <2>1 DEF AbsorbFiles
  <2> HIDE DEF read
  <2>6. Apply(mutations', sources') = read
    BY <2>1, <2>4, <2>5, ReconciledIsRead
  <2> QED
    BY <1>11, <2>3, <2>6 DEF AbsorbFiles
<1>12. CASE Rediscover
  BY <1>12 DEF Rediscover
<1>13. CASE Refresh
  BY <1>13 DEF Refresh
<1>14. CASE WalkProject
  <2>1. Walk(layout, disk) \subseteq Project(layout)
    BY DEF Walk
  <2> QED
    BY <1>14, <2>1 DEF WalkProject
<1>15. CASE Load
  <2>1. vfs = sources /\ sources \in [Files -> Contents] /\ reached \in SUBSET Files
    BY <1>15 DEF Load, MapsAgree, TypeOK
  <2>2. Analyzed(Apply(mutations', sources')) \subseteq reached
    BY <1>15, <2>1, LoadedIsWanted DEF Load
  <2> QED
    BY <1>15, <2>2 DEF Load
<1>16. CASE ApplyMutations
  BY <1>16 DEF ApplyMutations
<1>17. CASE Resynchronize
  BY <1>17 DEF Resynchronize, Resumed
<1>18. CASE BuildLooks
  BY <1>18 DEF BuildLooks
<1>19. CASE BuildRegisters
  BY <1>19 DEF BuildRegisters
<1>20. CASE BuildFails
  BY <1>20 DEF BuildFails
<1>21. CASE Swap
  BY <1>21 DEF Swap, Resumed
<1>22. CASE JoinOvertaken
  BY <1>22 DEF JoinOvertaken
<1>23. CASE JoinCompleted
  BY <1>23 DEF JoinCompleted, Complete
<1>24. CASE JoinPanicked
  BY <1>24 DEF JoinPanicked, Complete
<1>25. CASE RenderFails
  BY <1>25 DEF RenderFails
<1>26. CASE PersistQuiet
  BY <1>26 DEF PersistQuiet, Persist
<1>27. CASE PersistSkipped
  BY <1>27 DEF PersistSkipped, HandedBack
<1>28. CASE PersistAtShutdown
  BY <1>28 DEF PersistAtShutdown, TakeShutdown, Persist
<1>29. CASE WaitChange
  BY <1>29 DEF WaitChange, TakeFirstChange
<1>30. CASE WaitShutdown
  BY <1>30 DEF WaitShutdown, TakeShutdown
<1>31. CASE GracefulExit
  BY <1>31 DEF GracefulExit, Persist
<1>32. CASE FirstSignal
  BY <1>32 DEF FirstSignal
<1>33. CASE Kill
  BY <1>33 DEF Kill
<1>34. CASE User
  BY <1>34 DEF User, EditFile, SaveManifest, CreateRoot, Editing, Notify
<1>35. CASE Worker
  BY <1>35 DEF Worker, WorkerFinishes, WorkerUnwinds, WorkerPanics, WorkerStep
<1>36. CASE \E p \in Paths : Deliver(p)
  BY <1>36 DEF Deliver
<1>37. CASE UNCHANGED vars
  BY <1>37 DEF vars
<1> QED
  BY <1>1, <1>2, <1>3, <1>4, <1>5, <1>6, <1>7, <1>8, <1>9, <1>10, <1>11, <1>12,
     <1>13, <1>14, <1>15, <1>16, <1>17, <1>18, <1>19, <1>20, <1>21, <1>22, <1>23,
     <1>24, <1>25, <1>26, <1>27, <1>28, <1>29, <1>30, <1>31, <1>32, <1>33, <1>34,
     <1>35, <1>36, <1>37
     DEF Next, Loop

\* A respawn, and nothing else, renews what is on record.
LEMMA RefusalsNext ==
    ASSUME TypeOK, LoopInvariant, [Next]_vars
    PROVE  RefusalsAreKept'
<1> USE DEF project, watch, channel, loop, workerVars, errors, session, outputs, signals,
            history, LoopInvariant, RefusalsAreKept, RefusalsStand
<1>1. CASE Spawn
  <2>1. PICK over \in SUBSET (MayRefuse \cap exists) :
           /\ watched' = (Targets(layout.roots) \cap exists) \ over
           /\ refused' = Refusals(layout.roots, exists, watched')
    BY <1>1 DEF Spawn
  <2>2. declared' = layout.roots /\ exists' = exists /\ appeared' = {} /\ pc' = "iterate"
    BY <1>1 DEF Spawn
  <2>3. AccountedFor(declared', watched', refused')
    BY <2>1, <2>2, RefusalsCover
  <2>4. \A r \in refused' : IF r.existed THEN r.path \in MayRefuse \cap exists
                             ELSE r.path \notin exists
    BY <2>1, RefusalsRead
  <2> QED
    BY <2>2, <2>3, <2>4
<1>2. CASE Iterate
  BY <1>2 DEF Iterate, ForgetAnalysisErrors, SpawnWorker
<1>3. CASE Restart
  BY <1>3 DEF Restart, SpawnWorker
<1>4. CASE PollChange
  BY <1>4 DEF PollChange, TakeFirstChange
<1>5. CASE PollShutdown
  BY <1>5 DEF PollShutdown, TakeShutdown
<1>6. CASE PollTimeout
  BY <1>6 DEF PollTimeout
<1>7. CASE CheckFinished
  BY <1>7 DEF CheckFinished
<1>8. CASE DrainChange
  BY <1>8 DEF DrainChange
<1>9. CASE DrainEnd
  BY <1>9 DEF DrainEnd
<1>10. CASE DrainShutdown
  BY <1>10 DEF DrainShutdown, TakeShutdown, FlagAfterDrain
<1>11. CASE AbsorbFiles
  BY <1>11 DEF AbsorbFiles
<1>12. CASE Rediscover
  BY <1>12 DEF Rediscover
<1>13. CASE Refresh
  BY <1>13 DEF Refresh
<1>14. CASE WalkProject
  BY <1>14 DEF WalkProject
<1>15. CASE Load
  BY <1>15 DEF Load
<1>16. CASE ApplyMutations
  BY <1>16 DEF ApplyMutations
<1>17. CASE Resynchronize
  BY <1>17 DEF Resynchronize, Resumed
<1>18. CASE BuildLooks
  <2>1. next'.existed = exists /\ appeared' = {} /\ exists' = exists /\ pc' = "attempt"
    BY <1>18 DEF BuildLooks, NoWatch
  <2> QED
    BY <1>18, <2>1 DEF BuildLooks
<1>19. CASE BuildRegisters
  <2>1. PICK over \in SUBSET (MayRefuse \cap exists) :
           next' = [next EXCEPT !.watched = (Targets(layout.roots) \cap exists) \ over,
                       !.refused = Refusals(layout.roots, next.existed,
                                            (Targets(layout.roots) \cap exists) \ over)]
    BY <1>19 DEF BuildRegisters
  <2>2. /\ next'.watched = (Targets(layout.roots) \cap exists) \ over
        /\ next'.refused = Refusals(layout.roots, next.existed, next'.watched)
    BY <2>1 DEF TypeOK
  <2>3. /\ pc = "attempt" /\ pc' = "swap" /\ layout' = layout
        /\ UNCHANGED <<exists, appeared, declared, watched, refused>>
    BY <1>19 DEF BuildRegisters
  <2>4. next.existed \subseteq exists \ appeared /\ exists \ next.existed \subseteq appeared
    BY <2>3
  <2>5. AccountedFor(layout.roots, next'.watched, next'.refused)
    BY <2>2, RefusalsCover
  <2>6. next'.refused = Refusals(layout.roots, next.existed,
                                 (Targets(layout.roots) \cap exists) \ over)
    BY <2>2
  <2>7. \A r \in next'.refused : IF r.existed THEN r.path \in MayRefuse \cap next.existed
                                  ELSE r.path \notin next.existed
    <3>1. PICK seen \in SUBSET exists : seen = next.existed
      BY <2>4
    <3>2. \A r \in Refusals(layout.roots, seen, (Targets(layout.roots) \cap exists) \ over) :
              IF r.existed THEN r.path \in MayRefuse \cap seen ELSE r.path \notin seen
      BY RefusalsRead
    <3> QED
      BY ONLY <2>6, <3>1, <3>2
  <2> QED
    BY <2>3, <2>4, <2>5, <2>7
<1>20. CASE BuildFails
  BY <1>20 DEF BuildFails
<1>21. CASE Swap
  BY <1>21 DEF Swap, Resumed
<1>22. CASE JoinOvertaken
  BY <1>22 DEF JoinOvertaken
<1>23. CASE JoinCompleted
  BY <1>23 DEF JoinCompleted, Complete
<1>24. CASE JoinPanicked
  BY <1>24 DEF JoinPanicked, Complete
<1>25. CASE RenderFails
  BY <1>25 DEF RenderFails
<1>26. CASE PersistQuiet
  BY <1>26 DEF PersistQuiet, Persist
<1>27. CASE PersistSkipped
  BY <1>27 DEF PersistSkipped, HandedBack
<1>28. CASE PersistAtShutdown
  BY <1>28 DEF PersistAtShutdown, TakeShutdown, Persist
<1>29. CASE WaitChange
  BY <1>29 DEF WaitChange, TakeFirstChange
<1>30. CASE WaitShutdown
  BY <1>30 DEF WaitShutdown, TakeShutdown
<1>31. CASE GracefulExit
  BY <1>31 DEF GracefulExit, Persist
<1>32. CASE FirstSignal
  BY <1>32 DEF FirstSignal
<1>33. CASE Kill
  BY <1>33 DEF Kill
<1>34. CASE User
  <2>1. /\ UNCHANGED <<watched, declared, refused, pc, layout, unwatchable>>
        /\ exists \subseteq exists' /\ appeared \subseteq appeared'
        /\ exists' \ exists \subseteq appeared'
        /\ appeared' \ appeared \subseteq exists' \ exists
    BY <1>34 DEF User, EditFile, SaveManifest, CreateRoot, Editing
  <2>2. /\ next'.existed = next.existed /\ next'.watched = next.watched
        /\ next'.refused = next.refused
    BY <1>34 DEF User, EditFile, SaveManifest, CreateRoot, Notify, TypeOK
  <2>3. ASSUME NEW record, RefusalsStand(record) PROVE RefusalsStand(record)'
    BY <2>1, <2>3
  <2> QED
    BY <2>1, <2>2
<1>35. CASE Worker
  BY <1>35 DEF Worker, WorkerFinishes, WorkerUnwinds, WorkerPanics, WorkerStep
<1>36. CASE \E p \in Paths : Deliver(p)
  BY <1>36 DEF Deliver
<1>37. CASE UNCHANGED vars
  BY <1>37 DEF vars
<1> QED
  BY <1>1, <1>2, <1>3, <1>4, <1>5, <1>6, <1>7, <1>8, <1>9, <1>10, <1>11, <1>12, <1>13,
     <1>14, <1>15, <1>16, <1>17, <1>18, <1>19, <1>20, <1>21, <1>22, <1>23, <1>24,
     <1>25, <1>26, <1>27, <1>28, <1>29, <1>30, <1>31, <1>32, <1>33, <1>34, <1>35,
     <1>36, <1>37
     DEF Next, Loop

\* No step forgets an edit: it is queued, in hand, lost, or about to be read.
LEMMA EditsNext ==
    ASSUME TypeOK, LoopInvariant, [Next]_vars
    PROVE  EditsAreRemembered'
<1> USE DEF project, watch, channel, loop, workerVars, errors, session, outputs, signals,
            history, LoopInvariant, EditsAreRemembered, NoSilentStaleness, NoSilentDrift, Listening,
            Remembered, ToBeReloaded, MovedSinceTheWalk, Stale, Truth
<1>1. CASE Spawn
  BY <1>1 DEF Spawn
<1>2. CASE Iterate
  BY <1>2 DEF Iterate, ForgetAnalysisErrors, SpawnWorker
<1>3. CASE Restart
  BY <1>3 DEF Restart, SpawnWorker
<1>4. CASE PollChange
  <2>1. events # <<>> /\ events' = Tail(events)
    BY <1>4 DEF PollChange, TakeFirstChange
  <2>2. Elems(events) = {Head(events)} \cup Elems(events')
    BY <2>1, ElemsTaken DEF TypeOK
  <2> QED
    BY <1>4, <2>2 DEF PollChange, TakeFirstChange
<1>5. CASE PollShutdown
  BY <1>5 DEF PollShutdown, TakeShutdown
<1>6. CASE PollTimeout
  BY <1>6 DEF PollTimeout
<1>7. CASE CheckFinished
  BY <1>7 DEF CheckFinished
<1>8. CASE DrainChange
  <2>1. events # <<>> /\ events' = Tail(events)
    BY <1>8 DEF DrainChange
  <2>2. Elems(events) = {Head(events)} \cup Elems(events')
    BY <2>1, ElemsTaken DEF TypeOK
  <2> QED
    BY <1>8, <2>2 DEF DrainChange
<1>9. CASE DrainEnd
  BY <1>9 DEF DrainEnd
<1>10. CASE DrainShutdown
  BY <1>10 DEF DrainShutdown, TakeShutdown, FlagAfterDrain
<1>11. CASE AbsorbFiles
  <2>1. /\ pc = "absorb" /\ pc' = "apply" /\ changed \cap Manifests = {}
        /\ vfs' = AbsorbedVfs(changed, layout, disk, vfs)
        /\ lost' = lost \ (changed \ layout.excluded)
        /\ UNCHANGED <<disk, manifest, layout, events, os, shutdown, observed>>
    BY <1>11 DEF AbsorbFiles, CarriesManifest
  <2>2. Analyzed(vfs) \subseteq Project(layout) /\ UnderRoots(changed, layout.roots)
    BY <2>1 DEF MapsAgree, SetIsTheProjects, QueuesFollowTheWatch, WatchIsInPlace
  <2>3. ASSUME NEW f \in Files \cap changed PROVE vfs'[f] \in Truth(f)'
    <3>1. CASE f \in layout.excluded
      BY <2>1, <2>2, <2>3, <3>1 DEF AbsorbedVfs, Analyzed, Project
    <3>2. CASE f \notin layout.excluded
      <4>1. vfs'[f] = ReadOrNone(disk[f]) /\ f \in Project(layout) /\ disk[f] \in OnDisk
        BY <2>1, <2>2, <2>3, <3>2 DEF AbsorbedVfs, UnderRoots, Project, TypeOK
      <4> QED
        BY <2>1, <4>1, SessionAssumption
           DEF ReadOrNone, OnDisk, Contents, SessionAssumption
    <3> QED
      BY <3>1, <3>2
  <2>4. \A f \in Files \ changed : vfs'[f] = vfs[f]
    BY <2>1 DEF AbsorbedVfs
  <2> QED
    BY <2>1, <2>3, <2>4
<1>12. CASE Rediscover
  BY <1>12 DEF Rediscover
<1>13. CASE Refresh
  BY <1>13 DEF Refresh
<1>14. CASE WalkProject
  <2>1. /\ pc = "walk" /\ pc' = "load" /\ reached' = Walk(layout, disk) /\ lost' = lost \ Files
        /\ UNCHANGED <<disk, manifest, layout, vfs, sources, events, os, shutdown, observed>>
    BY <1>14 DEF WalkProject
  <2>2. vfs = sources
    BY <2>1 DEF MapsAgree
  <2>3. ASSUME NEW f \in Files, f \notin reached' \cup Analyzed(sources)
        PROVE  vfs[f] \in Truth(f)
    BY <2>1, <2>2, <2>3, SessionAssumption DEF Walk, Analyzed, SessionAssumption
  <2>4. \A f \in Files : ~MovedSinceTheWalk(f)'
    BY <2>1 DEF Walk
  <2> QED
    BY <2>1, <2>3, <2>4, WatchAssumption DEF WatchAssumption
<1>15. CASE Load
  <2>1. /\ pc = "load" /\ pc' = "apply" /\ vfs' = LoadedVfs(reached, disk, sources, vfs)
        /\ lost' = lost \ (reached \ Unreadable(reached, disk))
        /\ UNCHANGED <<disk, manifest, layout, events, os, shutdown, observed>>
    BY <1>15 DEF Load
  <2>2. vfs = sources /\ reached \subseteq Project(layout) /\ reached \subseteq Files
    BY <2>1 DEF MapsAgree, SetIsTheProjects, TypeOK
  <2>3. \A f \in Files : vfs'[f] \notin Truth(f)' =>
            MovedSinceTheWalk(f) /\ disk[f] # Denied /\ (f \in reached => disk[f] = Absent)
    BY <1>15, LoadReads
  <2>4. \A f \in Files : vfs'[f] \notin Truth(f)' => f \in Elems(events) \cup os \cup lost'
    BY <2>1, <2>3, SessionAssumption DEF Unreadable, SessionAssumption
  <2>5. Manifests \cap lost' = Manifests \cap lost
    BY <2>1, <2>2, WatchAssumption DEF WatchAssumption
  <2> QED
    BY <2>1, <2>4, <2>5
<1>16. CASE ApplyMutations
  BY <1>16 DEF ApplyMutations
<1>17. CASE Resynchronize
  BY <1>17 DEF Resynchronize, Resumed
<1>18. CASE BuildLooks
  BY <1>18 DEF BuildLooks
<1>19. CASE BuildRegisters
  BY <1>19 DEF BuildRegisters
<1>20. CASE BuildFails
  BY <1>20 DEF BuildFails
<1>21. CASE Swap
  <2>1. /\ pc = "swap" /\ pc' \in {"restart", "iterate"} /\ os' = next.os
        /\ lost' = lost \cup {p \in Dropped : Stale(p)}
        /\ UNCHANGED <<disk, manifest, layout, vfs, shutdown, observed>>
    BY <1>21 DEF Swap, Resumed
  <2>2. ASSUME NEW p \in Paths, p \in Remembered \cup lost, Stale(p)
        PROVE  p \in Remembered' \cup lost'
    <3>1. p # Shutdown
      BY WatchAssumption DEF WatchAssumption
    <3> QED
      BY <2>1, <2>2, <3>1 DEF Dropped
  <2>3. Files \cap Manifests = {}
    BY WatchAssumption DEF WatchAssumption
  <2> QED
    BY <2>1, <2>2, <2>3 DEF Paths
<1>22. CASE JoinOvertaken
  BY <1>22 DEF JoinOvertaken
<1>23. CASE JoinCompleted
  BY <1>23 DEF JoinCompleted, Complete
<1>24. CASE JoinPanicked
  BY <1>24 DEF JoinPanicked, Complete
<1>25. CASE RenderFails
  BY <1>25 DEF RenderFails
<1>26. CASE PersistQuiet
  BY <1>26 DEF PersistQuiet, Persist
<1>27. CASE PersistSkipped
  <2>1. events # <<>> /\ events' = Tail(events)
    BY <1>27 DEF PersistSkipped, HandedBack
  <2>2. Elems(events) = {Head(events)} \cup Elems(events')
    BY <2>1, ElemsTaken DEF TypeOK
  <2> QED
    BY <1>27, <2>2 DEF PersistSkipped, HandedBack
<1>28. CASE PersistAtShutdown
  BY <1>28 DEF PersistAtShutdown, TakeShutdown, Persist
<1>29. CASE WaitChange
  <2>1. events # <<>> /\ events' = Tail(events)
    BY <1>29 DEF WaitChange, TakeFirstChange
  <2>2. Elems(events) = {Head(events)} \cup Elems(events')
    BY <2>1, ElemsTaken DEF TypeOK
  <2> QED
    BY <1>29, <2>2 DEF WaitChange, TakeFirstChange
<1>30. CASE WaitShutdown
  BY <1>30 DEF WaitShutdown, TakeShutdown
<1>31. CASE GracefulExit
  BY <1>31 DEF GracefulExit, Persist
<1>32. CASE FirstSignal
  <2>1. Elems(events') = Elems(events) \cup {Shutdown}
    <3>1. events \in Seq(Paths \cup {Shutdown})
      BY DEF TypeOK
    <3>2. events' = Append(events, Shutdown)
      BY <1>32 DEF FirstSignal
    <3> QED
      BY <3>1, <3>2, ElemsOfQueue, Zenon
  <2> QED
    BY <1>32, <2>1 DEF FirstSignal
<1>33. CASE Kill
  BY <1>33 DEF Kill
<1>34. CASE User
  <2>1. CASE \E r \in Roots : CreateRoot(r)
    <3>1. UNCHANGED <<disk, manifest, watch, channel, pc, loop, workerVars, errors,
                      session, outputs, signals, lost, edited>>
      BY <2>1 DEF CreateRoot
    <3> QED
      BY <3>1
  <2>2. ASSUME NEW p \in Paths, Notify(p)
        PROVE  /\ os \subseteq os' /\ lost \subseteq lost' /\ edited \subseteq edited'
               /\ pc = "swap" => next.os \subseteq next'.os
               /\ p \in os' \cup lost' \cup (IF pc = "swap" THEN next'.os ELSE {})
               /\ pc = "load" => p \in edited'
    <3>1. next' = IF pc = "swap" /\ Covers(next.watched, p)
                  THEN [next EXCEPT !.os = @ \cup {p}] ELSE next
      BY <2>2 DEF Notify
    <3>2. next'.os = IF pc = "swap" /\ Covers(next.watched, p)
                     THEN next.os \cup {p} ELSE next.os
      BY <3>1 DEF TypeOK
    <3> QED
      BY <2>2, <3>2 DEF Notify, Absorbing
  <2>3. CASE \E f \in Files, d \in OnDisk : EditFile(f, d)
    <3>1. PICK f \in Files, d \in OnDisk : EditFile(f, d)
      BY <2>3
    <3>2. f \in Paths /\ Notify(f)
      BY <3>1 DEF EditFile, Paths
    <3>3. /\ UNCHANGED <<manifest, layout, vfs, sources, reached, found, events, pc, changed,
                         shutdown, observed>>
          /\ \A g \in Files \ {f} : disk'[g] = disk[g]
      BY <3>1 DEF EditFile, TypeOK
    <3> QED
      BY <2>2, <3>2, <3>3
  <2>4. CASE \E m \in Manifests, l \in Layouts : SaveManifest(m, l)
    <3>1. PICK m \in Manifests, l \in Layouts : SaveManifest(m, l)
      BY <2>4
    <3>2. m \in Paths /\ Notify(m)
      BY <3>1 DEF SaveManifest, Paths
    <3>3. UNCHANGED <<disk, layout, vfs, sources, reached, found, events, pc, changed,
                      shutdown, observed>>
      BY <3>1 DEF SaveManifest
    <3> QED
      BY <2>2, <3>2, <3>3
  <2> QED
    BY <1>34, <2>1, <2>3, <2>4 DEF User
<1>35. CASE Worker
  BY <1>35 DEF Worker, WorkerFinishes, WorkerUnwinds, WorkerPanics, WorkerStep
<1>36. CASE \E p \in Paths : Deliver(p)
  <2>1. PICK p \in Paths : Deliver(p)
    BY <1>36
  <2>2. Elems(events') = Elems(events) \cup {p}
    BY <2>1, ElemsOfQueue DEF Deliver, TypeOK
  <2> QED
    BY <2>1, <2>2 DEF Deliver
<1>37. CASE UNCHANGED vars
  BY <1>37 DEF vars
<1> QED
  BY <1>1, <1>2, <1>3, <1>4, <1>5, <1>6, <1>7, <1>8, <1>9, <1>10, <1>11, <1>12, <1>13,
     <1>14, <1>15, <1>16, <1>17, <1>18, <1>19, <1>20, <1>21, <1>22, <1>23, <1>24,
     <1>25, <1>26, <1>27, <1>28, <1>29, <1>30, <1>31, <1>32, <1>33, <1>34, <1>35,
     <1>36, <1>37
     DEF Next, Loop

\* A reload that nothing was edited during has read everything.
LEMMA ReloadsNext ==
    ASSUME TypeOK, LoopInvariant, [Next]_vars
    PROVE  ReloadsAreWhole'
<1> USE DEF project, watch, channel, loop, workerVars, errors, session, outputs, signals,
            history, LoopInvariant, FlowIsSound, ReloadsAreWhole, Reloaded, Stale, Truth
<1>1. CASE Spawn
  BY <1>1 DEF Spawn
<1>2. CASE Iterate
  BY <1>2 DEF Iterate, ForgetAnalysisErrors, SpawnWorker
<1>3. CASE Restart
  BY <1>3 DEF Restart, SpawnWorker
<1>4. CASE PollChange
  BY <1>4 DEF PollChange, TakeFirstChange
<1>5. CASE PollShutdown
  BY <1>5 DEF PollShutdown, TakeShutdown
<1>6. CASE PollTimeout
  BY <1>6 DEF PollTimeout
<1>7. CASE CheckFinished
  BY <1>7 DEF CheckFinished
<1>8. CASE DrainChange
  BY <1>8 DEF DrainChange
<1>9. CASE DrainEnd
  BY <1>9 DEF DrainEnd
<1>10. CASE DrainShutdown
  BY <1>10 DEF DrainShutdown, TakeShutdown, FlagAfterDrain
<1>11. CASE AbsorbFiles
  BY <1>11 DEF AbsorbFiles, CarriesManifest
<1>12. CASE Rediscover
  BY <1>12 DEF Rediscover
<1>13. CASE Refresh
  BY <1>13 DEF Refresh
<1>14. CASE WalkProject
  BY <1>14 DEF WalkProject
<1>15. CASE Load
  <2>1. /\ pc = "load" /\ pc' = "apply"
        /\ UNCHANGED <<disk, manifest, layout, edited, changed>>
    BY <1>15 DEF Load
  <2>2. \A f \in Files : vfs'[f] \notin Truth(f)' => MovedSinceTheWalk(f)
    BY <1>15, LoadReads
  <2>3. \A f \in Files : MovedSinceTheWalk(f) => f \in edited
    BY <2>1 DEF EditsAreRemembered
  <2> QED
    BY <2>1, <2>2, <2>3
<1>16. CASE ApplyMutations
  BY <1>16 DEF ApplyMutations
<1>17. CASE Resynchronize
  BY <1>17 DEF Resynchronize, Resumed
<1>18. CASE BuildLooks
  BY <1>18 DEF BuildLooks
<1>19. CASE BuildRegisters
  BY <1>19 DEF BuildRegisters
<1>20. CASE BuildFails
  BY <1>20 DEF BuildFails
<1>21. CASE Swap
  BY <1>21 DEF Swap, Resumed
<1>22. CASE JoinOvertaken
  BY <1>22 DEF JoinOvertaken
<1>23. CASE JoinCompleted
  BY <1>23 DEF JoinCompleted, Complete
<1>24. CASE JoinPanicked
  BY <1>24 DEF JoinPanicked, Complete
<1>25. CASE RenderFails
  BY <1>25 DEF RenderFails
<1>26. CASE PersistQuiet
  BY <1>26 DEF PersistQuiet, Persist
<1>27. CASE PersistSkipped
  BY <1>27 DEF PersistSkipped, HandedBack
<1>28. CASE PersistAtShutdown
  BY <1>28 DEF PersistAtShutdown, TakeShutdown, Persist
<1>29. CASE WaitChange
  BY <1>29 DEF WaitChange, TakeFirstChange
<1>30. CASE WaitShutdown
  BY <1>30 DEF WaitShutdown, TakeShutdown
<1>31. CASE GracefulExit
  BY <1>31 DEF GracefulExit, Persist
<1>32. CASE FirstSignal
  BY <1>32 DEF FirstSignal
<1>33. CASE Kill
  BY <1>33 DEF Kill
<1>34. CASE User
  <2>1. CASE \E r \in Roots : CreateRoot(r)
    BY <2>1 DEF CreateRoot, Editing
  <2>2. CASE \E f \in Files, d \in OnDisk : EditFile(f, d)
    <3>1. PICK f \in Files, d \in OnDisk : EditFile(f, d)
      BY <2>2
    <3>2. /\ UNCHANGED <<manifest, layout, vfs, found, pc, changed>>
          /\ \A g \in Files \ {f} : disk'[g] = disk[g]
          /\ edited' = IF Absorbing THEN edited \cup {f} ELSE edited
      BY <3>1 DEF EditFile, Notify, TypeOK
    <3> QED
      BY <3>2 DEF Absorbing
  <2>3. CASE \E m \in Manifests, l \in Layouts : SaveManifest(m, l)
    <3>1. PICK m \in Manifests, l \in Layouts : SaveManifest(m, l)
      BY <2>3
    <3>2. /\ UNCHANGED <<disk, layout, vfs, found, pc, changed>>
          /\ edited' = IF Absorbing THEN edited \cup {m} ELSE edited
      BY <3>1 DEF SaveManifest, Notify
    <3> QED
      BY <3>2 DEF Absorbing
  <2> QED
    BY <1>34, <2>1, <2>2, <2>3 DEF User
<1>35. CASE Worker
  BY <1>35 DEF Worker, WorkerFinishes, WorkerUnwinds, WorkerPanics, WorkerStep
<1>36. CASE \E p \in Paths : Deliver(p)
  BY <1>36 DEF Deliver
<1>37. CASE UNCHANGED vars
  BY <1>37 DEF vars
<1> QED
  BY <1>1, <1>2, <1>3, <1>4, <1>5, <1>6, <1>7, <1>8, <1>9, <1>10, <1>11, <1>12, <1>13,
     <1>14, <1>15, <1>16, <1>17, <1>18, <1>19, <1>20, <1>21, <1>22, <1>23, <1>24,
     <1>25, <1>26, <1>27, <1>28, <1>29, <1>30, <1>31, <1>32, <1>33, <1>34, <1>35,
     <1>36, <1>37
     DEF Next, Loop

LEMMA LoopNext == TypeOK /\ LoopInvariant /\ [Next]_vars => LoopInvariant'
BY FlowNext, PassNext, RequestNext, MapsNext, QueuesNext, SetNext, RefusalsNext, EditsNext,
   ReloadsNext
   DEF LoopInvariant

(***************************************************************************)
(* The theorems.                                                           *)
(***************************************************************************)

\* The loop of watch.rs keeps every part of its invariant.
THEOREM LoopCorrect == Spec => [](TypeOK /\ LoopInvariant)
<1>1. Init => TypeOK /\ LoopInvariant
  BY TypeInit, LoopInit
<1>2. TypeOK /\ LoopInvariant /\ [Next]_vars => TypeOK' /\ LoopInvariant'
  BY TypeNext, LoopNext
<1> QED
  BY <1>1, <1>2, PTL DEF Spec

\* `absorb` adds no file the declared roots and exclusions do not cover.
THEOREM Departed == Spec => []DepartedStaysDeparted
<1>1. LoopInvariant => DepartedStaysDeparted
  BY DEF LoopInvariant, SetIsTheProjects, DepartedStaysDeparted
<1> QED
  BY <1>1, LoopCorrect, PTL

\* The VFS and the salsa inputs hold the same bytes between absorptions.
THEOREM Mirrored == Spec => []VfsMirrorsAnalyzedSet
<1>1. LoopInvariant => VfsMirrorsAnalyzedSet
  BY DEF LoopInvariant, MapsAgree, VfsMirrorsAnalyzedSet
<1> QED
  BY <1>1, LoopCorrect, PTL

\* A finished pass leaves a picture of the session on screen until the next.
THEOREM Shown == Spec => []PictureIsCurrent
<1>1. LoopInvariant => PictureIsCurrent
  BY DEF LoopInvariant, PassIsOfTheSession, PictureStands, PictureIsCurrent
<1> QED
  BY <1>1, LoopCorrect, PTL

\* A shutdown request the loop has read is never forgotten.
THEOREM Unforgotten == Spec => []ShutdownIsNotForgotten
<1>1. LoopInvariant => ShutdownIsNotForgotten
  BY DEF LoopInvariant, RequestIsCarried, FlowIsSound, OutsideAPass, ShutdownIsNotForgotten
<1> QED
  BY <1>1, LoopCorrect, PTL

\* A graceful exit leaves packs that hold what was last shown.
THEOREM Saved == Spec => []GracefulExitSavesThePicture
<1>1. LoopInvariant => GracefulExitSavesThePicture
  BY DEF LoopInvariant, PassIsOfTheSession, GracefulExitSavesThePicture
<1> QED
  BY <1>1, LoopCorrect, PTL

\* The loop knows of every edit of a file it has not read, or could not hear of it.
THEOREM Remembers == Spec => []NoSilentStaleness
<1>1. LoopInvariant => NoSilentStaleness
  BY DEF LoopInvariant, EditsAreRemembered
<1> QED
  BY <1>1, LoopCorrect, PTL

\* The loop knows of every manifest it has not read, or could not hear of it.
THEOREM Follows == Spec => []NoSilentDrift
<1>1. LoopInvariant => NoSilentDrift
  BY DEF LoopInvariant, EditsAreRemembered
<1> QED
  BY <1>1, LoopCorrect, PTL

\* A declared root nothing watches is named on screen when the loop goes to sleep.
THEOREM BlindnessIsReported == Spec => []BlindRootsAreReported
<1>1. TypeOK /\ LoopInvariant => BlindRootsAreReported
  <2> SUFFICES ASSUME TypeOK, LoopInvariant, pc = "wait",
                      NEW p \in layout.roots \ watched
               PROVE  p \in unwatchable
    BY DEF BlindRootsAreReported
  <2>1. declared = layout.roots
    BY DEF LoopInvariant, QueuesFollowTheWatch, WatchIsInPlace
  <2>2. PICK r \in refused : r.path = p
    BY <2>1 DEF LoopInvariant, RefusalsAreKept, AccountedFor, Targets
  <2>3. IsWorthReporting(r)
    BY <2>1, <2>2 DEF IsWorthReporting, TypeOK
  <2> QED
    BY <2>2, <2>3 DEF LoopInvariant, RefusalsAreKept
<1> QED
  BY <1>1, LoopCorrect, PTL

\* Nothing but the resynchronization leaves its point of the loop for another pass.
LEMMA OnlyResynchronize ==
    ASSUME [Next]_vars, pc = "resync", pc' \notin {"resync", "exited"}
    PROVE  Resynchronize
BY DEF Next, Loop, vars, User, EditFile, SaveManifest, CreateRoot, Deliver, FirstSignal,
       Kill, Worker, WorkerFinishes, WorkerUnwinds, WorkerPanics, WorkerStep, Spawn, Iterate,
       Restart, PollChange, PollShutdown, PollTimeout, CheckFinished, DrainChange, DrainEnd,
       DrainShutdown, AbsorbFiles, Rediscover, Refresh, WalkProject, Load, ApplyMutations,
       BuildLooks, BuildRegisters, BuildFails, Swap, JoinOvertaken, JoinCompleted,
       JoinPanicked, Complete, RenderFails, PersistQuiet, PersistSkipped,
       PersistAtShutdown, WaitChange, WaitShutdown, GracefulExit

\* A watch is torn down for moved roots, or for a path that appeared; a refusal
\* that stands never tears it down again.
THEOREM RespawnsForCause == Spec => RespawnNeedsACause
<1>1. LoopInvariant /\ [Next]_vars =>
          [pc = "resync" /\ pc' = "build" => declared # layout.roots \/ appeared # {}]_vars
  <2> SUFFICES ASSUME LoopInvariant, [Next]_vars, pc = "resync", pc' = "build",
                      declared = layout.roots
               PROVE  appeared # {}
    OBVIOUS
  <2>1. MustRespawn
    BY OnlyResynchronize DEF Resynchronize, Resumed
  <2>2. PICK r \in refused : ~r.existed /\ r.path \in exists
    BY <2>1 DEF MustRespawn, CanBeRetried
  <2> QED
    BY <2>2 DEF LoopInvariant, RefusalsAreKept, RefusalsStand
<1> QED
  BY <1>1, LoopCorrect, PTL DEF Spec, RespawnNeedsACause

\* What a watch kept after an absorption misses of what is there was refused.
THEOREM NoBlindSpot == Spec => NoRecoverableBlindSpot
<1>1. LoopInvariant /\ [Next]_vars =>
          [pc = "resync" /\ pc' \in {"iterate", "restart"} =>
              \A p \in Targets(layout.roots) \cap exists :
                  p \in watched \/ (p \in MayRefuse /\ p \notin appeared)]_vars
  <2> SUFFICES ASSUME LoopInvariant, [Next]_vars, pc = "resync",
                      pc' \in {"iterate", "restart"},
                      NEW p \in Targets(layout.roots) \cap exists, p \notin watched
               PROVE  p \in MayRefuse /\ p \notin appeared
    OBVIOUS
  <2>1. ~MustRespawn
    BY OnlyResynchronize DEF Resynchronize
  <2>2. PICK r \in refused : r.path = p
    BY <2>1 DEF MustRespawn, LoopInvariant, RefusalsAreKept, AccountedFor
  <2>3. r.existed
    BY <2>1, <2>2 DEF MustRespawn, CanBeRetried
  <2> QED
    BY <2>2, <2>3 DEF LoopInvariant, RefusalsAreKept, RefusalsStand
<1> QED
  BY <1>1, LoopCorrect, PTL DEF Spec, NoRecoverableBlindSpot

\* A respawn that a reload led to drops only what was edited since the reload began.
THEOREM ReloadsAreLossless == Spec => RespawnAfterRediscoveryIsLossless
<1>1. LoopInvariant =>
          [pc = "swap" /\ pc' # "exited" /\ pc' # pc /\ changed \cap Manifests # {}
              => Unread = {}]_vars
  <2> SUFFICES ASSUME LoopInvariant, pc = "swap", changed \cap Manifests # {},
                      NEW p \in Unread
               PROVE  FALSE
    OBVIOUS
  <2>1. Reloaded
    BY DEF Reloaded
  <2>2. CASE p \in Files
    BY <2>1, <2>2 DEF LoopInvariant, ReloadsAreWhole, Unread
  <2>3. CASE p \notin Files
    BY <2>1, <2>3 DEF LoopInvariant, ReloadsAreWhole, Unread, Stale
  <2> QED
    BY <2>2, <2>3
<1> QED
  BY <1>1, LoopCorrect, PTL DEF Spec, RespawnAfterRediscoveryIsLossless

(***************************************************************************)
(* The refinement.                                                         *)
(***************************************************************************)

\* Each step of the loop is a step of Picture, or none.
LEMMA PictureStep ==
    ASSUME TypeOK, LoopInvariant, [Next]_vars, TypeOK'
    PROVE  [Abstract!Next]_(Abstract!vars)
<1> USE DEF project, watch, channel, loop, workerVars, errors, session, outputs, signals,
            history, LoopInvariant, FlowIsSound, InsideAPass, OutsideAPass, BurstInHand,
            PassIsOfTheSession, PictureStands, Current
<1>0. Current' \in Analysis
  BY CurrentType DEF TypeOK
<1> USE DEF Abstract!Next, Abstract!vars
<1>1. CASE Spawn
  BY <1>1 DEF Spawn
<1>2. CASE Iterate
  BY <1>2 DEF Iterate, ForgetAnalysisErrors, SpawnWorker
<1>3. CASE Restart
  BY <1>3 DEF Restart, SpawnWorker
<1>4. CASE PollChange
  BY <1>4 DEF PollChange, TakeFirstChange
<1>5. CASE PollShutdown
  BY <1>5 DEF PollShutdown, TakeShutdown
<1>6. CASE PollTimeout
  BY <1>6 DEF PollTimeout
<1>7. CASE CheckFinished
  BY <1>7 DEF CheckFinished
<1>8. CASE DrainChange
  BY <1>8 DEF DrainChange
<1>9. CASE DrainEnd
  BY <1>9 DEF DrainEnd
<1>10. CASE DrainShutdown
  BY <1>10 DEF DrainShutdown, TakeShutdown, FlagAfterDrain
<1>11. CASE AbsorbFiles
  BY <1>11 DEF AbsorbFiles
<1>12. CASE Rediscover
  BY <1>12 DEF Rediscover
<1>13. CASE Refresh
  BY <1>0, <1>13 DEF Refresh, Abstract!Absorb
<1>14. CASE WalkProject
  BY <1>14 DEF WalkProject
<1>15. CASE Load
  BY <1>15 DEF Load
<1>16. CASE ApplyMutations
  BY <1>0, <1>16 DEF ApplyMutations, Abstract!Absorb
<1>17. CASE Resynchronize
  BY <1>17 DEF Resynchronize, Resumed
<1>18. CASE BuildLooks
  BY <1>18 DEF BuildLooks
<1>19. CASE BuildRegisters
  BY <1>19 DEF BuildRegisters
<1>20. CASE BuildFails
  BY <1>20 DEF BuildFails, Abstract!Abort
<1>21. CASE Swap
  BY <1>21 DEF Swap, Resumed
<1>22. CASE JoinOvertaken
  BY <1>22 DEF JoinOvertaken
<1>23. CASE JoinCompleted
  BY <1>23 DEF JoinCompleted, Complete, Abstract!Show
<1>24. CASE JoinPanicked
  BY <1>24 DEF JoinPanicked, Complete, Abstract!Show
<1>25. CASE RenderFails
  BY <1>25 DEF RenderFails, Abstract!Abort
<1>26. CASE PersistQuiet
  BY <1>26 DEF PersistQuiet, Persist, Abstract!Save, Abstract!Agrees
<1>27. CASE PersistSkipped
  BY <1>27 DEF PersistSkipped, HandedBack
<1>28. CASE PersistAtShutdown
  BY <1>28 DEF PersistAtShutdown, TakeShutdown, Persist, Abstract!Save, Abstract!Agrees
<1>29. CASE WaitChange
  BY <1>29 DEF WaitChange, TakeFirstChange
<1>30. CASE WaitShutdown
  BY <1>30 DEF WaitShutdown, TakeShutdown
<1>31. CASE GracefulExit
  BY <1>31 DEF GracefulExit, Persist, Abstract!Close, Abstract!Agrees
<1>32. CASE FirstSignal
  BY <1>32 DEF FirstSignal
<1>33. CASE Kill
  BY <1>33 DEF Kill, Abstract!Abort
<1>34. CASE User
  BY <1>34 DEF User, EditFile, SaveManifest, CreateRoot, Editing, Notify
<1>35. CASE Worker
  BY <1>35 DEF Worker, WorkerFinishes, WorkerUnwinds, WorkerPanics, WorkerStep
<1>36. CASE \E p \in Paths : Deliver(p)
  BY <1>36 DEF Deliver
<1>37. CASE UNCHANGED vars
  BY <1>37 DEF vars
<1> QED
  BY <1>1, <1>2, <1>3, <1>4, <1>5, <1>6, <1>7, <1>8, <1>9, <1>10, <1>11, <1>12,
     <1>13, <1>14, <1>15, <1>16, <1>17, <1>18, <1>19, <1>20, <1>21, <1>22, <1>23,
     <1>24, <1>25, <1>26, <1>27, <1>28, <1>29, <1>30, <1>31, <1>32, <1>33, <1>34,
     <1>35, <1>36, <1>37
     DEF Next, Loop

LEMMA PictureInit == Init => Abstract!Init
<1> SUFFICES ASSUME Init PROVE Abstract!Init
  OBVIOUS
<1>1. Current \in Analysis
  BY TypeInit, CurrentType DEF TypeOK, Current
<1> QED
  BY <1>1 DEF Init, Abstract!Init

\* The loop, its worker, its watcher and its channel implement Picture.
THEOREM Implements == Spec => ImplementsPicture
<1>1. TypeOK /\ LoopInvariant /\ TypeOK' /\ [Next]_vars => [Abstract!Next]_(Abstract!vars)
  BY PictureStep
<1> QED
  BY <1>1, PictureInit, LoopCorrect, PTL DEF Spec, ImplementsPicture, Abstract!Spec

============================================================================
