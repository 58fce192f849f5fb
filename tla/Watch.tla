------------------------------- MODULE Watch -------------------------------
(***************************************************************************)
(* `celerrate check --watch`: the loop of watch.rs over the session of     *)
(* session.rs, the worker thread that runs one analysis at a time, the     *)
(* `notify` watcher that feeds the loop's only channel, the signal handler *)
(* that shares it, and the user who edits the project meanwhile.           *)
(*                                                                         *)
(* The loop is a thread whose program counter `pc` names the blocking      *)
(* point or the filesystem read it is about to make, so the user, the      *)
(* watcher's thread, the worker and the signal handler step in between.    *)
(***************************************************************************)
EXTENDS Session, Naturals, Sequences

CONSTANTS
    Manifests,     \* composer.json, composer.lock, celerrate.toml, the baseline
    Layouts,       \* what the manifests may declare
    InitialDisks,  \* what the files may hold when the session starts
    InitialPaths,  \* which roots and manifests may exist by then
    Poison,        \* contents whose per-file analysis panics
    MayRefuse,     \* existing paths the operating system may decline to watch
    Shutdown,      \* the shutdown request on the channel
    NoPicture,     \* nothing shown, or the empty picture of a panicked pass
    WholePass,     \* the error entry of a pass that panicked as a whole
    MaxEdits       \* bound on the user's edits

Paths     == Files \cup Manifests
Watchable == Roots \cup Manifests

ASSUME WatchAssumption ==
    /\ Layouts \subseteq Layout
    /\ InitialDisks \subseteq [Files -> OnDisk]
    /\ InitialPaths \subseteq SUBSET Watchable
    /\ Poison \subseteq Bytes
    /\ MayRefuse \subseteq Watchable
    /\ Files \cap Manifests = {} /\ Roots \cap Manifests = {}
    /\ Shutdown \notin Paths
    /\ WholePass \notin Files
    /\ MaxEdits \in Nat

VARIABLES
    \* The project on disk, and how much of it the user may still edit.
    disk, manifest, exists, edits,
    \* The watch: what it observes, the roots it was built over, what was
    \* refused, the notifications its thread has yet to send, its channel, and
    \* the watch being built to replace it.
    watched, declared, refused, os, events, next,
    \* The loop.
    pc, inCycle, changed, shutdown, found, reached, mutations,
    \* The worker thread and the inputs it was started over.
    worker, input,
    \* The session.
    layout, vfs, sources, unreadable, panicked, unwatchable,
    \* What the user sees, what the packs hold, how the process ended.
    shown, persisted, exit,
    \* The first signal: whether it was sent while a respawn was swapping the
    \* channel, and whether the loop has read it.
    signal, observed,
    \* History: paths whose last edit no queue remembers, paths edited since
    \* the absorption under way began, paths created since the last
    \* registration looked.
    lost, edited, appeared

project     == <<disk, manifest, exists, edits>>
watch       == <<watched, declared, refused, next>>
channel     == <<os, events>>
loop        == <<inCycle, changed, shutdown, found, reached, mutations>>
workerVars  == <<worker, input>>
errors      == <<unreadable, panicked, unwatchable>>
session     == <<layout, vfs, sources>>
outputs     == <<shown, persisted, exit>>
signals     == <<signal, observed>>
history     == <<lost, edited, appeared>>

vars == <<project, watch, channel, pc, loop, workerVars, errors, session, outputs,
          signals, history>>

----------------------------------------------------------------------------

Elems(queue) == {queue[i] : i \in DOMAIN queue}

\* What a pass reads: the analyzed bytes and the configuration inputs.
Analysis == [sources : [Files -> Contents], settings : Settings]
Current  == [sources |-> sources, settings |-> layout.settings]

\* The paths a watch over these roots registers.
Targets(roots) == roots \cup Manifests

\* Whether a watch of `observing` reports an edit of `p`.
Covers(observing, p) ==
    \/ p \in Manifests \cap observing
    \/ p \in Files /\ RootOf[p] \in observing

\* A refusal is kept with whether the path was there when it was looked at.
Refusal == [path : Watchable, existed : BOOLEAN]

\* Mutant: a refusal over a path that is there is retried too.
CanAlwaysBeRetried(r) == r.path \in exists

CanBeRetried(r) == ~r.existed /\ r.path \in exists

\* Mutant: an absent path is never news.
IsReportedOnlyIfThere(r) == r.existed

\* A manifest nobody wrote is ordinary; a declared root that is missing is not.
IsWorthReporting(r) == r.existed \/ r.path \in Roots

\* Mutant: a refusal not worth reporting is not recorded either.
RefusalsWorthReporting(roots, existed, granted) ==
    {[path |-> p, existed |-> p \in existed] :
        p \in (Targets(roots) \ granted) \cap (Roots \cup existed)}

\* The refusals a registration that saw `existed` and got `granted` records.
Refusals(roots, existed, granted) ==
    {[path |-> p, existed |-> p \in existed] : p \in Targets(roots) \ granted}

NoWatch == [existed |-> {}, watched |-> {}, refused |-> {}, os |-> {}]

\* A setter of a salsa input waits until the worker has let go of its handle.
Setting ==
    \/ pc = "refresh" /\ found.settings # layout.settings
    \/ pc = "apply" /\ DOMAIN mutations # {}

Unwound == worker # "running"

----------------------------------------------------------------------------
(* The user and the operating system                                        *)

\* From the first read of an absorption to the resumption of the loop.
Absorbing == pc \in {"refresh", "walk", "load", "apply", "join", "resync", "build",
                     "attempt", "swap"}

\* An edit of `p` reaches the watch in place, and the one being built once it
\* has registered; when neither observes `p`, nothing will ever report it.
Notify(p) ==
    LET old == Covers(watched, p)
        new == pc = "swap" /\ Covers(next.watched, p)
    IN  /\ os'     = IF old THEN os \cup {p} ELSE os
        /\ next'   = IF new THEN [next EXCEPT !.os = @ \cup {p}] ELSE next
        /\ lost'   = IF old \/ new THEN lost ELSE lost \cup {p}
        /\ edited' = IF Absorbing THEN edited \cup {p} ELSE edited

Editing == edits < MaxEdits /\ pc # "exited" /\ edits' = edits + 1

\* A file is written, touched, made unreadable, made readable or deleted.
EditFile(f, contents) ==
    /\ Editing
    /\ RootOf[f] \in exists
    /\ contents # disk[f] \/ contents \in Bytes
    /\ disk' = [disk EXCEPT ![f] = contents]
    /\ Notify(f)
    /\ UNCHANGED <<manifest, exists, watched, declared, refused, events, pc, loop,
                   workerVars, errors, session, outputs, signals, appeared>>

\* A manifest is saved, possibly for the first time.
SaveManifest(m, l) ==
    /\ Editing
    /\ manifest' = l
    /\ exists' = exists \cup {m}
    /\ appeared' = appeared \cup ({m} \ exists)
    /\ Notify(m)
    /\ UNCHANGED <<disk, watched, declared, refused, events, pc, loop, workerVars,
                   errors, session, outputs, signals>>

\* A declared directory is created.  Nothing watches its parent.
CreateRoot(r) ==
    /\ Editing
    /\ r \notin exists
    /\ exists' = exists \cup {r}
    /\ appeared' = appeared \cup {r}
    /\ UNCHANGED <<disk, manifest, watch, channel, pc, loop, workerVars, errors,
                   session, outputs, signals, lost, edited>>

User == \/ \E f \in Files, d \in OnDisk : EditFile(f, d)
        \/ \E m \in Manifests, l \in Layouts : SaveManifest(m, l)
        \/ \E r \in Roots : CreateRoot(r)

\* The watcher's callback sends a notification on the channel.
Deliver(p) ==
    /\ pc # "exited"
    /\ p \in os
    /\ os' = os \ {p}
    /\ events' = Append(events, p)
    /\ UNCHANGED <<project, watch, pc, loop, workerVars, errors, session, outputs,
                   signals, history>>

\* The first signal is sent through the cell; until the swap writes the new
\* sender into it, that is the channel the loop is about to drop.
FirstSignal ==
    /\ pc \notin {"spawn", "exited"}
    /\ signal = "none"
    /\ signal' = IF pc \in {"attempt", "swap"} THEN "swapping" ELSE "early"
    /\ events' = Append(events, Shutdown)
    /\ UNCHANGED <<project, watch, os, pc, loop, workerVars, errors, session, outputs,
                   observed, history>>

\* The second ends the process at once, as does any before the handler is in.
Kill ==
    /\ pc = "spawn" \/ (pc # "exited" /\ signal # "none")
    /\ pc' = "exited"
    /\ exit' = "killed"
    /\ UNCHANGED <<project, watch, channel, loop, workerVars, errors, session, shown,
                   persisted, signals, history>>

----------------------------------------------------------------------------
(* The worker                                                               *)

\* It answers; a query of it notices a waiting setter; or it panics.
WorkerStep(outcome) ==
    /\ pc # "exited"
    /\ worker = "running"
    /\ worker' = outcome
    /\ UNCHANGED <<project, watch, channel, pc, loop, input, errors, session, outputs,
                   signals, history>>

WorkerFinishes == WorkerStep("done")
WorkerUnwinds  == Setting /\ WorkerStep("cancelled")
WorkerPanics   == WorkerStep("panicked")

Worker == WorkerFinishes \/ WorkerUnwinds \/ WorkerPanics

----------------------------------------------------------------------------
(* Starting a pass                                                          *)

\* `Watch::spawn`: the first registrations, then the handler is installed.
Spawn ==
    /\ pc = "spawn"
    /\ \E over \in SUBSET (MayRefuse \cap exists) :
          LET granted == (Targets(layout.roots) \cap exists) \ over
          IN  /\ watched' = granted
              /\ refused' = Refusals(layout.roots, exists, granted)
    /\ declared' = layout.roots
    /\ appeared' = {}
    /\ pc' = "iterate"
    /\ UNCHANGED <<project, channel, next, loop, workerVars, errors, session, outputs,
                   signals, lost, edited>>

SpawnWorker ==
    /\ worker' = "running"
    /\ input' = Current
    /\ changed' = {}
    /\ pc' = "poll"

\* Mutant: the panics of every pass pile up.
PanicsPileUp == UNCHANGED panicked

ForgetAnalysisErrors == panicked' = {}

\* A pass of the loop begins: what the last analysis went wrong about is
\* forgotten, and so is its shutdown flag.
Iterate ==
    /\ pc = "iterate"
    /\ ForgetAnalysisErrors
    /\ shutdown' = FALSE
    /\ inCycle' = TRUE
    /\ SpawnWorker
    /\ UNCHANGED <<project, watch, channel, found, reached, mutations, unreadable,
                   unwatchable, session, outputs, signals, history>>

\* An analysis a change overtook starts over within the same pass, which
\* keeps its shutdown flag.
Restart ==
    /\ pc = "restart"
    /\ SpawnWorker
    /\ UNCHANGED <<project, watch, channel, inCycle, shutdown, found, reached,
                   mutations, errors, session, outputs, signals, history>>

----------------------------------------------------------------------------
(* Reading the channel                                                      *)

\* The start of a burst, read by `pc` = "poll" or "wait".
TakeFirstChange ==
    /\ events # <<>> /\ Head(events) # Shutdown
    /\ events' = Tail(events)
    /\ changed' = {Head(events)}
    /\ pc' = "drain"

TakeShutdown ==
    /\ events # <<>> /\ Head(events) = Shutdown
    /\ events' = Tail(events)
    /\ observed' = TRUE

PollChange ==
    /\ pc = "poll"
    /\ TakeFirstChange
    /\ UNCHANGED <<project, watch, os, inCycle, shutdown, found, reached, mutations,
                   workerVars, errors, session, outputs, signals, history>>

PollShutdown ==
    /\ pc = "poll"
    /\ TakeShutdown
    /\ shutdown' = TRUE
    /\ pc' = "join"
    /\ UNCHANGED <<project, watch, os, inCycle, changed, found, reached, mutations,
                   workerVars, errors, session, outputs, signal, history>>

PollTimeout ==
    /\ pc = "poll"
    /\ events = <<>>
    /\ pc' = "polled"
    /\ UNCHANGED <<project, watch, channel, loop, workerVars, errors, session, outputs,
                   signals, history>>

\* Mutant: the loop only ever looks up for an event.
CheckNothing ==
    /\ pc = "polled"
    /\ pc' = "poll"
    /\ UNCHANGED <<project, watch, channel, loop, workerVars, errors, session, outputs,
                   signals, history>>

CheckFinished ==
    /\ pc = "polled"
    /\ pc' = IF Unwound THEN "join" ELSE "poll"
    /\ UNCHANGED <<project, watch, channel, loop, workerVars, errors, session, outputs,
                   signals, history>>

\* `drain_burst`: everything that arrives before the window passes in silence.
DrainChange ==
    /\ pc = "drain"
    /\ events # <<>> /\ Head(events) # Shutdown
    /\ events' = Tail(events)
    /\ changed' = changed \cup {Head(events)}
    /\ UNCHANGED <<project, watch, os, pc, inCycle, shutdown, found, reached, mutations,
                   workerVars, errors, session, outputs, signals, history>>

DrainEnd ==
    /\ pc = "drain"
    /\ events = <<>>
    /\ pc' = "absorb"
    /\ UNCHANGED <<project, watch, channel, loop, workerVars, errors, session, outputs,
                   signals, history>>

\* Mutant: `drain_burst` stops at the shutdown and does not say so.
FlagUntouched == shutdown

FlagAfterDrain == inCycle \/ shutdown

\* A shutdown ends the burst.  Inside a pass the burst is still absorbed and
\* the flag outlives the restart; between passes the burst is discarded.
DrainShutdown ==
    /\ pc = "drain"
    /\ TakeShutdown
    /\ shutdown' = FlagAfterDrain
    /\ changed' = IF inCycle THEN changed ELSE {}
    /\ pc' = IF inCycle THEN "absorb" ELSE "exit"
    /\ UNCHANGED <<project, watch, os, inCycle, found, reached, mutations, workerVars,
                   errors, session, outputs, signal, history>>

----------------------------------------------------------------------------
(* Absorbing a burst                                                        *)

\* Mutant: `all` for `any`.
IsAllManifests(burst) == burst \subseteq Manifests

CarriesManifest(burst) == burst \cap Manifests # {}

\* `Session::absorb` without a manifest: the files are read and reconciled.
AbsorbFiles ==
    /\ pc = "absorb"
    /\ ~CarriesManifest(changed)
    /\ LET read == AbsorbedVfs(changed, layout, disk, vfs)
       IN  /\ vfs' = read
           /\ mutations' = Reconcile(Changes(vfs, read), sources, read)
    /\ lost' = lost \ (changed \ layout.excluded)
    /\ pc' = "apply"
    /\ UNCHANGED <<project, watch, channel, inCycle, changed, shutdown, found, reached,
                   workerVars, errors, layout, sources, outputs, signals, edited,
                   appeared>>

\* With a manifest: `rediscover` reads what the project declares now.
Rediscover ==
    /\ pc = "absorb"
    /\ CarriesManifest(changed)
    /\ found' = manifest
    /\ lost' = lost \ Manifests
    /\ pc' = "refresh"
    /\ UNCHANGED <<project, watch, channel, inCycle, changed, shutdown, reached,
                   mutations, workerVars, errors, session, outputs, signals, edited,
                   appeared>>

\* The range and the active rules are set where they moved, then the walk runs
\* over the new layout.
Refresh ==
    /\ pc = "refresh"
    /\ Setting => Unwound
    /\ layout' = found
    /\ pc' = "walk"
    /\ UNCHANGED <<project, watch, channel, loop, workerVars, errors, vfs, sources,
                   outputs, signals, history>>

WalkProject ==
    /\ pc = "walk"
    /\ reached' = Walk(layout, disk)
    /\ lost' = lost \ Files
    /\ pc' = "load"
    /\ UNCHANGED <<project, watch, channel, inCycle, changed, shutdown, found, mutations,
                   workerVars, errors, session, outputs, signals, edited, appeared>>

\* The files the walk reached are read, after whatever the user did since.
Load ==
    /\ pc = "load"
    /\ vfs' = LoadedVfs(reached, disk, sources, vfs)
    /\ mutations' = LoadMutations(reached, disk, sources)
    /\ unreadable' = Unreadable(reached, disk)
    /\ lost' = lost \ (reached \ Unreadable(reached, disk))
    /\ reached' = {}
    /\ pc' = "apply"
    /\ UNCHANGED <<project, watch, channel, inCycle, changed, shutdown, found,
                   workerVars, panicked, unwatchable, layout, sources, outputs, signals,
                   edited, appeared>>

\* The setters: they cancel a running worker and wait for it.
ApplyMutations ==
    /\ pc = "apply"
    /\ Setting => Unwound
    /\ sources' = Apply(mutations, sources)
    /\ mutations' = <<>>
    /\ pc' = IF inCycle THEN "join" ELSE "resync"
    /\ UNCHANGED <<project, watch, channel, inCycle, changed, shutdown, found, reached,
                   workerVars, errors, layout, vfs, outputs, signals, history>>

----------------------------------------------------------------------------
(* Following the declared roots                                             *)

\* The loop goes on: with a new pass after a burst, with the same one inside.
Resumed == IF inCycle THEN "restart" ELSE "iterate"

\* Mutant: only a refusal worth retrying replaces the watch.
MustRetry == \E r \in refused : CanBeRetried(r)

MustRespawn == declared # layout.roots \/ \E r \in refused : CanBeRetried(r)

Resynchronize ==
    /\ pc = "resync"
    /\ pc' = IF MustRespawn THEN "build" ELSE Resumed
    /\ edited' = IF MustRespawn THEN edited ELSE {}
    /\ UNCHANGED <<project, watch, channel, loop, workerVars, errors, session, outputs,
                   signals, lost, appeared>>

\* `register` reads a path's existence before it attempts the registration.
BuildLooks ==
    /\ pc = "build"
    /\ next' = [NoWatch EXCEPT !.existed = exists]
    /\ appeared' = {}
    /\ pc' = "attempt"
    /\ UNCHANGED <<project, watched, declared, refused, channel, loop, workerVars,
                   errors, session, outputs, signals, lost, edited>>

BuildRegisters ==
    /\ pc = "attempt"
    /\ \E over \in SUBSET (MayRefuse \cap exists) :
          LET granted == (Targets(layout.roots) \cap exists) \ over
          IN  next' = [next EXCEPT !.watched = granted,
                          !.refused = Refusals(layout.roots, next.existed, granted)]
    /\ pc' = "swap"
    /\ UNCHANGED <<project, watched, declared, refused, channel, loop, workerVars,
                   errors, session, outputs, signals, history>>

\* No watcher can be created: the run ends, without a persist.
BuildFails ==
    /\ pc = "build"
    /\ pc' = "exited"
    /\ exit' = "usage_error"
    /\ UNCHANGED <<project, watch, channel, loop, workerVars, errors, session, shown,
                   persisted, signals, history>>

\* A file the session's view of it disagrees with; a refused read may leave
\* the empty contents (`load`) or no entry (`absorb`).
Truth(f) ==
    IF f \notin Project(layout) THEN {Absent}
    ELSE IF disk[f] = Denied THEN {Empty, Absent}
    ELSE {disk[f]}

Stale(p) == IF p \in Files THEN vfs[p] \notin Truth(p) ELSE layout # manifest

Dropped == (Elems(events) \cup os) \ (next.os \cup {Shutdown})

\* The new watch replaces the old one, and the old queue goes with it.
Swap ==
    /\ pc = "swap"
    /\ watched' = next.watched
    /\ refused' = next.refused
    /\ declared' = layout.roots
    /\ events' = <<>>
    /\ os' = next.os
    /\ next' = NoWatch
    /\ lost' = lost \cup {p \in Dropped : Stale(p)}
    /\ edited' = {}
    /\ pc' = Resumed
    /\ UNCHANGED <<project, loop, workerVars, errors, session, outputs, signals,
                   appeared>>

----------------------------------------------------------------------------
(* Ending a pass                                                            *)

\* The worker is joined and its answer dropped: a change overtook it.
JoinOvertaken ==
    /\ pc = "join"
    /\ Unwound
    /\ changed # {}
    /\ worker' = "none"
    /\ pc' = "resync"
    /\ UNCHANGED <<project, watch, channel, loop, input, errors, session, outputs,
                   signals, history>>

\* Mutant: the answer of an overtaken pass is printed.
CompleteOvertaken(picture, panics) ==
    /\ pc = "join"
    /\ worker' = "none"
    /\ shown' = picture
    /\ panicked' = panicked \cup panics
    /\ unwatchable' = {r.path : r \in {x \in refused : IsWorthReporting(x)}}
    /\ pc' = "persist"
    /\ UNCHANGED <<project, watch, channel, loop, input, unreadable, session, persisted,
                   exit, signals, history>>

\* It answered, or panicked as a whole: the picture is printed with the errors
\* of this pass and the refusals of the watch now in place.
Complete(picture, panics) ==
    /\ pc = "join"
    /\ changed = {}
    /\ worker' = "none"
    /\ shown' = picture
    /\ panicked' = panicked \cup panics
    /\ unwatchable' = {r.path : r \in {x \in refused : IsWorthReporting(x)}}
    /\ pc' = "persist"
    /\ UNCHANGED <<project, watch, channel, loop, input, unreadable, session, persisted,
                   exit, signals, history>>

JoinCompleted ==
    /\ worker = "done"
    /\ Complete(input, {f \in Files : input.sources[f] \in Poison})

JoinPanicked ==
    /\ worker = "panicked"
    /\ Complete(NoPicture, {WholePass})

\* The output stream is gone: the run ends, without a persist.
RenderFails ==
    /\ pc = "join"
    /\ changed = {}
    /\ Unwound
    /\ pc' = "exited"
    /\ exit' = "internal_error"
    /\ UNCHANGED <<project, watch, channel, loop, workerVars, errors, session, shown,
                   persisted, signals, history>>

\* `persist` collects its entries from the session, not from the picture.
Persist == persisted' = Current

\* Quiet channel: persist, then block for a burst unless shutting down.
PersistQuiet ==
    /\ pc = "persist"
    /\ events = <<>>
    /\ Persist
    /\ inCycle' = FALSE
    /\ pc' = IF shutdown THEN "exit" ELSE "wait"
    /\ UNCHANGED <<project, watch, channel, changed, shutdown, found, reached, mutations,
                   workerVars, errors, session, shown, exit, signals, history>>

\* Mutant: the change `try_recv` consumed is dropped.
NothingHandedBack == {}

\* The change read to decide on the write starts the next burst, unless a
\* shutdown seen earlier in the pass discards it.
HandedBack == IF shutdown THEN {} ELSE {Head(events)}

\* A change is queued already: the write is skipped.
PersistSkipped ==
    /\ pc = "persist"
    /\ events # <<>> /\ Head(events) # Shutdown
    /\ events' = Tail(events)
    /\ changed' = HandedBack
    /\ inCycle' = FALSE
    /\ pc' = IF shutdown THEN "exit" ELSE "drain"
    /\ UNCHANGED <<project, watch, os, shutdown, found, reached, mutations, workerVars,
                   errors, session, outputs, signals, history>>

\* A shutdown is queued: persist, for no pass follows.
PersistAtShutdown ==
    /\ pc = "persist"
    /\ TakeShutdown
    /\ Persist
    /\ inCycle' = FALSE
    /\ pc' = "exit"
    /\ UNCHANGED <<project, watch, os, changed, shutdown, found, reached, mutations,
                   workerVars, errors, session, shown, exit, signal, history>>

WaitChange ==
    /\ pc = "wait"
    /\ TakeFirstChange
    /\ UNCHANGED <<project, watch, os, inCycle, shutdown, found, reached, mutations,
                   workerVars, errors, session, outputs, signals, history>>

WaitShutdown ==
    /\ pc = "wait"
    /\ TakeShutdown
    /\ pc' = "exit"
    /\ UNCHANGED <<project, watch, os, loop, workerVars, errors, session, outputs,
                   signal, history>>

\* Mutant: the exit trusts the last pass to have persisted.
ExitUnsaved ==
    /\ pc = "exit"
    /\ pc' = "exited"
    /\ exit' = "graceful"
    /\ UNCHANGED <<project, watch, channel, loop, workerVars, errors, session, shown,
                   persisted, signals, history>>

\* The graceful exit persists once more on its way out.
GracefulExit ==
    /\ pc = "exit"
    /\ Persist
    /\ pc' = "exited"
    /\ exit' = "graceful"
    /\ UNCHANGED <<project, watch, channel, loop, workerVars, errors, session, shown,
                   signals, history>>

----------------------------------------------------------------------------

NoFiles == [f \in Files |-> Absent]

\* The session starts over what it finds on disk.
Init ==
    /\ manifest \in Layouts
    /\ exists \in InitialPaths
    /\ disk \in {d \in InitialDisks : \A f \in Files : d[f] # Absent => RootOf[f] \in exists}
    /\ edits = 0
    /\ watched = {} /\ declared = {} /\ refused = {}
    /\ os = {} /\ events = <<>> /\ next = NoWatch
    /\ pc = "spawn"
    /\ inCycle = FALSE /\ shutdown = FALSE /\ changed = {}
    /\ layout = manifest /\ found = manifest
    /\ reached = {}
    /\ vfs = LoadedVfs(Walk(layout, disk), disk, NoFiles, NoFiles)
    /\ sources = vfs
    /\ unreadable = Unreadable(Walk(layout, disk), disk)
    /\ mutations = <<>>
    /\ worker = "none" /\ input = Current
    /\ panicked = {} /\ unwatchable = {}
    /\ shown = NoPicture /\ persisted = NoPicture /\ exit = "none"
    /\ signal = "none" /\ observed = FALSE
    /\ lost = {} /\ edited = {} /\ appeared = {}

Loop ==
    \/ Spawn \/ Iterate \/ Restart
    \/ PollChange \/ PollShutdown \/ PollTimeout \/ CheckFinished
    \/ DrainChange \/ DrainEnd \/ DrainShutdown
    \/ AbsorbFiles \/ Rediscover \/ Refresh \/ WalkProject \/ Load \/ ApplyMutations
    \/ Resynchronize \/ BuildLooks \/ BuildRegisters \/ BuildFails \/ Swap
    \/ JoinOvertaken \/ JoinCompleted \/ JoinPanicked \/ RenderFails
    \/ PersistQuiet \/ PersistSkipped \/ PersistAtShutdown
    \/ WaitChange \/ WaitShutdown \/ GracefulExit

Next ==
    \/ User \/ Loop \/ Worker \/ FirstSignal \/ Kill
    \/ \E p \in Paths : Deliver(p)

Spec == Init /\ [][Next]_vars

\* The threads run: the scheduler starves neither the loop, nor the worker,
\* nor the watcher's callback.  The user and the signals owe nothing.
Fairness ==
    /\ WF_vars(Loop)
    /\ WF_vars(Worker)
    /\ WF_vars(\E p \in Paths : Deliver(p))

FairSpec == Spec /\ Fairness

----------------------------------------------------------------------------
(* Types                                                                    *)

Pc == {"spawn", "iterate", "restart", "poll", "polled", "drain", "absorb", "refresh",
       "walk", "load", "apply", "join", "resync", "build", "attempt", "swap", "persist",
       "wait", "exit", "exited"}

\* Every variable stays in the range its Rust type and the code around it give.
TypeOK ==
    /\ disk \in [Files -> OnDisk] /\ manifest \in Layouts
    /\ exists \subseteq Watchable /\ edits \in 0 .. MaxEdits
    /\ watched \subseteq Watchable /\ declared \subseteq Roots
    /\ refused \subseteq Refusal
    /\ os \subseteq Paths /\ events \in Seq(Paths \cup {Shutdown})
    /\ next \in [existed : SUBSET Watchable, watched : SUBSET Watchable,
                 refused : SUBSET Refusal, os : SUBSET Paths]
    /\ pc \in Pc /\ inCycle \in BOOLEAN /\ shutdown \in BOOLEAN
    /\ changed \subseteq Paths /\ found \in Layouts /\ reached \subseteq Files
    /\ mutations \in Mutations
    /\ worker \in {"none", "running", "done", "cancelled", "panicked"}
    /\ input \in Analysis
    /\ layout \in Layouts
    /\ vfs \in [Files -> Contents] /\ sources \in [Files -> Contents]
    /\ unreadable \subseteq Files /\ panicked \subseteq Files \cup {WholePass}
    /\ unwatchable \subseteq Watchable
    /\ shown \in Analysis \cup {NoPicture} /\ persisted \in Analysis \cup {NoPicture}
    /\ exit \in {"none", "graceful", "killed", "usage_error", "internal_error"}
    /\ signal \in {"none", "early", "swapping"} /\ observed \in BOOLEAN
    /\ lost \subseteq Paths /\ edited \subseteq Paths /\ appeared \subseteq Watchable

----------------------------------------------------------------------------
(* Safety                                                                   *)

\* The paths some queue, or the burst in hand, still tells the loop about.
Remembered ==
    Elems(events) \cup os
        \cup (IF pc \in {"drain", "absorb"} THEN changed ELSE {})
        \cup (IF pc = "swap" THEN next.os ELSE {})

\* The loop still owes the user what happens on disk.
Listening == pc # "exited" /\ ~observed

\* A rediscovery under way has yet to read the file, or to forget it.
ToBeReloaded(f) ==
    \/ pc \in {"refresh", "walk"}
    \/ pc = "load" /\ f \in reached \cup Analyzed(sources)

\* No file of the project keeps bytes the disk does not hold unless the watch
\* still has an event about it, is reading it now, or had no way to hear of
\* the edit (nothing observed it, or a respawn dropped its event).
NoSilentStaleness ==
    Listening =>
        \A f \in Files :
            Stale(f) => f \in Remembered \cup lost \/ ToBeReloaded(f)

\* The same of the manifests: what discovery answered is what they declare.
NoSilentDrift ==
    Listening =>
        LET known == IF pc = "refresh" THEN found ELSE layout
        IN  known # manifest => Manifests \cap (Remembered \cup lost) # {}

\* What a walk dropped stays dropped: outside an absorption every analyzed file
\* is under a declared root and not excluded, although `absorb` never asks
\* which root a changed path is under.
DepartedStaysDeparted ==
    pc \notin {"walk", "load", "apply", "exited"} => Analyzed(sources) \subseteq Project(layout)

\* Between absorptions the VFS and the analyzed set hold the same bytes, which
\* is what makes the next diff of the one a correct mutation of the other.
VfsMirrorsAnalyzedSet == pc \notin {"apply", "exited"} => vfs = sources

\* A picture on screen while nothing is being absorbed is of the analyzed set,
\* and it lists a panic for exactly the files whose shown bytes panic.
PictureIsCurrent ==
    pc \in {"persist", "wait", "exit"} =>
        \/ shown = Current /\ panicked = {f \in Files : sources[f] \in Poison}
        \/ shown = NoPicture /\ panicked = {WholePass}

\* "watching for changes" is never printed over a declared root that nothing
\* watches without naming that root in the error block.
BlindRootsAreReported ==
    pc = "wait" => layout.roots \ watched \subseteq unwatchable

\* A request the loop has read is never forgotten: the loop does not go back
\* to sleep, and every way on from a finished pass leads to the exit.
ShutdownIsNotForgotten ==
    observed => /\ pc \notin {"wait", "iterate"}
                /\ inCycle => shutdown \/ pc = "exited"

\* A graceful exit leaves packs that hold the analyzed project as last shown.
GracefulExitSavesThePicture ==
    exit = "graceful" => persisted = Current /\ shown \in {Current, NoPicture}

----------------------------------------------------------------------------
(* What a step may never do                                                 *)

\* Queued events of edits that were made before the absorption began, and that
\* the session has not read: a file's contents, or what a manifest declares.
Unread ==
    {p \in Dropped : Stale(p) /\ IF p \in Files THEN p \notin edited
                                 ELSE edited \cap Manifests = {}}

\* A respawn that follows a rediscovery drops no event about a path whose
\* contents the session has not read, save an edit made since it began to.
RespawnAfterRediscoveryIsLossless ==
    [][pc = "swap" /\ pc' # "exited" /\ pc' # pc /\ changed \cap Manifests # {}
        => Unread = {}]_vars

\* A watch is torn down only because the declared roots moved or because a
\* refused path was created since the last registration looked: never again
\* and again over a refusal that cannot be overturned.
RespawnNeedsACause ==
    [][pc = "resync" /\ pc' = "build" => declared # layout.roots \/ appeared # {}]_vars

\* The loop does not go on past an absorption over a watch that misses a path
\* it could observe: what is there and unwatched was refused while there.
NoRecoverableBlindSpot ==
    [][pc = "resync" /\ pc' \in {"iterate", "restart"} =>
        \A p \in Targets(layout.roots) \cap exists :
            p \in watched \/ (p \in MayRefuse /\ p \notin appeared)]_vars

\* The loop, the worker and the channel together promise what Picture states.
Abstract ==
    INSTANCE Picture WITH
        Analyses <- Analysis,
        analyzed <- Current,
        picture  <- shown,
        packs    <- persisted,
        status   <- CASE exit = "none"     -> "open"
                      [] exit = "graceful" -> "closed"
                      [] OTHER             -> "aborted"

ImplementsPicture == Abstract!Spec

----------------------------------------------------------------------------
(* Liveness                                                                 *)

\* Once the user stops editing, the loop comes to rest, and then the picture on
\* screen is of the files on disk, but for edits nothing could report.
EditsAreShown ==
    <>[]( \/ pc = "exited"
          \/ /\ pc = "wait" /\ Remembered = {}
             /\ shown \in {Current, NoPicture}
             /\ \A f \in Files : Stale(f) => f \in lost )

\* The request was on a channel a respawn dropped.
ShutdownDropped == signal # "none" /\ ~observed /\ Shutdown \notin Elems(events)

\* A first signal ends the process, unless a respawn dropped it.
ShutdownIsAnswered == (signal # "none") ~> (pc = "exited" \/ ShutdownDropped)

----------------------------------------------------------------------------
(* What the comments claim                                                  *)

\* watch.rs:726: a respawn happens only just after `rediscover`, so a queued
\* event it drops says nothing that load did not already read from disk.
RespawnDropsNothingUnread ==
    [][pc = "swap" /\ pc' \in {"iterate", "restart"} => Unread = {}]_vars

\* watch.rs:286: a shutdown is lost only when it is sent between the respawn's
\* build of the new channel and its write into the cell.
ShutdownLostOnlyInTheSwap ==
    ShutdownDropped => signal = "swapping"

============================================================================
