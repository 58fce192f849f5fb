-------------------------- MODULE WatchInvariants --------------------------
(***************************************************************************)
(* Why the loop of Watch is right: the parts of an inductive invariant,    *)
(* each about what the loop holds at the points it stops at.  The run      *)
(* watch_safety checks their conjunction; WatchProofs proves it.           *)
(***************************************************************************)
EXTENDS Watch

\* The points of one pass: `cycle` is on the stack, or it is not.
InsideAPass  == {"restart", "poll", "polled", "join", "persist"}
OutsideAPass == {"spawn", "iterate", "wait", "exit"}

\* The points between reading a burst and having applied it.
BurstInHand == {"drain", "absorb", "refresh", "walk", "load", "apply"}

FlowIsSound ==
    /\ pc \in InsideAPass => inCycle
    /\ pc \in OutsideAPass => ~inCycle
    /\ pc \in {"poll", "polled"} => changed = {}
    /\ pc \in BurstInHand => changed # {}
    /\ exit # "none" => pc = "exited"

\* The last picture describes the session the loop holds.
PictureStands ==
    \/ shown = Current /\ panicked = {f \in Files : sources[f] \in Poison}
    \/ shown = NoPicture /\ panicked = {WholePass}

\* A pass nothing overtook reads what the session holds, its panics are
\* collected from none, and the picture stands until a burst is absorbed.
PassIsOfTheSession ==
    /\ pc \in {"poll", "polled"} \/ (pc = "join" /\ changed = {}) => input = Current
    /\ inCycle /\ pc \notin {"persist", "exited"} => panicked = {}
    /\ pc \in {"persist", "wait", "exit"} \/ (pc = "drain" /\ ~inCycle) => PictureStands
    /\ exit = "graceful" => persisted = Current /\ shown \in {Current, NoPicture}

\* A request that was read is the pass's flag, or the way out.
RequestIsCarried ==
    /\ observed /\ inCycle => shutdown \/ pc = "exited"
    /\ observed /\ ~inCycle => pc \in {"exit", "exited"}

\* The mutations in hand are the difference between the two maps.
MapsAgree ==
    pc # "exited" => vfs = IF pc = "apply" THEN Apply(mutations, sources) ELSE sources

\* Where the watch is the one of the roots the session declares.
WatchIsInPlace ==
    \/ pc \in {"iterate", "restart", "poll", "polled", "drain", "absorb", "refresh",
               "persist", "wait", "exit"}
    \/ pc = "join" /\ changed = {}

UnderRoots(paths, roots) == \A f \in paths \cap Files : RootOf[f] \in roots

\* No queue holds a file that is not under the roots of the watch it feeds.
QueuesFollowTheWatch ==
    /\ WatchIsInPlace => declared = layout.roots
    /\ pc = "spawn" => watched = {} /\ os = {} /\ events = <<>>
    /\ watched \cap Roots \subseteq declared
    /\ UnderRoots(Elems(events), declared)
    /\ UnderRoots(os, declared)
    /\ pc \in {"drain", "absorb"} => UnderRoots(changed, declared)
    /\ pc = "attempt" => next.os = {}
    /\ pc = "swap" => /\ next.watched \cap Roots \subseteq layout.roots
                      /\ UnderRoots(next.os, layout.roots)

\* The analyzed set, or what the mutations in hand make of it, is the project's.
SetIsTheProjects ==
    /\ pc \notin {"walk", "load", "apply", "exited"} =>
          Analyzed(sources) \subseteq Project(layout)
    /\ pc = "load" => reached \subseteq Project(layout)
    /\ pc = "apply" => Analyzed(Apply(mutations, sources)) \subseteq Project(layout)

\* Every path a watch should observe and does not has a refusal on record.
AccountedFor(roots, observing, record) ==
    \A p \in Targets(roots) \ observing : \E r \in record : r.path = p

\* A path refused while it was there is one that may be refused; a path refused
\* because it was not is still not there, or has appeared since.
RefusalsStand(record) ==
    \A r \in record :
        IF r.existed THEN r.path \in (MayRefuse \cap exists) \ appeared
        ELSE r.path \in exists => r.path \in appeared

\* The refusals on record say what the watch in place, or the next, is blind to.
RefusalsAreKept ==
    /\ pc \notin {"spawn", "exited"} => AccountedFor(declared, watched, refused)
    /\ pc \notin {"spawn", "attempt", "swap", "exited"} => RefusalsStand(refused)
    /\ pc = "attempt" => /\ next.existed \subseteq exists \ appeared
                         /\ exists \ next.existed \subseteq appeared
    /\ pc = "swap" => /\ AccountedFor(layout.roots, next.watched, next.refused)
                      /\ RefusalsStand(next.refused)
    /\ pc \in {"persist", "wait"} =>
          unwatchable = {r.path : r \in {x \in refused : IsWorthReporting(x)}}

\* What the walk found no longer holds of a file.
MovedSinceTheWalk(f) ==
    IF f \in reached THEN disk[f] = Absent ELSE f \in Project(layout) /\ disk[f] # Absent

\* Every edit is in a queue, in hand, lost, or yet to be read by this absorption.
EditsAreRemembered ==
    /\ shutdown => observed
    /\ NoSilentStaleness /\ NoSilentDrift
    /\ pc = "load" => \A f \in Files :
          MovedSinceTheWalk(f) => f \in (Elems(events) \cup os \cup lost) \cap edited

\* The points between a reload and the end of its absorption.
Reloaded ==
    /\ changed \cap Manifests # {}
    /\ pc \in {"apply", "join", "resync", "build", "attempt", "swap"}

\* A reload has read everything, but for what was edited meanwhile.
ReloadsAreWhole ==
    /\ pc = "refresh" => found = manifest \/ edited \cap Manifests # {}
    /\ pc \in {"walk", "load"} \/ Reloaded => layout = manifest \/ edited \cap Manifests # {}
    /\ Reloaded => \A f \in Files : Stale(f) => f \in edited

\* What watch.rs keeps true from one step to the next, wherever its threads are
\* interleaved: the conjunction is inductive together with TypeOK.
LoopInvariant ==
    /\ FlowIsSound
    /\ PassIsOfTheSession
    /\ RequestIsCarried
    /\ MapsAgree
    /\ QueuesFollowTheWatch
    /\ SetIsTheProjects
    /\ RefusalsAreKept
    /\ EditsAreRemembered
    /\ ReloadsAreWhole

============================================================================
