------------------------------ MODULE Session ------------------------------
(***************************************************************************)
(* What a `Session` does to its state when the filesystem changes:         *)
(* the VFS diff, its reconciliation with the analyzed set, and the full    *)
(* reload that follows a manifest change.  Pure operators; the loop that   *)
(* calls them, and the steps other threads take in between, are in Watch.  *)
(*                                                                         *)
(* The VFS (`celerrate_vfs`) and the salsa inputs (`session.sources`) are  *)
(* two maps from files to bytes.  Both are modelled as total functions     *)
(* where Absent stands for "no entry".                                     *)
(***************************************************************************)
EXTENDS FiniteSets

CONSTANTS
    Files,     \* PHP files that exist or may come to exist under a walk root
    Roots,     \* directories an autoload section may declare as walk roots
    RootOf,    \* the walk root each file lives under
    Settings,  \* values of what else a manifest moves: PHP range, active rules
    Bytes,     \* file contents
    Empty,     \* the empty contents, which `load` gives an unreadable file
    Absent,    \* no such file on disk / no entry in a map
    Denied     \* a file that is there and cannot be read

ASSUME SessionAssumption ==
    /\ RootOf \in [Files -> Roots]
    /\ Empty \in Bytes
    /\ Absent \notin Bytes
    /\ Denied \notin Bytes
    /\ Absent # Denied

Contents == Bytes \cup {Absent}
OnDisk   == Contents \cup {Denied}

\* What discovery answers: the declared walk roots, the excluded files, and
\* the inputs of the analysis it sets.
Layout == [roots : SUBSET Roots, excluded : SUBSET Files, settings : Settings]

\* The files the walk of a layout may reach.
Project(layout) == {f \in Files : RootOf[f] \in layout.roots /\ f \notin layout.excluded}

----------------------------------------------------------------------------
(* Reads                                                                    *)

\* `fs::read(path).ok()`: absence and a refused read are both None.
ReadOrNone(d) == IF d \in Bytes THEN d ELSE Absent

\* Mutant: the refused read itself reaches the inputs.
ReadUnchecked(d) == d

\* `load`'s read: a file the walk found and cannot read enters with no bytes.
ReadOrEmpty(d) == IF d \in Bytes THEN d ELSE Empty

----------------------------------------------------------------------------
(* The analyzed set and its mutations                                       *)

\* A set of mutations names the files it touches and what each becomes.  The
\* code's three kinds are read off: Absent is RemoveFile, bytes for a member
\* are SetBytes, bytes for any other file are AddFile.
Mutations == UNION {[S -> Contents] : S \in SUBSET Files}

Analyzed(sources) == {f \in Files : sources[f] # Absent}

\* A VFS change becomes a mutation, unless a file outside the set is gone.
Reconcile(changes, sources, vfs) ==
    [f \in {g \in changes : vfs[g] # Absent \/ g \in Analyzed(sources)} |-> vfs[f]]

Apply(mutations, sources) ==
    [f \in Files |-> IF f \in DOMAIN mutations THEN mutations[f] ELSE sources[f]]

----------------------------------------------------------------------------
(* A burst of file changes                                                  *)

\* The VFS after a burst has been read: excluded files are skipped, and
\* nothing asks whether a path lies under a declared root.
AbsorbedVfs(burst, layout, disk, vfs) ==
    [f \in Files |-> IF f \in burst \ layout.excluded THEN ReadOrNone(disk[f]) ELSE vfs[f]]

\* `take_changes`: only a write that altered the contents is a change.
Changes(before, after) == {f \in Files : after[f] # before[f]}

----------------------------------------------------------------------------
(* A full reload                                                            *)

Walk(layout, disk) == {f \in Project(layout) : disk[f] # Absent}

\* Mutant: the set forgets a departing file, the VFS does not.
LoadedVfsKeepingDeparted(reached, disk, sources, vfs) ==
    [f \in Files |-> IF f \in reached THEN ReadOrEmpty(disk[f]) ELSE vfs[f]]

\* Mutant: only the files the set did not hold yet are read.
LoadedVfsOfArrivals(reached, disk, sources, vfs) ==
    [f \in Files |->
        IF f \in reached \ Analyzed(sources) THEN ReadOrEmpty(disk[f])
        ELSE IF f \in Analyzed(sources) \ reached THEN Absent
        ELSE vfs[f]]

\* Every reached file takes the bytes just read and every departing member
\* leaves the VFS too; other entries of the VFS stay.
LoadedVfs(reached, disk, sources, vfs) ==
    [f \in Files |->
        IF f \in reached THEN ReadOrEmpty(disk[f])
        ELSE IF f \in Analyzed(sources) THEN Absent
        ELSE vfs[f]]

Unreadable(reached, disk) == {f \in reached : disk[f] \notin Bytes}

\* The wanted set replaces the analyzed one: bytes are set where they moved.
LoadMutations(reached, disk, sources) ==
    LET wanted == [f \in Files |-> IF f \in reached THEN ReadOrEmpty(disk[f]) ELSE Absent]
    IN  [f \in Changes(sources, wanted) |-> wanted[f]]

============================================================================
