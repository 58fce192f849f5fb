----------------------------- MODULE ColdCheck -----------------------------
(***************************************************************************)
(* What the packs under `.celerrate/cache` must never change: a process    *)
(* takes a project in and reports what an analysis from nothing would.  No *)
(* cache, no directory, and no other process appears in it.                *)
(***************************************************************************)
EXTENDS Artifacts

CONSTANTS Procs, Build, NoProject, NoOutcome

VARIABLES seen, outcome

vars == <<seen, outcome>>

Init ==
    /\ seen = [p \in Procs |-> NoProject]
    /\ outcome = [p \in Procs |-> NoOutcome]

\* A project is taken in, or the process is gone.
Take(p) ==
    /\ seen' \in {[seen EXCEPT ![p] = s] : s \in Project \cup {NoProject}}
    /\ outcome' = [outcome EXCEPT ![p] = NoOutcome]

Report(p) ==
    /\ seen[p] # NoProject
    /\ outcome' = [outcome EXCEPT ![p] = Expected(Build[p], seen[p])]
    /\ UNCHANGED seen

Next == \E p \in Procs : Take(p) \/ Report(p)

Spec == Init /\ [][Next]_vars

============================================================================
