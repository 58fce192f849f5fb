------------------------------ MODULE Picture ------------------------------
(***************************************************************************)
(* What `--watch` promises, whatever threads, channels and restarts it is  *)
(* built from: the analyzed project moves in whole steps, each printed     *)
(* picture is of the project as it stood at one of them and is current     *)
(* when it is printed, and a graceful exit leaves with a current picture   *)
(* that the packs on disk agree with.                                      *)
(***************************************************************************)
CONSTANTS
    Analyses,   \* what one pass may be over
    NoPicture   \* no pass has answered, or the last one panicked as a whole

VARIABLES analyzed, picture, packs, status

vars == <<analyzed, picture, packs, status>>

Init ==
    /\ analyzed \in Analyses
    /\ picture = NoPicture /\ packs = NoPicture
    /\ status = "open"

Agrees(p) == p \in {analyzed, NoPicture}

\* A burst is absorbed.
Absorb ==
    /\ status = "open"
    /\ analyzed' \in Analyses
    /\ UNCHANGED <<picture, packs, status>>

\* A pass that nothing overtook is printed.
Show ==
    /\ status = "open"
    /\ picture' \in {analyzed, NoPicture}
    /\ UNCHANGED <<analyzed, packs, status>>

\* The packs are rewritten, only ever from a project the user has been shown.
Save ==
    /\ status = "open"
    /\ Agrees(picture)
    /\ packs' = analyzed
    /\ UNCHANGED <<analyzed, picture, status>>

Close ==
    /\ status = "open"
    /\ Agrees(picture)
    /\ status' = "closed"
    /\ packs' = analyzed
    /\ UNCHANGED <<analyzed, picture>>

\* Killed, or ended by an error: the picture and the packs stay as they were.
Abort ==
    /\ status = "open"
    /\ status' = "aborted"
    /\ UNCHANGED <<analyzed, picture, packs>>

Next == Absorb \/ Show \/ Save \/ Close \/ Abort

Spec == Init /\ [][Next]_vars

============================================================================
