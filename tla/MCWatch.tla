------------------------------ MODULE MCWatch ------------------------------
(***************************************************************************)
(* Watch over a project small enough to enumerate: file a under r1, file b *)
(* under r2, a directory that a layout may declare, exclude b from, or not *)
(* declare, and that need not exist when the session starts.               *)
(***************************************************************************)
EXTENDS WatchInvariants, TLC

CONSTANTS a, b, r1, r2, composer, lock, empty, v1, php7, php8

MCRootOf == (a :> r1) @@ (b :> r2)

\* Both files under one watched root.
MCOneRoot == (a :> r1) @@ (b :> r1)

Declares(roots, excluded, settings) ==
    [roots |-> roots, excluded |-> excluded, settings |-> settings]

MCLayouts == {Declares({r1, r2}, {}, php8), Declares({r1}, {}, php8),
              Declares({r1, r2}, {b}, php7)}

MCTwoLayouts == {Declares({r1, r2}, {}, php8), Declares({r1}, {}, php7)}

\* Declarations that never move: a respawn can only be a retry.
MCOneLayout == {Declares({r1}, {}, php8)}

MCInitialDisks == {(a :> v1) @@ (b :> d) : d \in {v1, Absent}}

MCInitialPaths == {{r1, composer}, {r1, r2, composer}}
MCNoLockfile   == {{r1, composer}}
============================================================================
