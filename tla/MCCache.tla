------------------------------ MODULE MCCache ------------------------------
(***************************************************************************)
(* Cache over a project of a reported file and a dependency.  The reported *)
(* file calls what the dependency declares, and a name the stubs provide   *)
(* in one PHP range only.                                                  *)
(***************************************************************************)
EXTENDS Cache, TLC

CONSTANTS caller, crash, lib, moved, other, narrow, wide, lax, strict, b1, p, q

Own    == 1
Vendor == 2

\* `lib` and `moved` declare one name with different surfaces, `other` none.
MCDeclares ==
    (caller :> ("main" :> "main()")) @@ (crash :> ("main" :> "main()"))
    @@ (lib :> ("f" :> "f(int)")) @@ (moved :> ("f" :> "f(string)")) @@ (other :> << >>)

MCConsults ==
    (caller :> {"f", "s"}) @@ (crash :> {"f"}) @@ (lib :> {}) @@ (moved :> {}) @@ (other :> {})

MCStubs == (narrow :> ("s" :> "s()")) @@ (wide :> << >>)

Base(own, vendor) ==
    [contents |-> (Own :> own) @@ (Vendor :> vendor), range |-> narrow, config |-> lax]

MCInitialProjects == {Base(caller, lib)}

\* One edit writes or deletes one file, or moves the range or the rules.
MCEdits(s) ==
    {[s EXCEPT !.contents[Own] = t] : t \in {caller, crash, NoText}}
    \cup {[s EXCEPT !.contents[Vendor] = t] : t \in {lib, moved, other}}
    \cup {[s EXCEPT !.range = r] : r \in Ranges}
    \cup {[s EXCEPT !.config = c] : c \in Configs}

\* The manifests move, the sources stay.
MCSettingsEdits(s) ==
    {[s EXCEPT !.range = r] : r \in Ranges} \cup {[s EXCEPT !.config = c] : c \in Configs}

\* The dependency is upgraded, or the rules move: a stale half, a stale pack.
MCSharedEdits(s) ==
    {[s EXCEPT !.contents[Vendor] = t] : t \in {lib, moved}}
    \cup {[s EXCEPT !.config = c] : c \in Configs}

MCOneBuild == p :> b1
MCSameBuild == (p :> b1) @@ (q :> b1)

MCAllPacks == <<ItemTrees, MemberTrees, Diagnostics, Signatures>>
MCTwoPacks == <<ItemTrees, Diagnostics>>
============================================================================
