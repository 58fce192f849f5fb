----------------------------- MODULE Artifacts -----------------------------
(***************************************************************************)
(* What an analysis derives from a project, and what it consulted on the   *)
(* way: the trees of a file, its diagnostics in two halves, the signatures *)
(* its bodies infer.  Everything here is a pure function of the inputs.    *)
(*                                                                         *)
(* A file's text is an atom.  What the analysis reads off it is given by   *)
(* constants: the names it declares, each with a surface, and the names    *)
(* either half of its diagnostics looks up.                                *)
(***************************************************************************)
EXTENDS Naturals, FiniteSets

CONSTANTS
    Files,           \* the project's files, numbered in the order of the walk
    Reported,        \* those whose diagnostics the run reports: not a dependency's
    Texts,           \* what a file may hold
    NoText,          \* the file does not exist
    Declares,        \* for each text, the surface of each name it declares
    Consults,        \* the names a text's untyped diagnostics resolve
    TypedConsults,   \* the names its typed diagnostics and its bodies look into
    Poison,          \* texts whose analysis panics
    Panicked,        \* what a run has for such a file
    Ranges,          \* PHP version ranges
    Stubs,           \* for each range, the surface of each name the stubs provide
    Configs,         \* rule and severity settings
    Builds           \* what is fixed in a process: schema, binary, stubs, plugins

ASSUME ArtifactsAssumption ==
    /\ Files \subseteq Nat
    /\ Reported \subseteq Files
    /\ NoText \notin Texts
    /\ Poison \subseteq Texts

\* The inputs of one analysis.
Project  == [contents : [Files -> Texts \cup {NoText}], range : Ranges, config : Configs]
Settings == [range : Ranges, config : Configs]

\* Mutant: the configuration digest is not part of the settings.
RangeOnly(s) == [range |-> s.range]

SettingsOf(s) == [range |-> s.range, config |-> s.config]

Sources(s) == {f \in Files : s.contents[f] # NoText}

\* `reported_files`: the analyzed files the report speaks about.
Speaking(s) == Sources(s) \cap Reported

----------------------------------------------------------------------------
(* What an analysis looks up                                                *)

Declaring(s, n) == {f \in Sources(s) : n \in DOMAIN Declares[s.contents[f]]}

First(files) == CHOOSE f \in files : \A g \in files : f <= g

\* The answer an untyped check reads: where the name resolves. The availability
\* window of a stub is the build's, and settles nothing more.
Resolution(s, n) ==
    IF Declaring(s, n) # {} THEN "source"
    ELSE IF n \in DOMAIN Stubs[s.range] THEN "stub" ELSE "unknown"

\* The digest a typed check reads: the surface of what the name resolves to.
Surface(s, n) ==
    IF Declaring(s, n) # {} THEN Declares[s.contents[First(Declaring(s, n))]][n]
    ELSE IF n \in DOMAIN Stubs[s.range] THEN Stubs[s.range][n] ELSE "unknown"

Resolutions(s, t) == [n \in Consults[t] |-> Resolution(s, n)]
Surfaces(s, t)    == [n \in TypedConsults[t] |-> Surface(s, n)]

----------------------------------------------------------------------------
(* What it derives                                                          *)

\* The item tree and the member tree of a text.
Tree(build, t) == [build |-> build, text |-> t]

\* One half of a file's diagnostics: all that may move it, and the answers it
\* was given.
Portion(tree, settings, answers) ==
    [tree |-> tree, range |-> settings.range, config |-> settings.config,
     answers |-> answers]

\* The two halves recomputed from the tree in hand.
ComposedFrom(tree, s, t) ==
    [untyped |-> Portion(tree, s, Resolutions(s, t)),
     typed   |-> Portion(tree, s, Surfaces(s, t))]

\* What a run over `s` reports, computed from nothing.
Expected(build, s) ==
    [f \in Speaking(s) |->
        LET t == s.contents[f]
        IN  IF t \in Poison THEN Panicked ELSE ComposedFrom(Tree(build, t), s, t)]

============================================================================
