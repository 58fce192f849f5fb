----------------------------- MODULE MCReport -----------------------------
(***************************************************************************)
(* Reports over two files: suggestions that touch, overlap and race, the   *)
(* directive forms of both origins, and a typed finding of one file that a *)
(* declaration in the other answers.                                       *)
(***************************************************************************)
EXTENDS Report, TLC

Says(origin, scope, identifiers) ==
    {[origin |-> origin, scope |-> scope, identifiers |-> identifiers]}
Native(identifiers) == Says("native", "trailingOrNextLine", identifiers)

\* Identifiers: 18, 19, 20, 21 of untyped rules, 30 of a typed one, 35 of an
\* inactive one; 99 is no code.
MCKnown == {18, 19, 20, 21, 30, 35, 41, 42}
MCInactive == {35}

MCDirectivesIn ==
    [token \in {"ignBad", "ignOdd", "ignUnused", "ignWrong", "ignInactive", "docOdd",
                "ignoreLine", "ignoreNextLine", "ignoreSome"} |->
        CASE token = "ignBad"         -> Native({18})
          [] token = "ignOdd"         -> Native({30})
          [] token = "ignUnused"      -> Native({42})
          [] token = "ignWrong"       -> Native({18, 99})
          [] token = "ignInactive"    -> Native({35})
          [] token = "docOdd"         -> Says("native", "annotatedDeclaration", {30})
          [] token = "ignoreLine"     -> Says("foreign", "currentLine", {})
          [] token = "ignoreNextLine" -> Says("foreign", "nextLine", {})
          [] token = "ignoreSome"     -> Says("foreign", "currentAndNextLine", {18})]

Finding(id, i, message) ==
    [id |-> id, start |-> i - 1, end |-> i, message |-> message, subject |-> {}]
At(text, token) == {i \in DOMAIN text : text[i] = token}
Declared(all) == \E f \in DOMAIN all : At(all[f], "def") # {}

MCUntyped(text, all) ==
    {Finding(18, i, 1) : i \in At(text, "bad")}
        \cup {Finding(18, i, 2) : i \in At(text, "twin")}
        \cup {Finding(19, i, 3) : i \in IF Declared(all) THEN {} ELSE At(text, "twin")}
        \cup {Finding(20, i, 4) : i \in At(text, "wild")}
        \cup {Finding(21, i, 5) : i \in At(text, "far")}
MCTyped(text, all) ==
    {Finding(30, i, 6) : i \in IF Declared(all) THEN {} ELSE At(text, "odd")}

\* What each half asked of the rest of the project.
MCFacts(half, text, all) ==
    LET asks == At(text, IF half = "typed" THEN "odd" ELSE "twin")
    IN  [asked |-> asks # {}, declared |-> asks # {} /\ Declared(all)]

TextEdit(f, start, end, replacement, place) ==
    [file |-> f, start |-> start, end |-> end, replacement |-> replacement, place |-> place]
Suggestion(confidence, set) == {[nth |-> 1, confidence |-> confidence, edits |-> set]}

\* A safe replacement; one that needs review; one that also inserts an import
\* at the top of the file; one whose edit is for another file.
MCSuggestions(f, text, x) ==
    LET fixed == TextEdit(f, x.start, x.end, <<"good">>, 1)
    IN  CASE x.message = 1 -> Suggestion(1, {fixed})
          [] x.message = 2 -> Suggestion(2, {fixed})
          [] x.message = 3 -> Suggestion(2, {TextEdit(f, x.start, x.end, << >>, 1)})
          [] x.message = 4 -> Suggestion(2, {fixed, TextEdit(f, 0, 0, <<"use">>, 2)})
          [] x.message = 5 -> Suggestion(1, {[fixed EXCEPT !.file = 3 - f]})
          [] OTHER -> {}

\* Functions, and the statements between them.
MCNodes(text) ==
    {[start |-> i - 1, end |-> CHOOSE j \in i..Len(text) : text[j] = "end"
                                   /\ \A k \in i..(j - 1) : text[k] # "end", name |-> "fn"] :
        i \in {i \in At(text, "fn") : \E j \in At(text, "end") : i <= j}}
    \cup {[start |-> i - 1, end |-> i, name |-> "top"] :
             i \in {i \in DOMAIN text : IsCode(text[i]) /\ text[i] \notin {"fn", "end"}}}

plain    == <<"fn", "bad", "nl", "bad", "end", "nl", "bad">>
moved    == <<"nl", "fn", "bad", "nl", "nl", "bad", "end", "nl", "bad">>
worse    == <<"fn", "bad", "bad", "bad", "end", "nl", "good">>
trailing == <<"odd", "ignOdd", "nl", "bad">>
cloaked  == <<"ignUnused", "nl", "ignBad", "good">>
wrong    == <<"bad", "ignWrong", "ignInactive", "nl", "bad", "nl", "ignBad">>
foreign  == <<"ignoreNextLine", "nl", "bad", "odd", "nl", "bad", "ignoreLine">>
some     == <<"ignoreSome", "nl", "twin", "nl", "docOdd", "nl", "fn", "odd", "end">>
clashing == <<"twin", "bad", "nl", "wild", "wild">>
far      == <<"far", "bad">>
defines  == <<"def">>
marked   == <<"bom", "bad", "raw">>
nothing  == <<"good">>

Project(first, second) == <<first, second>>
MCInitialDisks ==
    {Project(plain, nothing), Project(trailing, nothing), Project(some, defines),
     Project(clashing, far), Project(marked, nothing)}

\* A file with a byte-order mark and a malformed sequence, neither near its fix.
MCMarkedDisks == {Project(marked, nothing)}

MCEditsOf(text) ==
    CASE text = plain    -> {moved, worse}
      [] text = trailing -> {cloaked, foreign}
      [] text = some     -> {wrong}
      [] text = defines  -> {nothing}
      [] text = nothing  -> {defines}
      [] text = clashing -> {plain}
      [] OTHER -> {}

\* What the proofs ask of the rules, these rules do: over every pair of texts of
\* the instance.
MCFiles == {plain, moved, worse, trailing, cloaked, wrong, foreign, some, clashing, far,
            marked, defines, nothing, << >>}
MCTexts == {FromBytes(bytes) : bytes \in MCFiles}
MCTokens == UNION {Range(bytes) : bytes \in MCFiles} \cup {"use", "fffd"}
MCProjects == [Files -> MCTexts]

ASSUME RulesBehave ==
    /\ \A text \in MCTexts, all \in MCProjects :
          NamesAreKept(text, all) /\ WellFormedReport(text, all)
    /\ \A bytes \in MCFiles : EditsOf(bytes) \subseteq Seq(Tokens)
    /\ \A f \in Files, all \in MCProjects : SuggestionsFit(f, all)
    /\ \A text \in MCTexts, all, other \in MCProjects : FactsDecide(text, all, other)
    /\ \A before, after \in MCProjects : Moves(before, after) => FindingsMove(before, after)
============================================================================
