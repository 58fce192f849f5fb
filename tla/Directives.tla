---------------------------- MODULE Directives ----------------------------
(***************************************************************************)
(* Suppression directives of one file: comment_directives.rs resolves      *)
(* them, analysis.rs filters findings through them, and the reporting      *)
(* phase of phases.rs reports the ones that are wrong or useless.          *)
(*                                                                         *)
(* A text is a sequence of tokens and an offset counts tokens, so token i  *)
(* covers [i - 1, i).  No token spans two lines.                           *)
(***************************************************************************)
EXTENDS Naturals, Sequences, FiniteSets

CONSTANTS
    Newline,
    Blank,          \* whitespace tokens, Newline among them
    DirectivesIn,   \* what each comment token says: [scope, origin, identifiers]
    Nodes(_),       \* the nodes of a text a docblock may annotate: [start, end, name]
    Known,          \* registered identifiers, as the numbers of their codes
    Inactive        \* those of rules outside the active set

\* The two identifiers of the reporting rules.
UNKNOWN == 41
UNUSED  == 42

ASSUME DirectivesAssumption ==
    /\ Newline \in Blank
    /\ Blank \cap DOMAIN DirectivesIn = {}
    /\ {UNKNOWN, UNUSED} \subseteq Known

Span(start, end) == [start |-> start, end |-> end]

----------------------------------------------------------------------------
(* Lines                                                                    *)

LineStarts(text) == {0} \cup {i \in DOMAIN text : text[i] = Newline}
LineOf(text, offset) == Cardinality({s \in LineStarts(text) : s <= offset}) - 1
LineExists(text, line) == line < Cardinality(LineStarts(text))
LineStart(text, line) == CHOOSE s \in LineStarts(text) : LineOf(text, s) = line

\* The empty set when the first line does not exist, else the one range.
WholeLines(text, first, last) ==
    {Span(LineStart(text, first),
          IF LineExists(text, last + 1) THEN LineStart(text, last + 1) ELSE Len(text)) :
        line \in {l \in {first} : LineExists(text, l)}}

----------------------------------------------------------------------------
(* The scope of a directive carried by token i                              *)

IsCode(token) == token \notin Blank \cup DOMAIN DirectivesIn

CodeAdjacent(text, i) ==
    \E j \in DOMAIN text :
        /\ IsCode(text[j])
        /\ LineOf(text, j - 1) = LineOf(text, i - 1)

\* A docblock annotates the node that follows it past whitespace.
Annotated(text, i) ==
    {Span(n.start, n.end) : n \in
        {n \in Nodes(text) : n.start >= i /\ \A j \in (i + 1)..n.start : text[j] \in Blank}}

Outermost(spans) == {s \in spans : \A other \in spans : other.end <= s.end}

ResolvedScope(text, i, scope) ==
    LET line  == LineOf(text, i - 1)
        here  == WholeLines(text, line, line)
        below == WholeLines(text, line + 1, line + 1)
        both  == WholeLines(text, line, line + 1)
        node  == Outermost(Annotated(text, i))
    IN  CASE scope = "currentLine" -> here
          [] scope = "nextLine" -> below
          [] scope = "currentAndNextLine" -> both
          [] scope = "annotatedDeclaration" -> IF node # {} THEN node ELSE both
          [] scope = "trailingOrNextLine" ->
                IF CodeAdjacent(text, i) THEN here
                ELSE IF below # {} THEN below ELSE {Span(Len(text), Len(text))}

----------------------------------------------------------------------------
(* What a directive admits                                                  *)

\* Every finding carries a registered identifier.
All == Known

\* A foreign identifier maps to registered codes or widens the directive; a
\* native one that is not registered admits nothing.
FilterOf(origin, identifiers) ==
    IF origin = "foreign" /\ (identifiers = {} \/ ~(identifiers \subseteq Known))
    THEN All
    ELSE identifiers \cap Known

Resolved(i, scope, said) ==
    [anchor |-> Span(i - 1, i), scope |-> scope, origin |-> said.origin,
     identifiers |-> said.identifiers, filter |-> FilterOf(said.origin, said.identifiers)]

Comments(text) == {i \in DOMAIN text : text[i] \in DOMAIN DirectivesIn}

SuppressionDirectives(text) ==
    UNION {UNION {{Resolved(i, scope, said) : scope \in ResolvedScope(text, i, said.scope)} :
                      said \in DirectivesIn[text[i]]} :
               i \in Comments(text)}

InScope(scope, offset, textEnd) ==
    /\ offset >= scope.start
    /\ offset < scope.end \/ (offset = scope.end /\ scope.end = textEnd)

Admits(directive, id, offset, textEnd) ==
    /\ InScope(directive.scope, offset, textEnd)
    /\ id \in directive.filter

\* One filtered half of a file's findings, with every directive that admitted
\* one of them: several may admit the same finding, and all count as used.
RetainUnsuppressed(text, directives, findings) ==
    LET admitting(x) == {d \in directives : Admits(d, x.id, x.start, Len(text))}
    IN  [diagnostics |-> {x \in findings : admitting(x) = {}},
         matched     |-> UNION {admitting(x) : x \in findings}]

----------------------------------------------------------------------------
(* The reporting phase                                                      *)

OnDirective(id, directive, message) ==
    [id |-> id, start |-> directive.anchor.start, end |-> directive.anchor.end,
     message |-> message, subject |-> {directive}]

Unknowns(directives) ==
    UNION {{OnDirective(UNKNOWN, d, written) : written \in d.identifiers \ Known} :
               d \in {d \in directives : d.origin = "native" /\ UNKNOWN \notin Inactive}}

Evaluable(d) == d.identifiers \subseteq Known \ Inactive

Unuseds(directives, matched) ==
    {OnDirective(UNUSED, d, 0) :
        d \in {d \in directives \ matched :
                  d.origin = "native" /\ Evaluable(d) /\ UNUSED \notin Inactive}}

\* Mutant: what a directive admits in this pass is forgotten.
StillUnused(text, directives, matched) ==
    LET findings == Unknowns(directives) \cup Unuseds(directives, matched)
    IN  {x \in findings :
            ~\E d \in directives \ x.subject : Admits(d, x.id, x.start, Len(text))}

\* One pass and no fixpoint: a directive never admits a finding about itself,
\* and one that admitted a finding about another is no longer unused.
ReportingPhase(text, directives, matched) ==
    LET findings == Unknowns(directives) \cup Unuseds(directives, matched)
        admitting(x) == {d \in directives \ x.subject : Admits(d, x.id, x.start, Len(text))}
        used == UNION {admitting(x) : x \in findings}
    IN  {x \in findings :
            /\ admitting(x) = {}
            /\ x.id = UNUSED => x.subject \cap used = {}}
============================================================================
