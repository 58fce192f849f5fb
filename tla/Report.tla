------------------------------ MODULE Report ------------------------------
(***************************************************************************)
(* One `celerrate check` after another over the same project: analysis     *)
(* through the verdict cache, suppression, the baseline, the fix pass and  *)
(* the exit code, while the user edits, writes fail and runs are killed.   *)
(***************************************************************************)
EXTENDS Directives, Edits, Decoding

CONSTANTS
    Files,               \* file ids, in their order
    Tokens,              \* what texts are made of
    Untyped(_, _),       \* findings of the syntax and semantic rules on a text of a project
    Typed(_, _),         \* those of the typed rules
    Facts(_, _, _),      \* what the stored half of a verdict recorded about the other files
    Suggestions(_, _, _),\* what the enrichment offers for a finding of a file
    TopLevel,            \* the symbol of what no declaration encloses
    InitialDisks,        \* the projects a behaviour starts from
    EditsOf(_),          \* what the user may turn the bytes of a file into
    NoText, NoBaseline, Partial,
    MaxRuns, MaxEdits, MaxFaults   \* bounds of the instance

Projects == [Files -> Seq(Tokens)]

ASSUME ReportAssumption ==
    /\ Files \subseteq Nat /\ IsFiniteSet(Files)
    /\ Replacement \in Tokens
    /\ InitialDisks \subseteq Projects

VARIABLES
    disk,        \* the bytes of each file
    temp,        \* its `.celerrate-fix.tmp`: NoText, Partial, or a text
    baseline,    \* celerrate-baseline.toml: NoBaseline, or its entries and failures
    cache,       \* the verdict stored under each content
    pc, mode, threshold,
    contents,    \* the bytes this run read of each file
    texts,       \* and the text it decoded them to
    loaded,      \* the baseline this run read
    configured,  \* how many diagnostics the configuration itself raised
    outcome,     \* what the analysis answers
    presented,   \* what of it is reported
    hidden,      \* how many findings the baseline took out
    notices,
    pending,     \* suggestions the plan has still to consider
    considered,  \* how many it has considered
    planned,     \* the accepted edits of each file
    skipped,     \* and the suggestions that did not enter
    writing,     \* files whose planned edits are not yet applied
    errors,      \* internal errors
    verdict,
    recorded,    \* history: the occurrences the baseline file was written from, an
                 \* occurrence counted again for each copy a merge made of its entry
    recordedFrom,\* history: the texts it was written from, if nothing went wrong since
    runs, edits, faults

project == <<disk, temp, baseline, cache>>
run     == <<mode, threshold, contents, texts, loaded, configured>>
answer  == <<outcome, presented, hidden, notices>>
fixing  == <<pending, considered, planned, skipped, writing>>
history == <<recorded, recordedFrom>>
bounds  == <<runs, edits, faults>>
vars    == <<project, pc, run, answer, fixing, errors, verdict, history, bounds>>

----------------------------------------------------------------------------
(* The total order of diagnostics and of their suggestions                  *)

Lex(s, t) ==
    \E i \in DOMAIN s : s[i] < t[i] /\ \A j \in 1..(i - 1) : s[j] = t[j]

On(f, x) == [file |-> f, finding |-> x]
Place(d) == <<d.file, d.finding.start, d.finding.end, d.finding.id, d.finding.message>>
Precedes(d, e) == Lex(Place(d), Place(e))

----------------------------------------------------------------------------
(* The analysis of one file                                                 *)

UntypedPortion(text, all) ==
    RetainUnsuppressed(text, SuppressionDirectives(text), Untyped(text, all))
TypedPortion(text, all) ==
    RetainUnsuppressed(text, SuppressionDirectives(text), Typed(text, all))

\* Both halves, and the reporting phase over the union of what they matched.
Composed(text, untyped, typed) ==
    untyped.diagnostics \cup typed.diagnostics
        \cup ReportingPhase(text, SuppressionDirectives(text), untyped.matched \cup typed.matched)

\* Mutant: the stored records remember typed matches too.
Merged(text, all) ==
    LET typed == TypedPortion(text, all)
    IN  [untyped |-> [UntypedPortion(text, all) EXCEPT !.matched = @ \cup typed.matched],
         facts   |-> Facts("untyped", text, all),
         typed   |-> typed, typedFacts |-> Facts("typed", text, all)]

Verdict(text, all) ==
    [untyped |-> UntypedPortion(text, all), facts |-> Facts("untyped", text, all),
     typed   |-> TypedPortion(text, all),   typedFacts |-> Facts("typed", text, all)]

\* A verdict is stored under the hash of the raw bytes.  A stored half is served
\* while every fact it recorded still holds; a discarded untyped half takes the
\* typed one down with it.
Hit(bytes, all) ==
    bytes \in DOMAIN cache /\ cache[bytes].facts = Facts("untyped", FromBytes(bytes), all)
TypedServed(bytes, all) ==
    Hit(bytes, all) /\ cache[bytes].typedFacts = Facts("typed", FromBytes(bytes), all)

AnalyzeOne(bytes, all) ==
    LET text == FromBytes(bytes)
    IN  Composed(text,
                 IF Hit(bytes, all) THEN cache[bytes].untyped ELSE UntypedPortion(text, all),
                 IF TypedServed(bytes, all) THEN cache[bytes].typed ELSE TypedPortion(text, all))

----------------------------------------------------------------------------
(* The baseline                                                             *)

Symbol(text, offset) ==
    LET around == {n \in Nodes(text) : n.name # TopLevel /\ n.start <= offset /\ offset < n.end}
    IN  IF around = {} THEN TopLevel
        ELSE (CHOOSE n \in around :
                  \A m \in around : n.end - n.start <= m.end - m.start).name

\* Mutant: the key is the line, not the declaration.
LineKey(d) ==
    [file |-> d.file, id |-> d.finding.id,
     symbol |-> LineOf(texts[d.file], d.finding.start), message |-> d.finding.message]

Fingerprint(d) ==
    [file |-> d.file, id |-> d.finding.id,
     symbol |-> Symbol(texts[d.file], d.finding.start), message |-> d.finding.message]

Counts(diagnostics) ==
    [key \in {Fingerprint(d) : d \in diagnostics} |->
        Cardinality({d \in diagnostics : Fingerprint(d) = key})]

Count(entries, key) == IF key \in DOMAIN entries THEN entries[key] ELSE 0

\* Which of its key's occurrences a finding is, in the order of the report.
Occurrence(d, diagnostics) ==
    Cardinality({e \in diagnostics : Fingerprint(e) = Fingerprint(d) /\ ~Precedes(d, e)})

\* Mutant: an entry hides every occurrence of its key.
Unrecorded(diagnostics, entries) ==
    {d \in diagnostics : Fingerprint(d) \notin DOMAIN entries}

Unhidden(diagnostics, entries) ==
    {d \in diagnostics : Occurrence(d, diagnostics) > Count(entries, Fingerprint(d))}

Obsolete(diagnostics, entries) ==
    {key \in DOMAIN entries : Count(Counts(diagnostics), key) < entries[key]}

----------------------------------------------------------------------------
(* A run starts                                                             *)

NoEntries == [key \in {} |-> 0]
Written(entries) == [entries |-> entries, failures |-> FALSE]
NoFixes == [f \in Files |-> {}]

Decoded(all) == [f \in Files |-> FromBytes(all[f])]

Init ==
    /\ disk \in InitialDisks
    /\ temp = [f \in Files |-> NoText]
    /\ baseline = NoBaseline
    /\ cache = [bytes \in {} |-> NoText]
    /\ pc = "idle"
    /\ mode = "apply" /\ threshold = 0
    /\ contents = disk /\ texts = Decoded(contents)
    /\ loaded = NoBaseline
    /\ configured = 0
    /\ outcome = {} /\ presented = {} /\ hidden = 0 /\ notices = {}
    /\ pending = {} /\ considered = 0 /\ planned = NoFixes /\ skipped = {} /\ writing = {}
    /\ errors = {}
    /\ verdict = "clean"
    /\ recorded = NoEntries /\ recordedFrom = NoBaseline
    /\ runs = 0 /\ edits = 0 /\ faults = 0

Idle == pc \in {"idle", "done"}

Fault == faults < MaxFaults /\ faults' = faults + 1
NoFault == UNCHANGED faults

\* A file that cannot be read enters the analyzed set empty.
Read(unreadable) == [f \in Files |-> IF f \in unreadable THEN << >> ELSE disk[f]]

Start ==
    /\ Idle /\ runs < MaxRuns
    /\ \E unreadable \in {{}} \cup {{f} : f \in Files} :
        /\ IF unreadable = {} THEN NoFault ELSE Fault
        /\ contents' = Read(unreadable)
        /\ errors' = {[kind |-> "unreadable", file |-> f] : f \in unreadable}
    /\ texts' = Decoded(contents')
    /\ mode' \in {"apply", "record", "ignore"}
    /\ threshold' \in 0..2
    /\ configured' \in 0..1
    /\ loaded' = baseline
    /\ pc' = "analyze"
    /\ pending' = {} /\ considered' = 0 /\ planned' = NoFixes
    /\ skipped' = {} /\ writing' = {}
    /\ outcome' = {} /\ presented' = {} /\ hidden' = 0 /\ notices' = {}
    /\ runs' = runs + 1
    /\ UNCHANGED <<project, verdict, history, edits>>

LoopPanic == [kind |-> "analysis", file |-> 0]

\* Analysis, one file at a time behind a panic guard; nothing runs that could
\* panic for a file served whole.
Analyze ==
    /\ pc = "analyze"
    /\ \E panicked \in {{}} \cup {{f} : f \in Files} :
        /\ IF panicked = {} THEN NoFault ELSE Fault
        /\ \A f \in panicked : ~TypedServed(contents[f], texts)
        /\ outcome' = UNION {{On(f, x) : x \in AnalyzeOne(contents[f], texts)} : f \in Files \ panicked}
        /\ errors' = errors \cup {[kind |-> "panicked", file |-> f] : f \in panicked}
    /\ pc' = "baseline"
    /\ UNCHANGED <<project, run, presented, hidden, notices, fixing, verdict, history, runs, edits>>

\* A panic outside every guard leaves an answer with nothing in it.
AnalysisPanics ==
    /\ pc = "analyze" /\ Fault
    /\ errors' = errors \cup {LoopPanic}
    /\ pc' = "baseline"
    /\ UNCHANGED <<project, run, answer, fixing, verdict, history, runs, edits>>

----------------------------------------------------------------------------
(* The baseline step                                                        *)

\* `--baseline`: the file becomes the current findings, all of them hidden.  A
\* clean project rewrites a file that exists and creates none.
Record ==
    /\ pc = "baseline" /\ mode = "record"
    /\ LET entries == Counts(outcome)
       IN  baseline' = IF entries = NoEntries /\ baseline = NoBaseline
                       THEN NoBaseline ELSE Written(entries)
    /\ presented' = {} /\ hidden' = Cardinality(outcome)
    /\ recorded' = Counts(UNION {{On(f, x) : x \in Composed(texts[f],
                                        UntypedPortion(texts[f], texts),
                                        TypedPortion(texts[f], texts))} : f \in Files})
    /\ recordedFrom' = IF errors = {} THEN texts ELSE NoBaseline
    /\ pc' = "persist"
    /\ UNCHANGED <<disk, temp, cache, run, outcome, notices, fixing, errors, verdict, bounds>>

\* The write failed: the run ends there, nothing else of it happens.
RecordFails ==
    /\ pc = "baseline" /\ mode = "record" /\ Fault
    /\ verdict' = "internalError"
    /\ pc' = "idle"
    /\ UNCHANGED <<project, run, answer, fixing, errors, history, runs, edits>>

Apply ==
    /\ pc = "baseline" /\ mode = "apply"
    /\ IF loaded = NoBaseline
       THEN presented' = outcome /\ hidden' = 0 /\ notices' = {}
       ELSE /\ presented' = Unhidden(outcome, loaded.entries)
            /\ hidden' = Cardinality(outcome) - Cardinality(presented')
            /\ notices' = {n \in {"invalid", "obsolete"} :
                  IF n = "invalid" THEN loaded.failures
                  ELSE Obsolete(outcome, loaded.entries) # {}}
    /\ pc' = "persist"
    /\ UNCHANGED <<project, run, outcome, fixing, errors, verdict, history, bounds>>

Ignore ==
    /\ pc = "baseline" /\ mode = "ignore"
    /\ presented' = outcome
    /\ pc' = "persist"
    /\ UNCHANGED <<project, run, outcome, hidden, notices, fixing, errors, verdict, history, bounds>>

----------------------------------------------------------------------------
(* Persisting, and the plan                                                 *)

\* A diagnostic whose rendering fails is left out of the output and counted.
RenderFails ==
    /\ pc = "persist" /\ Fault
    /\ errors' = errors \cup {[kind |-> "render", file |-> 0]}
    /\ UNCHANGED <<project, pc, run, answer, fixing, verdict, history, runs, edits>>

Panicked == {f \in Files : [kind |-> "panicked", file |-> f] \in errors}

\* What the user is shown is not what is stored: verdicts come from the analysis.
Persist ==
    /\ pc = "persist"
    /\ \/ /\ NoFault
          /\ cache' = [bytes \in {contents[f] : f \in Files \ Panicked} |->
                          Verdict(FromBytes(bytes), texts)]
       \/ Fault /\ UNCHANGED cache
    /\ pc' = IF threshold = 0 THEN "finish" ELSE "plan"
    /\ pending' = IF threshold = 0 THEN {}
                  ELSE UNION {{[diagnostic |-> d, suggestion |-> s] :
                                  s \in Suggestions(d.file, texts[d.file], d.finding)} :
                                      d \in presented}
    /\ UNCHANGED <<disk, temp, baseline, run, answer, considered, planned, skipped, writing,
                   errors, verdict, history, runs, edits>>

Candidate(c) ==
    /\ c \in pending
    /\ \A other \in pending :
        ~Lex(Place(other.diagnostic) \o <<other.suggestion.nth>>,
             Place(c.diagnostic) \o <<c.suggestion.nth>>)

Considering(c) ==
    /\ pc = "plan"
    /\ Candidate(c)
    /\ pending' = pending \ {c}
    /\ considered' = considered + 1
    /\ UNCHANGED <<project, pc, run, answer, writing, errors, verdict, history, bounds>>

Admitted(c) == c.suggestion.confidence <= threshold /\ c.suggestion.edits # {}
Foreign(c) == \E e \in c.suggestion.edits : e.file # c.diagnostic.file

\* A suggestion enters whole or not at all.
OwnEdits(c) ==
    {[start |-> e.start, end |-> e.end, replacement |-> e.replacement,
      fix |-> considered, place |-> e.place] : e \in c.suggestion.edits}
Trial(c) == planned[c.diagnostic.file] \cup OwnEdits(c)

Skip(c, reason) ==
    skipped' = skipped \cup {[file |-> c.diagnostic.file, fix |-> considered, reason |-> reason,
                              edits |-> OwnEdits(c)]}

PassOver ==
    \E c \in pending :
        /\ Considering(c) /\ ~Admitted(c)
        /\ UNCHANGED <<planned, skipped>>

SkipForeign ==
    \E c \in pending :
        /\ Considering(c) /\ Admitted(c) /\ Foreign(c)
        /\ Skip(c, "foreignFile")
        /\ UNCHANGED planned

SkipOverlap ==
    \E c \in pending :
        /\ Considering(c) /\ Admitted(c) /\ ~Foreign(c) /\ FindConflict(Trial(c))
        /\ Skip(c, "overlap")
        /\ UNCHANGED planned

Accept ==
    \E c \in pending :
        /\ Considering(c) /\ Admitted(c) /\ ~Foreign(c) /\ ~FindConflict(Trial(c))
        /\ planned' = [planned EXCEPT ![c.diagnostic.file] = Trial(c)]
        /\ UNCHANGED skipped

Planned ==
    /\ pc = "plan" /\ pending = {}
    /\ writing' = {f \in Files : planned[f] # {}}
    /\ pc' = "write"
    /\ UNCHANGED <<project, run, answer, pending, considered, planned, skipped,
                   errors, verdict, history, bounds>>

----------------------------------------------------------------------------
(* Applying the plan, one file at a time: a sibling temporary, a rename     *)

Current == CHOOSE f \in writing : \A g \in writing : f <= g

Fail(f) ==
    /\ errors' = errors \cup {[kind |-> "fix", file |-> f]}
    /\ writing' = writing \ {f}
    /\ pc' = "write"

ApplyingLeaves == <<baseline, cache, run, answer, pending, considered, planned, skipped,
                    verdict, history, runs, edits>>

OpenTemp ==
    /\ pc = "write" /\ writing # {}
    /\ temp' = [temp EXCEPT ![Current] = Partial]
    /\ pc' = "fill"
    /\ UNCHANGED <<disk, writing, errors, faults, ApplyingLeaves>>

FillTemp ==
    /\ pc = "fill"
    /\ temp' = [temp EXCEPT ![Current] = Splice(texts[Current], planned[Current])]
    /\ pc' = "rename"
    /\ UNCHANGED <<disk, writing, errors, faults, ApplyingLeaves>>

Rename ==
    /\ pc = "rename"
    /\ disk' = [disk EXCEPT ![Current] = temp[Current]]
    /\ temp' = [temp EXCEPT ![Current] = NoText]
    /\ writing' = writing \ {Current}
    /\ pc' = "write"
    /\ UNCHANGED <<errors, faults, ApplyingLeaves>>

\* A file that cannot be patched is passed over before its temporary is opened.
Unappliable ==
    /\ pc = "write" /\ writing # {} /\ Fault
    /\ Fail(Current)
    /\ UNCHANGED <<disk, temp, ApplyingLeaves>>

\* The temporary cannot be written or renamed; removing it may fail as well.
ApplyFails ==
    /\ pc \in {"fill", "rename"} /\ Fault
    /\ Fail(Current)
    /\ temp' \in {temp, [temp EXCEPT ![Current] = NoText]}
    /\ UNCHANGED <<disk, ApplyingLeaves>>

----------------------------------------------------------------------------
(* The exit code; the world outside                                         *)

\* Mutant: diagnostics mask an internal error.
Masked(diagnostics, internal) ==
    IF diagnostics > 0 THEN "diagnosticsReported"
    ELSE IF internal > 0 THEN "internalError" ELSE "clean"

\* The count is of the analysis, less what the baseline hid: fixes that were
\* applied are still reported.
OutcomeOf(diagnostics, internal) ==
    IF internal > 0 THEN "internalError"
    ELSE IF diagnostics > 0 THEN "diagnosticsReported" ELSE "clean"

Finish ==
    /\ pc = "finish" \/ (pc = "write" /\ writing = {})
    /\ verdict' = OutcomeOf(Cardinality(outcome) - hidden + configured, Cardinality(errors))
    /\ pc' = "done"
    /\ UNCHANGED <<project, run, answer, fixing, errors, history, bounds>>

\* The output cannot be written: the run ends there, before or after the cache
\* is persisted and the fixes are applied.
OutputFails ==
    /\ pc \in {"persist", "finish"} \/ (pc = "write" /\ writing = {})
    /\ Fault
    /\ verdict' = "internalError"
    /\ pc' = "idle"
    /\ UNCHANGED <<project, run, answer, fixing, errors, history, runs, edits>>

Kill ==
    /\ ~Idle /\ Fault
    /\ verdict' = "killed"
    /\ pc' = "idle"
    /\ UNCHANGED <<project, run, answer, fixing, errors, history, runs, edits>>

Edit ==
    /\ edits < MaxEdits
    /\ \E f \in Files : \E bytes \in EditsOf(disk[f]) :
        /\ bytes # disk[f]
        /\ disk' = [disk EXCEPT ![f] = bytes]
    /\ edits' = edits + 1
    /\ UNCHANGED <<temp, baseline, cache, pc, run, answer, fixing, errors, verdict, history,
                   runs, faults>>

\* Between two runs, a merge loses entries of the baseline file or leaves some of
\* them twice, whose counts add up; or the file is deleted.
LoseEntries ==
    /\ \E lost \in (SUBSET DOMAIN baseline.entries) \ {{}} :
        baseline' = [entries  |-> Restrict(baseline.entries, DOMAIN baseline.entries \ lost),
                     failures |-> TRUE]
    /\ recordedFrom' = NoBaseline
    /\ UNCHANGED recorded

Doubled(counts, keys) ==
    [key \in DOMAIN counts |-> IF key \in keys THEN 2 * counts[key] ELSE counts[key]]

DoubleEntries ==
    /\ \E twice \in (SUBSET DOMAIN baseline.entries) \ {{}} :
        /\ baseline' = [baseline EXCEPT !.entries = Doubled(@, twice)]
        /\ recorded' = Doubled(recorded, twice)
    /\ recordedFrom' = NoBaseline

DeleteBaseline ==
    /\ baseline' = NoBaseline
    /\ recorded' = NoEntries /\ recordedFrom' = NoBaseline

EditBaseline ==
    /\ Idle /\ edits < MaxEdits /\ baseline # NoBaseline
    /\ LoseEntries \/ DoubleEntries \/ DeleteBaseline
    /\ edits' = edits + 1
    /\ pc' = "idle"
    /\ UNCHANGED <<disk, temp, cache, run, answer, fixing, errors, verdict, runs, faults>>

Next ==
    \/ Start \/ Analyze \/ AnalysisPanics
    \/ Record \/ RecordFails \/ Apply \/ Ignore
    \/ RenderFails \/ Persist
    \/ PassOver \/ SkipForeign \/ SkipOverlap \/ Accept \/ Planned
    \/ OpenTemp \/ FillTemp \/ Rename \/ Unappliable \/ ApplyFails
    \/ Finish \/ OutputFails
    \/ Kill \/ Edit \/ EditBaseline

Spec == Init /\ [][Next]_vars

----------------------------------------------------------------------------
(* Properties                                                               *)

\* The analysis has just answered; the baseline has just been applied.
Analyzed == pc = "baseline"
Decided  == pc = "persist"

Findings(f) == {d.finding : d \in {d \in outcome : d.file = f}}

\* The report of a text under a given set of directives, nothing cached.
Cold(text, directives) ==
    LET untyped == RetainUnsuppressed(text, directives, Untyped(text, texts))
        typed   == RetainUnsuppressed(text, directives, Typed(text, texts))
    IN  untyped.diagnostics \cup typed.diagnostics
            \cup ReportingPhase(text, directives, untyped.matched \cup typed.matched)

\* Whatever mix of stored and recomputed halves served a file, its report is
\* the one a run without a cache composes, the directive findings included.
WarmReportsAreCold ==
    (Analyzed /\ LoopPanic \notin errors) =>
        \A f \in Files \ Panicked :
            Findings(f) = Cold(texts[f], SuppressionDirectives(texts[f]))

\* A directive reported as unused can be deleted: the report loses that finding
\* and changes nowhere else, so no directive is called useless that hides one.
UnusedIsRemovable ==
    Analyzed => \A f \in Files : \A x \in Findings(f) :
        x.id = UNUSED =>
            Findings(f) \ {x} = Cold(texts[f], SuppressionDirectives(texts[f]) \ x.subject)

Shown(diagnostics, key) == Count(Counts(diagnostics), key)

\* A run never hides more occurrences of a finding than the last recording saw,
\* twice as many where a merge has left its entry twice, however many entries
\* the file has lost; and while the file is as it was recorded it hides exactly
\* those and announces any surplus.
BaselineHidesOnlyRecorded ==
    (Decided /\ mode = "apply") =>
        /\ presented \subseteq outcome
        /\ \A key \in DOMAIN Counts(outcome) :
            /\ Shown(presented, key) + Count(recorded, key) >= Shown(outcome, key)
            /\ (recordedFrom # NoBaseline /\ Shown(presented, key) > 0) =>
                   Shown(presented, key) + Count(recorded, key) = Shown(outcome, key)
        /\ recordedFrom # NoBaseline =>
            ("obsolete" \in notices <=>
                \E key \in DOMAIN recorded : Shown(outcome, key) < recorded[key])

Code(text) == SelectSeq(text, LAMBDA token : token \notin Blank)

\* A text whose code stands on other lines; a comment on another line would be
\* a directive for another line.
Moved(before, after) ==
    /\ Code(before) = Code(after)
    /\ Comments(before) = {} /\ Comments(after) = {}

Moves(before, after) ==
    \A f \in Files : before[f] = after[f] \/ Moved(before[f], after[f])

\* A recorded finding stays hidden when code moves to other lines: the run
\* after it reports nothing and has nothing to say of the baseline.
BaselineSurvivesMoves ==
    ( /\ Decided /\ mode = "apply" /\ errors = {}
      /\ recordedFrom # NoBaseline /\ Moves(recordedFrom, texts) )
        => presented = {} /\ notices = {}

\* The accepted edits of a file can stand together in any order, and a fix was
\* skipped only for an edit that an earlier accepted one, or another of its
\* own, excludes: the first wins and nothing is skipped for nothing.
PlanIsGreedy ==
    /\ \A f \in Files : \A e, g \in planned[f] : e # g => Apart(e, g)
    /\ \A s \in skipped : s.reason = "overlap" =>
        \E e \in s.edits : \E g \in s.edits \cup planned[s.file] :
            e # g /\ ~Apart(e, g) /\ g.fix <= s.fix

Whole(f) ==
    \A fix \in {e.fix : e \in planned[f]} :
        \E d \in presented : \E s \in Suggestions(f, texts[f], d.finding) :
            /\ d.file = f /\ s.confidence <= threshold
            /\ {<<e.start, e.end, e.replacement>> : e \in s.edits}
                   = {<<e.start, e.end, e.replacement>> : e \in {e \in planned[f] : e.fix = fix}}

\* No step leaves a file half written: the tool replaces it by the text it
\* decoded with whole suggestions of reported findings applied, or not at all;
\* and where the decoding lost nothing that is the file itself, patched.
OnlyWholeFixesLand ==
    [][\A f \in Files : disk'[f] # disk[f] /\ edits' = edits =>
            /\ disk'[f] = Patched(FromBytes(contents[f]), planned[f])
            /\ IsPristine(contents[f]) => disk'[f] = Patched(contents[f], planned[f])
            /\ Whole(f)]_disk

\* What `is_pristine` asks of those who write fixes: a rewritten file differs from
\* the bytes that were read only where a planned edit is, its byte-order mark
\* and its malformed bytes included.
FixesKeepOtherBytes ==
    [][\A f \in Files : disk'[f] # disk[f] /\ edits' = edits =>
            disk'[f] = Mark(contents[f]) \o Patched(Content(contents[f]), planned[f])]_disk

\* Exit 0 is a promise about the project: every finding a run without a cache
\* would compose is in the baseline, the configuration is sound, and nothing
\* failed, not even a fix; exit 1 says something was shown.
VerdictIsHonest ==
    pc = "done" =>
        /\ (verdict = "internalError") <=> (errors # {})
        /\ verdict = "diagnosticsReported" => presented # {} \/ configured > 0
        /\ verdict = "clean" =>
            /\ configured = 0 /\ presented = {}
            /\ mode = "ignore" => \A f \in Files : Cold(texts[f], SuppressionDirectives(texts[f])) = {}
            /\ mode = "apply" =>
                \A f \in Files : \A x \in Cold(texts[f], SuppressionDirectives(texts[f])) :
                    Count(recorded, Fingerprint(On(f, x))) > 0
----------------------------------------------------------------------------
(* What is asked of the rules, of one text or one project at a time          *)

\* What a stored half recorded decides what it found: two projects that answer
\* its recorded questions alike have the same findings in the file.
FactsDecide(text, all, other) ==
    /\ Facts("untyped", text, all) = Facts("untyped", text, other) =>
          Untyped(text, all) = Untyped(text, other)
    /\ Facts("typed", text, all) = Facts("typed", text, other) =>
          Typed(text, all) = Typed(text, other)

FindingsOf(text, all) == Untyped(text, all) \cup Typed(text, all)

\* No rule reports under the reporting phase's own identifier.
NamesAreKept(text, all) == \A x \in FindingsOf(text, all) : x.id # UNUSED

Numbered(x) == x.start \in Nat /\ x.end \in Nat /\ x.id \in Nat /\ x.message \in Nat

SamePlace(x, y) ==
    x.start = y.start /\ x.end = y.end /\ x.id = y.id /\ x.message = y.message

\* A file's report is finite, and no two of its findings are the same words at
\* the same place.
WellFormedReport(text, all) ==
    LET report == Composed(text, UntypedPortion(text, all), TypedPortion(text, all))
    IN  /\ IsFiniteSet(report)
        /\ \A x \in report : Numbered(x)
        /\ \A x, y \in report : SamePlace(x, y) => x = y

\* Two findings an entry of the baseline does not tell apart.
SameWords(text, x, other, y) ==
    /\ x.id = y.id /\ x.message = y.message
    /\ Symbol(text, x.start) = Symbol(other, y.start)

\* What the enrichment offers is finitely many edits, each a range and a text, no
\* two of them the same position of the suggestion.
WellFormed(s) ==
    /\ IsFiniteSet(s.edits)
    /\ \A e \in s.edits : Ranged(e) /\ e.place \in Nat /\ e.replacement \in Seq(Tokens)
    /\ \A e, g \in s.edits : e.place = g.place => e = g

\* And its edits of the file the finding is in are of text the file has.
SuggestionsFit(f, all) ==
    \A x \in Composed(all[f], UntypedPortion(all[f], all), TypedPortion(all[f], all)) :
        \A s \in Suggestions(f, all[f], x) :
            WellFormed(s) /\ \A e \in s.edits : e.file = f => e.end <= Len(all[f])

\* What the rules find is found again where the code went: a file that moved has
\* the same findings, one for one, and a file that did not has the same.
FindingsMove(before, after) ==
    \A f \in Files :
        IF before[f] = after[f]
        THEN /\ Untyped(after[f], after) = Untyped(before[f], before)
             /\ Typed(after[f], after) = Typed(before[f], before)
        ELSE \E move \in Bijection(FindingsOf(before[f], before), FindingsOf(after[f], after)) :
                 \A x \in FindingsOf(before[f], before) :
                     SameWords(before[f], x, after[f], move[x])
============================================================================
