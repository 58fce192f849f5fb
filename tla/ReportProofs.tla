--------------------------- MODULE ReportProofs ---------------------------
(***************************************************************************)
(* What the proof system checks of Report, for any project, any rules, any *)
(* number of suggestions, runs, edits and faults: a warm report is a cold  *)
(* one, a directive called unused can go, the plan is greedy, and only     *)
(* whole fixes land on disk.                                               *)
(***************************************************************************)
EXTENDS Report, EditsProofs, FiniteSetTheorems, TLAPS

(***************************************************************************)
(* Decoding: the bytes of a file and the text read in them.                *)
(***************************************************************************)

LEMMA ContentIsSequence ==
    ASSUME NEW bytes \in Seq(Tokens)
    PROVE  Content(bytes) \in Seq(Tokens)
<1>1. Len(bytes) > 0 => Tail(bytes) \in Seq(Tokens)
  OBVIOUS
<1> QED
  BY <1>1 DEF Content, HadBom

LEMMA DecodesToText ==
    ASSUME NEW bytes \in Seq(Tokens)
    PROVE  FromBytes(bytes) \in Seq(Tokens)
<1> DEFINE content == Content(bytes)
<1>1. content \in Seq(Tokens) /\ Replacement \in Tokens
  BY ContentIsSequence, ReportAssumption
<1> HIDE DEF content
<1>2. DOMAIN content = 1..Len(content) /\ Len(content) \in Nat
      /\ \A i \in DOMAIN content : content[i] \in Tokens
  BY <1>1
<1>3. DecodeLossy(content) \in [1..Len(content) -> Tokens]
  BY <1>1, <1>2 DEF DecodeLossy
<1>4. DecodeLossy(content) \in Seq(Tokens)
  BY <1>2, <1>3
<1> QED
  BY <1>4 DEF FromBytes, content

LEMMA DecodedIsAProject ==
    ASSUME NEW all \in Projects
    PROVE  Decoded(all) \in Projects
BY DecodesToText DEF Decoded, Projects

\* A pristine file is the text that is read in it.
LEMMA PristineIsItsText ==
    ASSUME NEW bytes \in Seq(Tokens), IsPristine(bytes)
    PROVE  FromBytes(bytes) = bytes
<1>1. Content(bytes) = bytes /\ \A i \in DOMAIN bytes : bytes[i] # Malformed
  BY DEF IsPristine, Content
<1>2. FromBytes(bytes) = [i \in DOMAIN bytes |-> bytes[i]]
  BY <1>1 DEF FromBytes, DecodeLossy
<1>3. bytes = [i \in DOMAIN bytes |-> bytes[i]]
  OBVIOUS
<1> QED
  BY <1>2, <1>3

(***************************************************************************)
(* Directives: one that is reported as unused can be deleted.              *)
(***************************************************************************)

Admitting(text, directives, x) ==
    {d \in directives \ x.subject : Admits(d, x.id, x.start, Len(text))}
Reported(directives, matched) == Unknowns(directives) \cup Unuseds(directives, matched)
Useless(d) == OnDirective(UNUSED, d, 0)

\* A directive that matched nothing filters nothing.
LEMMA RetainWithout ==
    ASSUME NEW text, NEW directives, NEW findings, NEW d,
           d \notin RetainUnsuppressed(text, directives, findings).matched
    PROVE  RetainUnsuppressed(text, directives \ {d}, findings)
               = RetainUnsuppressed(text, directives, findings)
<1> DEFINE admitting(x, set) == {e \in set : Admits(e, x.id, x.start, Len(text))}
<1>1. \A x \in findings : d \notin admitting(x, directives)
  BY DEF RetainUnsuppressed
<1>2. \A x \in findings : admitting(x, directives \ {d}) = admitting(x, directives)
  BY <1>1
<1>3. {x \in findings : admitting(x, directives \ {d}) = {}}
          = {x \in findings : admitting(x, directives) = {}}
  BY <1>2
<1>4. UNION {admitting(x, directives \ {d}) : x \in findings}
          = UNION {admitting(x, directives) : x \in findings}
  BY <1>2
<1> QED
  BY <1>3, <1>4 DEF RetainUnsuppressed

\* What is said of a directive that is useless, without it: nothing of it, and
\* of the others what was said before.
LEMMA ReportedWithout ==
    ASSUME NEW directives, NEW matched, NEW d, Useless(d) \in Reported(directives, matched)
    PROVE  /\ d \notin matched
           /\ Reported(directives \ {d}, matched) = Reported(directives, matched) \ {Useless(d)}
<1>1. \A e : /\ Useless(e).id = UNUSED /\ Useless(e).subject = {e}
             /\ \A w : OnDirective(UNKNOWN, e, w).id = UNKNOWN
  BY DEF Useless, OnDirective
<1>2. UNKNOWN # UNUSED
  BY DEF UNKNOWN, UNUSED
<1>3. \A e : Useless(e) = Useless(d) => e = d
  BY <1>1
<1>4. \A x \in Unknowns(directives) : x # Useless(d)
  BY <1>1, <1>2 DEF Unknowns
<1>5. PICK e \in directives \ matched :
          Useless(e) = Useless(d) /\ e.origin = "native" /\ Evaluable(e)
  BY <1>4 DEF Reported, Unuseds, Useless
<1>6. e = d
  BY <1>3, <1>5
<1>7. d.identifiers \ Known = {}
  BY <1>5, <1>6 DEF Evaluable
<1>8. Unknowns(directives \ {d}) = Unknowns(directives)
  BY <1>7 DEF Unknowns
<1>9. Unuseds(directives \ {d}, matched) = Unuseds(directives, matched) \ {Useless(d)}
  BY <1>3 DEF Unuseds, Useless
<1> QED
  BY <1>4, <1>5, <1>6, <1>8, <1>9 DEF Reported

LEMMA ReportingPhaseIs ==
    ASSUME NEW text, NEW directives, NEW matched
    PROVE  ReportingPhase(text, directives, matched) =
               {x \in Reported(directives, matched) :
                   /\ Admitting(text, directives, x) = {}
                   /\ x.id = UNUSED =>
                         \A y \in Reported(directives, matched) :
                             x.subject \cap Admitting(text, directives, y) = {}}
BY DEF ReportingPhase, Reported, Admitting

\* The one pass of the reporting phase, without a directive it calls useless.
LEMMA ReportingWithout ==
    ASSUME NEW text, NEW directives, NEW matched, NEW d,
           Useless(d) \in ReportingPhase(text, directives, matched)
    PROVE  ReportingPhase(text, directives \ {d}, matched)
               = ReportingPhase(text, directives, matched) \ {Useless(d)}
<1> DEFINE all  == Reported(directives, matched)
           rest == Reported(directives \ {d}, matched)
<1>1. Useless(d).id = UNUSED /\ Useless(d).subject = {d}
  BY DEF Useless, OnDirective
<1>2. /\ Useless(d) \in all
      /\ Admitting(text, directives, Useless(d)) = {}
      /\ \A y \in all : d \notin Admitting(text, directives, y)
  BY <1>1, ReportingPhaseIs
<1>3. rest = all \ {Useless(d)}
  BY <1>2, ReportedWithout
<1>4. \A y \in all : Admitting(text, directives \ {d}, y) = Admitting(text, directives, y)
  BY <1>2 DEF Admitting
<1>5. \A x \in rest :
        (\A y \in rest : x.subject \cap Admitting(text, directives \ {d}, y) = {})
            <=> (\A y \in all : x.subject \cap Admitting(text, directives, y) = {})
  BY <1>2, <1>3, <1>4
<1> HIDE DEF all, rest
<1>6. ReportingPhase(text, directives \ {d}, matched)
        = {x \in rest : /\ Admitting(text, directives \ {d}, x) = {}
                        /\ x.id = UNUSED =>
                              \A y \in rest : x.subject \cap Admitting(text, directives \ {d}, y) = {}}
  BY ReportingPhaseIs DEF rest
<1>7. ReportingPhase(text, directives, matched)
        = {x \in all : /\ Admitting(text, directives, x) = {}
                       /\ x.id = UNUSED =>
                             \A y \in all : x.subject \cap Admitting(text, directives, y) = {}}
  BY ReportingPhaseIs DEF all
<1> QED
  BY <1>3, <1>4, <1>5, <1>6, <1>7

\* What is asked of the rules, of every text in every project.
RulesKeepTheirNames == \A text \in Seq(Tokens), all \in Projects : NamesAreKept(text, all)

\* A report says of a directive that it is useless, and is else the same when
\* the directive is deleted.
THEOREM UselessIsRemovable ==
    ASSUME RulesKeepTheirNames, NEW text \in Seq(Tokens), texts \in Projects, NEW directives,
           NEW x \in Cold(text, directives), x.id = UNUSED
    PROVE  Cold(text, directives) \ {x} = Cold(text, directives \ x.subject)
<1> DEFINE untyped == RetainUnsuppressed(text, directives, Untyped(text, texts))
           typed   == RetainUnsuppressed(text, directives, Typed(text, texts))
           matched == untyped.matched \cup typed.matched
<1>1. untyped.diagnostics \subseteq Untyped(text, texts) /\ typed.diagnostics \subseteq Typed(text, texts)
  BY DEF RetainUnsuppressed
<1>2. \A y \in untyped.diagnostics \cup typed.diagnostics : y.id # UNUSED
  BY <1>1 DEF RulesKeepTheirNames, NamesAreKept, FindingsOf
<1>3. Cold(text, directives) = untyped.diagnostics \cup typed.diagnostics
                                  \cup ReportingPhase(text, directives, matched)
  BY DEF Cold
<1>4. x \in ReportingPhase(text, directives, matched)
  BY <1>2, <1>3
<1>5. x \in Reported(directives, matched)
  BY <1>4, ReportingPhaseIs
<1>6. UNKNOWN # UNUSED
  BY DEF UNKNOWN, UNUSED
<1>7. PICK d : x = Useless(d)
  BY <1>5, <1>6 DEF Reported, Unknowns, Unuseds, OnDirective, Useless
<1>8. x.subject = {d}
  BY <1>7 DEF Useless, OnDirective
<1> HIDE DEF matched
<1>9. d \notin matched
  BY <1>5, <1>7, ReportedWithout
<1> USE DEF matched
<1>10. /\ RetainUnsuppressed(text, directives \ {d}, Untyped(text, texts)) = untyped
       /\ RetainUnsuppressed(text, directives \ {d}, Typed(text, texts)) = typed
  BY <1>9, RetainWithout
<1>11. ReportingPhase(text, directives \ {d}, matched)
         = ReportingPhase(text, directives, matched) \ {x}
  BY <1>4, <1>7, ReportingWithout
<1>12. Cold(text, directives \ {d}) = untyped.diagnostics \cup typed.diagnostics
                                  \cup ReportingPhase(text, directives \ {d}, matched)
  BY <1>10 DEF Cold
<1> QED
  BY <1>2, <1>3, <1>8, <1>11, <1>12

(***************************************************************************)
(* The verdict cache: whatever halves were served, the report is the one a *)
(* run without a cache composes.                                           *)
(***************************************************************************)

\* Recorded facts decide findings, in every project.
FactsAreSound == \A text \in Seq(Tokens), all, other \in Projects : FactsDecide(text, all, other)

\* What is stored under a content is what some project made of it.
VerdictsAreHonest ==
    \A bytes \in DOMAIN cache : \E all \in Projects : cache[bytes] = Verdict(FromBytes(bytes), all)

ColdOf(f) == Cold(texts[f], SuppressionDirectives(texts[f]))

\* The analysis has answered, and no new run has started.
Answered == pc \notin {"idle", "analyze"}

\* What this run read is of a project, and its texts are what it decoded.
ReadInvariant == contents \in Projects /\ texts \in Projects /\ texts = Decoded(contents)

AnswerInvariant ==
    /\ VerdictsAreHonest
    /\ pc = "analyze" => outcome = {} /\ \A e \in errors : e.kind = "unreadable"
    /\ Answered => \A f \in Files :
          \/ Findings(f) = ColdOf(f)
          \/ Findings(f) = {} /\ (f \in Panicked \/ LoopPanic \in errors)

\* Both halves of a verdict that is served are what they would be now.
LEMMA ServedIsRecomputed ==
    ASSUME FactsAreSound, VerdictsAreHonest, NEW bytes \in Seq(Tokens), NEW all \in Projects
    PROVE  /\ Hit(bytes, all) => cache[bytes].untyped = UntypedPortion(FromBytes(bytes), all)
           /\ TypedServed(bytes, all) => cache[bytes].typed = TypedPortion(FromBytes(bytes), all)
<1> DEFINE text == FromBytes(bytes)
<1> SUFFICES ASSUME Hit(bytes, all)
             PROVE  /\ cache[bytes].untyped = UntypedPortion(text, all)
                    /\ TypedServed(bytes, all) => cache[bytes].typed = TypedPortion(text, all)
  BY DEF TypedServed
<1>0. text \in Seq(Tokens)
  BY DecodesToText
<1>1. PICK other \in Projects : cache[bytes] = Verdict(text, other)
  BY DEF Hit, VerdictsAreHonest
<1>2. /\ cache[bytes].untyped = UntypedPortion(text, other)
      /\ cache[bytes].facts = Facts("untyped", text, other)
      /\ cache[bytes].typed = TypedPortion(text, other)
      /\ cache[bytes].typedFacts = Facts("typed", text, other)
  BY <1>1 DEF Verdict
<1>3. /\ Facts("untyped", text, other) = Facts("untyped", text, all)
      /\ TypedServed(bytes, all) => Facts("typed", text, other) = Facts("typed", text, all)
  BY <1>2 DEF Hit, TypedServed
<1> HIDE DEF text
<1>4. Untyped(text, other) = Untyped(text, all)
  BY <1>0, <1>3 DEF FactsAreSound, FactsDecide
<1>5. TypedServed(bytes, all) => Typed(text, other) = Typed(text, all)
  BY <1>0, <1>3 DEF FactsAreSound, FactsDecide
<1> QED
  BY <1>2, <1>4, <1>5 DEF UntypedPortion, TypedPortion

LEMMA AnalyzeOneIsCold ==
    ASSUME FactsAreSound, VerdictsAreHonest, NEW bytes \in Seq(Tokens), texts \in Projects
    PROVE  AnalyzeOne(bytes, texts)
              = Cold(FromBytes(bytes), SuppressionDirectives(FromBytes(bytes)))
<1> DEFINE text == FromBytes(bytes)
<1>1. AnalyzeOne(bytes, texts) = Composed(text, UntypedPortion(text, texts), TypedPortion(text, texts))
  BY ServedIsRecomputed DEF AnalyzeOne
<1> HIDE DEF text
<1>2. AnalyzeOne(bytes, texts) = Cold(text, SuppressionDirectives(text))
  BY <1>1 DEF Composed, UntypedPortion, TypedPortion, Cold
<1> QED
  BY <1>2 DEF text

LEMMA AnswerInit == Init => AnswerInvariant
BY DEF Init, AnswerInvariant, VerdictsAreHonest, Answered

LEMMA VerdictsStayHonest ==
    ASSUME VerdictsAreHonest, texts \in Projects, [Next]_vars
    PROVE  VerdictsAreHonest'
<1>1. CASE Persist
  <2>1. CASE UNCHANGED cache
    BY <2>1 DEF VerdictsAreHonest
  <2>2. CASE cache' = [bytes \in {contents[f] : f \in Files \ Panicked} |->
                          Verdict(FromBytes(bytes), texts)]
    BY <2>2 DEF VerdictsAreHonest
  <2> QED
    BY <1>1, <2>1, <2>2 DEF Persist
<1>2. CASE \/ Start \/ Analyze \/ AnalysisPanics \/ Record \/ RecordFails \/ OutputFails
           \/ RenderFails \/ Apply \/ Ignore \/ PassOver \/ SkipForeign \/ SkipOverlap
           \/ Accept \/ Planned \/ OpenTemp \/ FillTemp \/ Rename \/ Unappliable
           \/ ApplyFails \/ Finish \/ Kill \/ Edit \/ EditBaseline \/ UNCHANGED vars
  <2>1. UNCHANGED cache
    BY <1>2 DEF Start, Analyze, AnalysisPanics, Record, RecordFails, OutputFails,
                RenderFails, Apply, Ignore, PassOver, SkipForeign, SkipOverlap, Accept,
                Considering, Planned, OpenTemp, FillTemp, Rename, Unappliable, ApplyFails,
                ApplyingLeaves, Finish, Kill, Edit, EditBaseline, project, vars
  <2> QED
    BY <2>1 DEF VerdictsAreHonest
<1> QED
  BY <1>1, <1>2 DEF Next

\* The analysis answers every file that did not panic with its cold report.
LEMMA AnalysisIsCold ==
    ASSUME FactsAreSound, ReadInvariant, AnswerInvariant, Analyze
    PROVE  AnswerInvariant'
<1>1. PICK panicked \in {{}} \cup {{f} : f \in Files} :
        /\ outcome' = UNION {{On(f, x) : x \in AnalyzeOne(contents[f], texts)} : f \in Files \ panicked}
        /\ errors' = errors \cup {[kind |-> "panicked", file |-> f] : f \in panicked}
  BY DEF Analyze
<1>2. pc' = "baseline" /\ texts' = texts /\ cache' = cache
  BY DEF Analyze, run, project
<1>3. \A f \in Files : f \notin panicked => Findings(f)' = AnalyzeOne(contents[f], texts)
  <2> TAKE f \in Files
  <2> SUFFICES ASSUME f \notin panicked PROVE Findings(f)' = AnalyzeOne(contents[f], texts)
    OBVIOUS
  <2>1. \A g, x : On(g, x).file = g /\ On(g, x).finding = x
    BY DEF On
  <2>2. \A d : d \in outcome' /\ d.file = f <=> \E x \in AnalyzeOne(contents[f], texts) : d = On(f, x)
    BY <1>1, <2>1
  <2> QED
    BY <2>1, <2>2 DEF Findings
<1>4. \A f \in Files : f \in panicked => Findings(f)' = {}
  BY <1>1 DEF Findings, On
<1>5. \A f \in Files : f \in panicked => f \in Panicked'
  BY <1>1 DEF Panicked
<1>6. \A f \in Files : AnalyzeOne(contents[f], texts) = ColdOf(f)
  <2> TAKE f \in Files
  <2>1. contents[f] \in Seq(Tokens) /\ texts[f] = FromBytes(contents[f]) /\ texts \in Projects
    BY DEF ReadInvariant, Projects, Decoded
  <2> QED
    BY <2>1, AnalyzeOneIsCold DEF AnswerInvariant, ColdOf
<1>7. \A f \in Files : ColdOf(f)' = ColdOf(f)
  BY <1>2 DEF ColdOf, Cold
<1>8. VerdictsAreHonest'
  BY <1>2 DEF AnswerInvariant, VerdictsAreHonest
<1> QED
  BY <1>2, <1>3, <1>4, <1>5, <1>6, <1>7, <1>8 DEF AnswerInvariant, Answered

LEMMA AnswerNext ==
    ASSUME FactsAreSound, ReadInvariant, AnswerInvariant, [Next]_vars
    PROVE  AnswerInvariant'
<1>1. VerdictsAreHonest'
  BY VerdictsStayHonest DEF AnswerInvariant, ReadInvariant
<1>2. CASE Analyze
  BY <1>2, AnalysisIsCold
<1>3. CASE Start
  BY <1>1, <1>3 DEF Start, AnswerInvariant, Answered
<1>4. CASE AnalysisPanics
  <2>1. outcome' = {} /\ errors' = errors \cup {LoopPanic} /\ pc' = "baseline"
    BY <1>4 DEF AnalysisPanics, answer, AnswerInvariant
  <2>2. \A f \in Files : Findings(f)' = {}
    BY <2>1 DEF Findings
  <2> QED
    BY <1>1, <2>1, <2>2 DEF AnswerInvariant, Answered
<1>5. CASE \/ Edit \/ EditBaseline \/ Kill \/ RecordFails \/ OutputFails \/ RenderFails
           \/ UNCHANGED vars \/ Record \/ Apply \/ Ignore \/ Persist \/ PassOver
           \/ SkipForeign \/ SkipOverlap \/ Accept \/ Planned \/ OpenTemp \/ FillTemp
           \/ Rename \/ Unappliable \/ ApplyFails \/ Finish
  <2>1. UNCHANGED <<outcome, texts>> /\ errors \subseteq errors'
    BY <1>5 DEF Record, RecordFails, OutputFails, RenderFails, Apply, Ignore, Persist,
                PassOver, SkipForeign, SkipOverlap, Accept, Considering, Planned, OpenTemp,
                FillTemp, Rename, Unappliable, ApplyFails, Fail, ApplyingLeaves, Finish,
                Kill, Edit, EditBaseline, answer, run, vars
  <2>2. /\ pc' = "analyze" => pc = "analyze" /\ errors' = errors
        /\ Answered' => Answered
    BY <1>5 DEF Record, RecordFails, OutputFails, RenderFails, Apply, Ignore, Persist,
                PassOver, SkipForeign, SkipOverlap, Accept, Considering, Planned, OpenTemp,
                FillTemp, Rename, Unappliable, ApplyFails, Fail, ApplyingLeaves, Finish,
                Kill, Edit, EditBaseline, Answered, vars
  <2>3. \A f \in Files : /\ Findings(f)' = Findings(f) /\ ColdOf(f)' = ColdOf(f)
                         /\ f \in Panicked => (f \in Panicked)'
    BY <2>1 DEF Findings, ColdOf, Cold, Panicked
  <2> QED
    BY <1>1, <2>1, <2>2, <2>3 DEF AnswerInvariant
<1> QED
  BY <1>1, <1>2, <1>3, <1>4, <1>5 DEF Next

(***************************************************************************)
(* The plan.                                                               *)
(***************************************************************************)

\* What is asked of the enrichment, of every file of every project; and an edit
\* of the user makes bytes of bytes.
RulesOfferEdits == \A all \in Projects, f \in Files : SuggestionsFit(f, all)
EditsAreBytes == \A bytes \in Seq(Tokens) : EditsOf(bytes) \subseteq Seq(Tokens)

Offered(c) == c.diagnostic.file \in Files /\ WellFormed(c.suggestion)

PlanInvariant ==
    /\ considered \in Nat
    /\ planned = [f \in Files |-> planned[f]]
    /\ \A f \in Files : EditSet(planned[f]) /\ \A e \in planned[f] : e.fix < considered
    /\ \A d \in outcome : d.file \in Files
    /\ presented \subseteq outcome /\ (pc = "analyze" => presented = {})
    /\ \A c \in pending : Offered(c)
    /\ \A s \in skipped : s.file \in Files
    /\ PlanIsGreedy

\* A fix's own edits are the suggestion's, with its number on them.
LEMMA OwnEditsAreAnEditSet ==
    ASSUME NEW c, WellFormed(c.suggestion), considered \in Nat
    PROVE  EditSet(OwnEdits(c)) /\ \A e \in OwnEdits(c) : e.fix = considered
<1> DEFINE Own(e) == [start |-> e.start, end |-> e.end, replacement |-> e.replacement,
                      fix |-> considered, place |-> e.place]
           own == [e \in c.suggestion.edits |-> Own(e)]
<1>1. own \in Surjection(c.suggestion.edits, OwnEdits(c))
  BY DEF OwnEdits, Surjection
<1>2. IsFiniteSet(OwnEdits(c))
  BY <1>1, FS_Surjection DEF WellFormed
<1>3. \A e \in OwnEdits(c) : Ranged(e) /\ Placed(e) /\ e.fix = considered
  BY DEF OwnEdits, WellFormed, Ranged, Placed
<1>4. \A e, g \in OwnEdits(c) : e.place = g.place => e = g
  BY DEF OwnEdits, WellFormed
<1> QED
  BY <1>2, <1>3, <1>4 DEF EditSet

\* What the plan holds of a file with one more fix is still a set of edits.
LEMMA TrialIsAnEditSet ==
    ASSUME PlanInvariant, NEW c, Offered(c)
    PROVE  /\ EditSet(Trial(c))
           /\ \A e \in Trial(c) : e.fix < considered + 1 /\ e.fix <= considered
<1> DEFINE f == c.diagnostic.file
<1>1. /\ EditSet(OwnEdits(c)) /\ \A e \in OwnEdits(c) : e.fix = considered
      /\ considered \in Nat
  BY OwnEditsAreAnEditSet DEF PlanInvariant, Offered
<1>2. EditSet(planned[f]) /\ \A e \in planned[f] : e.fix < considered
  BY DEF PlanInvariant, Offered
<1>3. IsFiniteSet(Trial(c))
  BY <1>1, <1>2, FS_Union DEF Trial, EditSet
<1>4. \A e \in Trial(c) : Ranged(e) /\ Placed(e)
  BY <1>1, <1>2 DEF Trial, EditSet
<1>5. \A e, g \in Trial(c) : e.fix = g.fix /\ e.place = g.place => e = g
  <2>1. \A e \in planned[f], g \in OwnEdits(c) : e.fix # g.fix
    BY <1>1, <1>2 DEF EditSet, Placed
  <2> QED
    BY <2>1, <1>1, <1>2 DEF Trial, EditSet
<1>6. \A e \in Trial(c) : e.fix < considered + 1 /\ e.fix <= considered
  BY <1>1, <1>2 DEF Trial, EditSet, Placed
<1> QED
  BY <1>3, <1>4, <1>5, <1>6 DEF EditSet

\* The plan is untouched by whatever leaves its variables alone.
LEMMA PlanStands ==
    ASSUME PlanInvariant, UNCHANGED <<considered, planned, skipped>>,
           \A d \in outcome' : d.file \in Files,
           presented' \subseteq outcome', pc' = "analyze" => presented' = {},
           \A c \in pending' : Offered(c)
    PROVE  PlanInvariant'
BY DEF PlanInvariant, PlanIsGreedy, Offered, WellFormed

LEMMA PlanInit == Init => PlanInvariant
<1> SUFFICES ASSUME Init PROVE PlanInvariant
  OBVIOUS
<1>1. EditSet({})
  BY FS_EmptySet DEF EditSet
<1> QED
  BY <1>1 DEF Init, PlanInvariant, PlanIsGreedy, NoFixes

LEMMA PlanStarts ==
    ASSUME PlanInvariant, Start
    PROVE  PlanInvariant'
<1>1. EditSet({})
  BY FS_EmptySet DEF EditSet
<1>2. /\ pending' = {} /\ considered' = 0 /\ planned' = NoFixes /\ skipped' = {}
      /\ outcome' = {} /\ presented' = {}
  BY DEF Start
<1> QED
  BY <1>1, <1>2 DEF PlanInvariant, PlanIsGreedy, NoFixes

\* What is reported is of files of the project.
LEMMA ReportedFiles ==
    ASSUME PlanInvariant, Analyze \/ Apply \/ Ignore
    PROVE  PlanInvariant'
<1>1. \A d \in outcome : d.file \in Files
  BY DEF PlanInvariant
<1>2. UNCHANGED fixing /\ pc' # "analyze"
  BY DEF Analyze, Apply, Ignore
<1>3. (\A d \in outcome' : d.file \in Files) /\ presented' \subseteq outcome'
  <2>1. CASE Analyze
    <3>1. presented' = {}
      BY <2>1 DEF Analyze, PlanInvariant
    <3> QED
      BY <2>1, <3>1 DEF Analyze, On
  <2>2. CASE Apply
    BY <1>1, <2>2 DEF Apply, Unhidden
  <2>3. CASE Ignore
    BY <1>1, <2>3 DEF Ignore
  <2> QED
    BY <2>1, <2>2, <2>3
<1>4. \A c \in pending' : Offered(c)
  BY <1>2 DEF PlanInvariant, fixing
<1> QED
  BY <1>2, <1>3, <1>4, PlanStands DEF fixing

\* A finding that was shown is one a run without a cache finds, so what was
\* offered for it fits the text this run read.
LEMMA OfferedFits ==
    ASSUME RulesOfferEdits, AnswerInvariant, PlanInvariant, Answered,
           texts \in Projects, NEW d \in presented,
           NEW s \in Suggestions(d.file, texts[d.file], d.finding)
    PROVE  /\ d.file \in Files /\ WellFormed(s)
           /\ \A e \in s.edits : e.file = d.file => e.end <= Len(texts[d.file])
<1> DEFINE f == d.file
<1>1. d \in outcome /\ f \in Files
  BY DEF PlanInvariant
<1>2. d.finding \in Findings(f)
  BY <1>1 DEF Findings
<1>3. d.finding \in ColdOf(f)
  BY <1>1, <1>2 DEF AnswerInvariant
<1>4. ColdOf(f) = Composed(texts[f], UntypedPortion(texts[f], texts), TypedPortion(texts[f], texts))
  BY DEF ColdOf, Cold, Composed, UntypedPortion, TypedPortion
<1>5. SuggestionsFit(f, texts)
  BY <1>1 DEF RulesOfferEdits
<1> QED
  BY <1>1, <1>3, <1>4, <1>5 DEF SuggestionsFit

LEMMA PlanPersists ==
    ASSUME RulesOfferEdits, AnswerInvariant, PlanInvariant, texts \in Projects,
           Persist
    PROVE  PlanInvariant'
<1>1. UNCHANGED <<outcome, presented, considered, planned, skipped>> /\ pc' # "analyze"
  BY DEF Persist, answer
<1>2. \A c \in pending' :
        \E d \in presented : \E s \in Suggestions(d.file, texts[d.file], d.finding) :
            c = [diagnostic |-> d, suggestion |-> s]
  BY DEF Persist
<1>3. Answered
  BY DEF Persist, Answered
<1>4. \A c \in pending' : Offered(c)
  <2> SUFFICES ASSUME NEW c \in pending' PROVE Offered(c)
    OBVIOUS
  <2>1. PICK d \in presented : \E s \in Suggestions(d.file, texts[d.file], d.finding) :
          c = [diagnostic |-> d, suggestion |-> s]
    BY <1>2
  <2>2. PICK s \in Suggestions(d.file, texts[d.file], d.finding) :
          c = [diagnostic |-> d, suggestion |-> s]
    BY <2>1
  <2>3. d.file \in Files /\ WellFormed(s)
    BY <1>3, OfferedFits
  <2> QED
    BY <2>2, <2>3 DEF Offered
<1>5. (\A d \in outcome' : d.file \in Files) /\ presented' \subseteq outcome'
  BY <1>1 DEF PlanInvariant
<1> QED
  BY <1>1, <1>4, <1>5, PlanStands

\* Planning changes nothing of what was reported.
ReportStands == /\ \A d \in outcome' : d.file \in Files
           /\ presented' \subseteq outcome' /\ pc' # "analyze"

\* A suggestion leaves the list; those left are as they were.
LEMMA Consider ==
    ASSUME PlanInvariant, NEW c, Considering(c)
    PROVE  /\ Offered(c) /\ \A other \in pending' : Offered(other)
           /\ considered \in Nat /\ considered' = considered + 1
           /\ ReportStands
BY DEF PlanInvariant, Considering, Candidate, answer, ReportStands

LEMMA PlanSkips ==
    ASSUME PlanInvariant, PassOver \/ SkipForeign \/ SkipOverlap
    PROVE  PlanInvariant'
<1>1. PICK c : /\ Considering(c) /\ planned' = planned
               /\ \/ skipped' = skipped
                  \/ Skip(c, "foreignFile")
                  \/ Skip(c, "overlap") /\ FindConflict(Trial(c))
  BY DEF PassOver, SkipForeign, SkipOverlap
<1>2. /\ Offered(c) /\ \A other \in pending' : Offered(other)
      /\ considered \in Nat /\ considered' = considered + 1
      /\ ReportStands
  BY <1>1, Consider
<1> DEFINE f == c.diagnostic.file
<1>3. f \in Files
  BY <1>2 DEF Offered
<1>4. \A s \in skipped' \ skipped :
        /\ s.file = f
        /\ s.reason = "overlap" =>
              s.fix = considered /\ s.edits = OwnEdits(c) /\ FindConflict(Trial(c))
  BY <1>1 DEF Skip
<1>5. skipped \subseteq skipped'
  BY <1>1 DEF Skip
<1>6. \A g \in Files : /\ EditSet(planned'[g])
                       /\ \A e \in planned'[g] : e.fix < considered'
  BY <1>1, <1>2 DEF PlanInvariant, EditSet, Placed
<1>7. ASSUME FindConflict(Trial(c))
      PROVE  \E e \in OwnEdits(c) : \E g \in OwnEdits(c) \cup planned[f] :
                 e # g /\ ~Apart(e, g) /\ g.fix <= considered
  <2>1. PICK e \in Trial(c), g \in Trial(c) : e # g /\ ~Apart(e, g)
    BY <1>2, <1>7, TrialIsAnEditSet, NeighboursSuffice
  <2>2. e \in OwnEdits(c) \/ g \in OwnEdits(c)
    BY <2>1, <1>3 DEF Trial, PlanInvariant, PlanIsGreedy
  <2>3. ~Apart(g, e)
    BY <2>1 DEF Apart
  <2>4. e.fix <= considered /\ g.fix <= considered
    BY <1>2, TrialIsAnEditSet
  <2> QED
    BY <2>1, <2>2, <2>3, <2>4 DEF Trial
<1>8. PlanIsGreedy'
  <2>1. \A h \in Files : \A e, g \in planned'[h] : e # g => Apart(e, g)
    BY <1>1 DEF PlanInvariant, PlanIsGreedy
  <2>2. ASSUME NEW s \in skipped', s.reason = "overlap"
        PROVE  \E e \in s.edits : \E g \in s.edits \cup planned'[s.file] :
                   e # g /\ ~Apart(e, g) /\ g.fix <= s.fix
    <3>1. CASE s \in skipped
      BY <1>1, <2>2, <3>1 DEF PlanInvariant, PlanIsGreedy
    <3>2. CASE s \notin skipped
      BY <1>1, <1>4, <1>7, <2>2, <3>2
    <3> QED
      BY <3>1, <3>2
  <2> QED
    BY <2>1, <2>2 DEF PlanIsGreedy
<1>9. \A s \in skipped' : s.file \in Files
  BY <1>3, <1>4 DEF PlanInvariant
<1>10. considered' \in Nat /\ planned' = [g \in Files |-> planned'[g]]
  BY <1>1, <1>2 DEF PlanInvariant
<1> QED
  BY <1>2, <1>6, <1>8, <1>9, <1>10 DEF PlanInvariant, Offered, WellFormed, ReportStands

LEMMA PlanAccepts ==
    ASSUME PlanInvariant, Accept
    PROVE  PlanInvariant'
<1>1. PICK c : /\ Considering(c) /\ ~FindConflict(Trial(c))
               /\ planned' = [planned EXCEPT ![c.diagnostic.file] = Trial(c)]
               /\ skipped' = skipped
  BY DEF Accept
<1>2. /\ Offered(c) /\ \A other \in pending' : Offered(other)
      /\ considered \in Nat /\ considered' = considered + 1
      /\ ReportStands
  BY <1>1, Consider
<1> DEFINE f == c.diagnostic.file
<1>3. EditSet(Trial(c)) /\ \A e \in Trial(c) : e.fix < considered + 1
  BY <1>2, TrialIsAnEditSet
<1>4. \A e, g \in Trial(c) : e # g => Apart(e, g)
  BY <1>1, <1>3, NeighboursSuffice
<1>5. /\ planned' = [g \in Files |-> planned'[g]]
      /\ \A g \in Files : planned'[g] = IF g = f THEN Trial(c) ELSE planned[g]
  BY <1>1 DEF PlanInvariant
<1>6. \A g \in Files : /\ EditSet(planned'[g])
                       /\ \A e \in planned'[g] : e.fix < considered'
  BY <1>2, <1>3, <1>5 DEF PlanInvariant, EditSet, Placed
<1>7. \A g \in Files : planned[g] \subseteq planned'[g]
  BY <1>5 DEF Trial
<1>8. PlanIsGreedy'
  <2>1. \A h \in Files : \A e, g \in planned'[h] : e # g => Apart(e, g)
    BY <1>4, <1>5 DEF PlanInvariant, PlanIsGreedy
  <2>2. ASSUME NEW s \in skipped', s.reason = "overlap"
        PROVE  \E e \in s.edits : \E g \in s.edits \cup planned'[s.file] :
                   e # g /\ ~Apart(e, g) /\ g.fix <= s.fix
    <3>1. s \in skipped /\ s.file \in Files
      BY <1>1, <2>2 DEF PlanInvariant
    <3> QED
      BY <3>1, <2>2, <1>7 DEF PlanInvariant, PlanIsGreedy
  <2> QED
    BY <2>1, <2>2 DEF PlanIsGreedy
<1> QED
  BY <1>1, <1>2, <1>5, <1>6, <1>8 DEF PlanInvariant, Offered, WellFormed, ReportStands

LEMMA PlanElsewhere ==
    ASSUME PlanInvariant,
           \/ AnalysisPanics \/ RecordFails \/ OutputFails \/ RenderFails \/ Planned
           \/ OpenTemp \/ FillTemp \/ Rename \/ Unappliable \/ ApplyFails \/ Finish \/ Kill
           \/ Edit \/ EditBaseline \/ UNCHANGED vars
    PROVE  PlanInvariant'
<1>0. pc' = "analyze" => pc = "analyze"
  BY DEF AnalysisPanics, RecordFails, OutputFails, RenderFails, Planned, OpenTemp, FillTemp,
         Rename, Unappliable, ApplyFails, Fail, Finish, Kill, Edit, EditBaseline, vars
<1>1. UNCHANGED <<outcome, presented, pending, considered, planned, skipped>>
  BY DEF AnalysisPanics, RecordFails, OutputFails, RenderFails, Planned, OpenTemp, FillTemp,
         Rename, Unappliable, ApplyFails, Finish, Kill, Edit, EditBaseline, LoseEntries,
         DoubleEntries, DeleteBaseline, ApplyingLeaves, answer, fixing, vars
<1>2. /\ \A d \in outcome' : d.file \in Files
      /\ presented' \subseteq outcome' /\ (pc' = "analyze" => presented' = {})
      /\ \A c \in pending' : Offered(c)
  BY <1>0, <1>1 DEF PlanInvariant
<1> QED
  BY <1>1, <1>2, PlanStands

LEMMA PlanRecords ==
    ASSUME PlanInvariant, Record
    PROVE  PlanInvariant'
<1>1. UNCHANGED <<outcome, pending, considered, planned, skipped>> /\ presented' = {}
  BY DEF Record, fixing
<1>2. /\ \A d \in outcome' : d.file \in Files
      /\ presented' \subseteq outcome' /\ (pc' = "analyze" => presented' = {})
      /\ \A c \in pending' : Offered(c)
  BY <1>1 DEF PlanInvariant
<1> QED
  BY <1>1, <1>2, PlanStands

LEMMA PlanNext ==
    ASSUME RulesOfferEdits, AnswerInvariant, PlanInvariant, texts \in Projects,
           [Next]_vars
    PROVE  PlanInvariant'
<1>1. CASE Start
  BY <1>1, PlanStarts
<1>2. CASE Analyze \/ Apply \/ Ignore
  BY <1>2, ReportedFiles
<1>3. CASE Persist
  BY <1>3, PlanPersists
<1>4. CASE PassOver \/ SkipForeign \/ SkipOverlap
  BY <1>4, PlanSkips
<1>5. CASE Accept
  BY <1>5, PlanAccepts
<1>6. CASE Record
  BY <1>6, PlanRecords
<1>7. CASE \/ AnalysisPanics \/ RecordFails \/ OutputFails \/ RenderFails \/ Planned
           \/ OpenTemp \/ FillTemp \/ Rename \/ Unappliable \/ ApplyFails \/ Finish \/ Kill
           \/ Edit \/ EditBaseline \/ UNCHANGED vars
  BY <1>7, PlanElsewhere
<1> QED
  BY <1>1, <1>2, <1>3, <1>4, <1>5, <1>6, <1>7 DEF Next

(***************************************************************************)
(* What lands on disk.                                                     *)
(***************************************************************************)

LEMMA CurrentIsWriting ==
    ASSUME writing \subseteq Files, writing # {}
    PROVE  Current \in writing
<1>1. \E f \in writing : \A g \in writing : f <= g
  BY LeastNumber, ReportAssumption
<1> QED
  BY <1>1 DEF Current

\* A suggestion the plan has yet to consider is one for a finding that was shown.
Raised(c) ==
    /\ c.diagnostic \in presented
    /\ c.suggestion \in Suggestions(c.diagnostic.file, texts[c.diagnostic.file], c.diagnostic.finding)

\* The fix pass is not there yet.
Early == pc \in {"analyze", "baseline", "persist"}

\* A planned edit is of text the file has.
InText(e, text) == e.end <= Len(text) /\ e.replacement \in Seq(Tokens)

LandingInvariant ==
    /\ disk \in Projects /\ ReadInvariant
    /\ DOMAIN temp = Files
    /\ \A f \in Files : \A e \in planned[f] : InText(e, texts[f])
    /\ edits \in Nat
    /\ writing \subseteq Files
    /\ pc \in {"fill", "rename"} => writing # {}
    /\ pc = "rename" => temp[Current] = Splice(texts[Current], planned[Current])
    /\ Early => planned = NoFixes /\ pending = {}
    /\ \A c \in pending : Raised(c)
    /\ \A f \in Files : Whole(f)

\* Nothing planned is nothing to answer for.
LEMMA NothingIsWhole == planned = NoFixes => \A f \in Files : Whole(f)
BY DEF NoFixes, Whole

\* What no step of the fix pass but the plan's touches.
LEMMA PlannedStands ==
    ASSUME LandingInvariant, UNCHANGED <<contents, texts, threshold, presented, planned>>
    PROVE  /\ \A f \in Files : Whole(f)'
           /\ \A f \in Files : \A e \in planned'[f] : InText(e, texts'[f])
           /\ ReadInvariant'
<1>1. ASSUME NEW f \in Files PROVE Whole(f)'
  <2>1. Whole(f)
    BY DEF LandingInvariant
  <2> QED
    BY <2>1 DEF Whole
<1>2. /\ ReadInvariant
      /\ \A f \in Files : \A e \in planned[f] : InText(e, texts[f])
  BY DEF LandingInvariant
<1> QED
  BY <1>1, <1>2 DEF ReadInvariant, Decoded

LEMMA LandingInit == Init => LandingInvariant
<1> SUFFICES ASSUME Init PROVE LandingInvariant
  OBVIOUS
<1>1. \A f \in Files : Whole(f)
  BY NothingIsWhole DEF Init
<1>2. disk \in Projects /\ ReadInvariant
  BY ReportAssumption, DecodedIsAProject DEF Init, ReadInvariant
<1>3. \A f \in Files : \A e \in planned[f] : InText(e, texts[f])
  BY DEF Init, NoFixes
<1> QED
  BY <1>1, <1>2, <1>3, ReportAssumption DEF Init, LandingInvariant, Early

LEMMA LandingStarts ==
    ASSUME LandingInvariant, Start
    PROVE  LandingInvariant'
<1>1. /\ pc' = "analyze" /\ pending' = {} /\ planned' = NoFixes /\ writing' = {}
      /\ UNCHANGED <<disk, temp, edits>>
  BY DEF Start, project
<1>2. /\ \A f \in Files : Whole(f)'
      /\ \A f \in Files : planned'[f] = {}
  BY <1>1 DEF NoFixes, Whole
<1>3. ReadInvariant'
  <2>1. PICK unreadable : contents' = Read(unreadable) /\ texts' = Decoded(contents')
    BY DEF Start
  <2>2. Read(unreadable) \in Projects
    BY DEF Read, LandingInvariant, Projects
  <2>3. PICK all \in Projects : contents' = all
    BY <2>1, <2>2
  <2>4. texts' = Decoded(all) /\ Decoded(all) \in Projects
    BY <2>1, <2>3, DecodedIsAProject
  <2> QED
    BY <2>3, <2>4 DEF ReadInvariant, Decoded
<1> QED
  BY <1>1, <1>2, <1>3 DEF LandingInvariant, Early

\* Until the plan is made there is nothing planned.
LEMMA LandingWaits ==
    ASSUME LandingInvariant,
           Analyze \/ AnalysisPanics \/ Record \/ Apply \/ Ignore
    PROVE  LandingInvariant'
<1>1. /\ Early /\ Early' /\ pc' # "rename" /\ pc' # "fill"
      /\ UNCHANGED <<disk, temp, contents, texts, pending, planned, writing, edits>>
  BY DEF Analyze, AnalysisPanics, Record, Apply, Ignore, Early, fixing, project, run, bounds
<1>2. planned' = NoFixes /\ pending' = {}
  BY <1>1 DEF LandingInvariant
<1>3. \A f \in Files : Whole(f)'
  BY <1>2 DEF NoFixes, Whole
<1>4. ReadInvariant'
  BY <1>1 DEF LandingInvariant, ReadInvariant, Decoded
<1> QED
  BY <1>1, <1>2, <1>3, <1>4 DEF LandingInvariant

LEMMA LandingPersists ==
    ASSUME LandingInvariant, Persist
    PROVE  LandingInvariant'
<1>1. /\ pc' \in {"finish", "plan"}
      /\ UNCHANGED <<disk, temp, contents, texts, threshold, presented, planned, writing, edits>>
  BY DEF Persist, run, answer
<1>2. \A c \in pending' : Raised(c)'
  <2>1. \A c \in pending' :
          \E d \in presented : \E s \in Suggestions(d.file, texts[d.file], d.finding) :
              c = [diagnostic |-> d, suggestion |-> s]
    BY DEF Persist
  <2> QED
    BY <1>1, <2>1 DEF Raised
<1> QED
  BY <1>1, <1>2, PlannedStands DEF LandingInvariant, Early

\* What a step of the plan leaves alone.
LEMMA Considered ==
    ASSUME LandingInvariant, NEW c, Considering(c)
    PROVE  /\ Raised(c) /\ pc = "plan" /\ pc' = "plan"
           /\ \A other \in pending' : Raised(other)'
           /\ UNCHANGED <<disk, temp, contents, texts, threshold, presented, writing, edits>>
<1>1. /\ c \in pending /\ pending' = pending \ {c} /\ pc = "plan" /\ pc' = "plan"
      /\ UNCHANGED <<disk, temp, contents, texts, threshold, presented, writing, edits>>
  BY DEF Considering, Candidate, project, run, answer, bounds
<1> QED
  BY <1>1 DEF LandingInvariant, Raised

LEMMA LandingSkips ==
    ASSUME LandingInvariant, PassOver \/ SkipForeign \/ SkipOverlap
    PROVE  LandingInvariant'
<1>1. PICK c : Considering(c) /\ planned' = planned
  BY DEF PassOver, SkipForeign, SkipOverlap
<1>2. /\ pc = "plan" /\ pc' = "plan" /\ \A other \in pending' : Raised(other)'
      /\ UNCHANGED <<disk, temp, contents, texts, threshold, presented, writing, edits>>
  BY <1>1, Considered
<1> QED
  BY <1>1, <1>2, PlannedStands DEF LandingInvariant, Early

\* A fix enters with every edit of its suggestion and under a number of its own.
LEMMA LandingAccepts ==
    ASSUME RulesOfferEdits, AnswerInvariant, PlanInvariant, LandingInvariant, Accept
    PROVE  LandingInvariant'
<1>1. PICK c \in pending :
        /\ Considering(c) /\ Admitted(c) /\ ~Foreign(c)
        /\ planned' = [planned EXCEPT ![c.diagnostic.file] = Trial(c)]
  BY DEF Accept
<1>2. /\ Raised(c) /\ pc = "plan" /\ pc' = "plan"
      /\ \A other \in pending' : Raised(other)'
      /\ UNCHANGED <<disk, temp, contents, texts, threshold, presented, writing, edits>>
  BY <1>1, Considered
<1> DEFINE own == c.diagnostic.file
<1>3. /\ own \in Files /\ planned'[own] = planned[own] \cup OwnEdits(c)
      /\ \A f \in Files : f # own => planned'[f] = planned[f]
  BY <1>1 DEF PlanInvariant, Offered, Trial
<1>4. \A e \in planned[own] : e.fix # considered
  <2>1. \A e \in planned[own] : e.fix \in Nat /\ e.fix < considered
    BY <1>3 DEF PlanInvariant, EditSet, Placed
  <2> QED
    BY <2>1
<1>5. /\ \A e \in OwnEdits(c) : e.fix = considered
      /\ {<<e.start, e.end, e.replacement>> : e \in OwnEdits(c)}
            = {<<e.start, e.end, e.replacement>> : e \in c.suggestion.edits}
  <2> DEFINE Own(e) == [start |-> e.start, end |-> e.end, replacement |-> e.replacement,
                        fix |-> considered, place |-> e.place]
             Words(e) == <<e.start, e.end, e.replacement>>
  <2>1. \A e : Own(e).fix = considered /\ Words(Own(e)) = Words(e)
    OBVIOUS
  <2>2. OwnEdits(c) = {Own(e) : e \in c.suggestion.edits}
    BY DEF OwnEdits
  <2> HIDE DEF Own, Words
  <2>3. /\ \A e \in OwnEdits(c) : e.fix = considered
        /\ {Words(e) : e \in OwnEdits(c)} = {Words(e) : e \in c.suggestion.edits}
    BY <2>1, <2>2
  <2> QED
    BY <2>3 DEF Words
<1>6. \A f \in Files : Whole(f)
  BY DEF LandingInvariant
<1>7. ASSUME NEW f \in Files, f # own PROVE Whole(f)'
  <2>1. planned'[f] = planned[f] /\ UNCHANGED <<texts, threshold, presented>>
    BY <1>2, <1>3, <1>7
  <2>2. Whole(f)
    BY <1>6
  <2> QED
    BY <2>1, <2>2 DEF Whole
<1>8. Whole(own)'
  <2> SUFFICES ASSUME NEW fix \in {e.fix : e \in planned'[own]}
               PROVE  \E d \in presented' : \E s \in Suggestions(own, texts'[own], d.finding) :
                          /\ d.file = own /\ s.confidence <= threshold'
                          /\ {<<e.start, e.end, e.replacement>> : e \in s.edits}
                                = {<<e.start, e.end, e.replacement>> :
                                      e \in {e \in planned'[own] : e.fix = fix}}
    BY DEF Whole
  <2>1. CASE fix = considered
    <3>1. {e \in planned'[own] : e.fix = fix} = OwnEdits(c)
      BY <1>3, <1>4, <1>5, <2>1
    <3>2. c.suggestion.confidence <= threshold
      BY <1>1 DEF Admitted
    <3> QED
      BY <1>2, <1>5, <3>1, <3>2 DEF Raised
  <2>2. CASE fix # considered
    <3>1. {e \in planned'[own] : e.fix = fix} = {e \in planned[own] : e.fix = fix}
      BY <1>3, <1>5, <2>2
    <3>2. fix \in {e.fix : e \in planned[own]}
      BY <1>3, <1>5, <2>2
    <3>3. PICK d \in presented : \E s \in Suggestions(own, texts[own], d.finding) :
            /\ d.file = own /\ s.confidence <= threshold
            /\ {<<e.start, e.end, e.replacement>> : e \in s.edits}
                  = {<<e.start, e.end, e.replacement>> : e \in {e \in planned[own] : e.fix = fix}}
      BY <1>3, <1>6, <3>2 DEF Whole
    <3> QED
      BY <1>2, <3>1, <3>3
  <2> QED
    BY <2>1, <2>2
<1>9. \A f \in Files : Whole(f)'
  BY <1>7, <1>8
<1>10. \A e \in OwnEdits(c) : InText(e, texts[own])
  <2>1. Answered
    BY <1>2 DEF Answered
  <2>2. /\ WellFormed(c.suggestion)
        /\ \A e \in c.suggestion.edits : e.file = own => e.end <= Len(texts[own])
    BY <1>2, <2>1, OfferedFits DEF Raised, LandingInvariant, ReadInvariant
  <2>3. \A e \in c.suggestion.edits : e.end <= Len(texts[own]) /\ e.replacement \in Seq(Tokens)
    BY <1>1, <2>2 DEF Foreign, WellFormed
  <2> QED
    BY <2>3 DEF OwnEdits, InText
<1>11. \A f \in Files : \A e \in planned'[f] : InText(e, texts'[f])
  BY <1>2, <1>3, <1>10 DEF LandingInvariant
<1>12. ReadInvariant'
  BY <1>2 DEF LandingInvariant, ReadInvariant, Decoded
<1> QED
  BY <1>2, <1>9, <1>11, <1>12 DEF LandingInvariant, Early

\* What is written is a text, and what the plan means.
LEMMA PlanIsPatched ==
    ASSUME PlanInvariant, LandingInvariant, NEW f \in Files
    PROVE  /\ Splice(texts[f], planned[f]) = Patched(texts[f], planned[f])
           /\ Splice(texts[f], planned[f]) \in Seq(Tokens)
<1>1. /\ EditSet(planned[f])
      /\ \A e, g \in planned[f] : e # g => Apart(e, g)
  BY DEF PlanInvariant, PlanIsGreedy
<1>2. /\ texts[f] \in Seq(Tokens)
      /\ \A e \in planned[f] : e.end <= Len(texts[f]) /\ e.replacement \in Seq(Tokens)
  BY DEF LandingInvariant, ReadInvariant, Projects, InText
<1> QED
  BY <1>1, <1>2, SpliceIsPatched

\* Writing moves the temporary and, once, the file.
LEMMA LandingWrites ==
    ASSUME PlanInvariant, LandingInvariant, OpenTemp \/ FillTemp \/ Rename \/ Unappliable
                                                     \/ ApplyFails
    PROVE  LandingInvariant'
<1>1. UNCHANGED <<contents, texts, threshold, presented, planned, pending, edits>>
  BY DEF OpenTemp, FillTemp, Rename, Unappliable, ApplyFails, ApplyingLeaves, run, answer
<1>2. /\ DOMAIN temp' = Files /\ writing' \subseteq Files
      /\ pc \in {"write", "fill", "rename"} /\ pc' \in {"write", "fill", "rename"}
      /\ pc' \in {"fill", "rename"} => writing' = writing /\ writing # {}
  BY DEF OpenTemp, FillTemp, Rename, Unappliable, ApplyFails, Fail, LandingInvariant
<1>3. ASSUME pc' = "rename"
      PROVE  temp'[Current'] = Splice(texts'[Current'], planned'[Current'])
  <2>1. FillTemp
    BY <1>3 DEF OpenTemp, FillTemp, Rename, Unappliable, ApplyFails, Fail
  <2>2. writing' = writing /\ writing # {} /\ Current \in Files
    BY <2>1, CurrentIsWriting DEF FillTemp, LandingInvariant
  <2>3. Current' = Current
    BY <2>2 DEF Current
  <2>4. temp'[Current] = Splice(texts[Current], planned[Current])
    BY <2>1, <2>2 DEF FillTemp, LandingInvariant
  <2> QED
    BY <1>1, <2>3, <2>4
<1>4. /\ \A f \in Files : Whole(f)'
      /\ \A f \in Files : \A e \in planned'[f] : InText(e, texts'[f])
      /\ ReadInvariant'
  BY <1>1, PlannedStands
<1>5. \A c \in pending' : Raised(c)'
  BY <1>1 DEF LandingInvariant, Raised
<1>6. disk' \in Projects
  <2>1. CASE Rename
    <3>1. Current \in Files /\ temp[Current] = Splice(texts[Current], planned[Current])
      BY <2>1, CurrentIsWriting DEF Rename, LandingInvariant
    <3>2. temp[Current] \in Seq(Tokens)
      BY <3>1, PlanIsPatched
    <3> QED
      BY <2>1, <3>1, <3>2 DEF Rename, LandingInvariant, Projects
  <2>2. CASE ~Rename
    BY <2>2 DEF OpenTemp, FillTemp, Unappliable, ApplyFails, LandingInvariant
  <2> QED
    BY <2>1, <2>2
<1> QED
  BY <1>1, <1>2, <1>3, <1>4, <1>5, <1>6 DEF LandingInvariant, Early

LEMMA LandingElsewhere ==
    ASSUME EditsAreBytes, LandingInvariant,
           \/ RecordFails \/ OutputFails \/ RenderFails \/ Planned \/ Finish \/ Kill \/ Edit
           \/ EditBaseline \/ UNCHANGED vars
    PROVE  LandingInvariant'
<1>1. /\ UNCHANGED <<temp, contents, texts, threshold, presented, planned, pending>>
      /\ edits' \in Nat /\ writing' \subseteq Files
  BY DEF RecordFails, OutputFails, RenderFails, Planned, Finish, Kill, Edit, EditBaseline,
         project, run, answer, fixing, bounds, vars, LandingInvariant
<1>2. \/ pc' \in {"idle", "write", "done"}
      \/ pc' = pc /\ writing' = writing
  BY DEF RecordFails, OutputFails, RenderFails, Planned, Finish, Kill, Edit, EditBaseline,
         fixing, vars
<1>3. Current' = Current \/ pc' # "rename"
  BY <1>2 DEF Current
<1>4. /\ \A f \in Files : Whole(f)'
      /\ \A f \in Files : \A e \in planned'[f] : InText(e, texts'[f])
      /\ ReadInvariant'
  BY <1>1, PlannedStands
<1>5. \A c \in pending' : Raised(c)'
  BY <1>1 DEF LandingInvariant, Raised
<1>6. disk' \in Projects
  <2>1. CASE Edit
    <3>1. PICK f \in Files : \E bytes \in EditsOf(disk[f]) : disk' = [disk EXCEPT ![f] = bytes]
      BY <2>1 DEF Edit
    <3>2. EditsOf(disk[f]) \subseteq Seq(Tokens)
      BY <3>1 DEF EditsAreBytes, LandingInvariant, Projects
    <3> QED
      BY <3>1, <3>2 DEF LandingInvariant, Projects
  <2>2. CASE ~Edit
    BY <2>2 DEF RecordFails, OutputFails, RenderFails, Planned, Finish, Kill, EditBaseline,
                project, vars, LandingInvariant
  <2> QED
    BY <2>1, <2>2
<1> QED
  BY <1>1, <1>2, <1>3, <1>4, <1>5, <1>6 DEF LandingInvariant, Early

LEMMA LandingNext ==
    ASSUME RulesOfferEdits, EditsAreBytes, AnswerInvariant, PlanInvariant, LandingInvariant,
           [Next]_vars
    PROVE  LandingInvariant'
<1>1. CASE Start
  BY <1>1, LandingStarts
<1>2. CASE Analyze \/ AnalysisPanics \/ Record \/ Apply \/ Ignore
  BY <1>2, LandingWaits
<1>3. CASE Persist
  BY <1>3, LandingPersists
<1>4. CASE PassOver \/ SkipForeign \/ SkipOverlap
  BY <1>4, LandingSkips
<1>5. CASE Accept
  BY <1>5, LandingAccepts
<1>6. CASE OpenTemp \/ FillTemp \/ Rename \/ Unappliable \/ ApplyFails
  BY <1>6, LandingWrites
<1>7. CASE \/ RecordFails \/ OutputFails \/ RenderFails \/ Planned \/ Finish \/ Kill \/ Edit
           \/ EditBaseline \/ UNCHANGED vars
  BY <1>7, LandingElsewhere
<1> QED
  BY <1>1, <1>2, <1>3, <1>4, <1>5, <1>6, <1>7 DEF Next

\* The tool and not the user moved the file.
Rewritten(f) == disk'[f] # disk[f] /\ edits' = edits

LEMMA OnlyRenamesRewrite ==
    ASSUME LandingInvariant, [Next]_vars, NEW f \in Files, Rewritten(f)
    PROVE  Rename /\ f = Current
<1>1. CASE Rename
  BY <1>1 DEF Rename, Rewritten, LandingInvariant, Projects
<1>2. CASE Edit
  BY <1>2 DEF Edit, Rewritten, LandingInvariant
<1>3. CASE ~Rename /\ ~Edit
  <2>1. disk' = disk
    BY <1>3 DEF Next, Start, Analyze, AnalysisPanics, Record, RecordFails, OutputFails,
                RenderFails, Apply, Ignore, Persist, PassOver, SkipForeign, SkipOverlap,
                Accept, Considering, Planned, OpenTemp, FillTemp, Unappliable, ApplyFails,
                Finish, Kill, EditBaseline, project, vars
  <2> QED
    BY <2>1 DEF Rewritten
<1> QED
  BY <1>1, <1>2, <1>3

(***************************************************************************)
(* The plan and what lands, together: what may be planned depends on what  *)
(* was answered, and what can be spliced on what was planned.              *)
(***************************************************************************)

FixInvariant == AnswerInvariant /\ PlanInvariant /\ LandingInvariant

LEMMA FixCorrect ==
    ASSUME FactsAreSound, RulesOfferEdits, EditsAreBytes
    PROVE  Spec => []FixInvariant
<1>1. Init => FixInvariant
  BY AnswerInit, PlanInit, LandingInit DEF FixInvariant
<1>2. FixInvariant /\ [Next]_vars => FixInvariant'
  <2> SUFFICES ASSUME FixInvariant, [Next]_vars PROVE FixInvariant'
    OBVIOUS
  <2>1. ReadInvariant /\ texts \in Projects
    BY DEF FixInvariant, LandingInvariant, ReadInvariant
  <2>2. AnswerInvariant'
    BY <2>1, AnswerNext DEF FixInvariant
  <2>3. PlanInvariant'
    BY <2>1, PlanNext DEF FixInvariant
  <2>4. LandingInvariant'
    BY LandingNext DEF FixInvariant
  <2> QED
    BY <2>2, <2>3, <2>4 DEF FixInvariant
<1> QED
  BY <1>1, <1>2, PTL DEF Spec

\* For any rules whose recorded facts decide their findings, and any mix of
\* served and recomputed halves: a warm report is the cold one.
THEOREM WarmIsCold ==
    ASSUME FactsAreSound, RulesOfferEdits, EditsAreBytes
    PROVE  Spec => []WarmReportsAreCold
<1>1. FixInvariant => WarmReportsAreCold
  BY DEF FixInvariant, AnswerInvariant, WarmReportsAreCold, ColdOf, Analyzed, Answered
<1> QED
  BY <1>1, FixCorrect, PTL

\* And a directive it calls unused can be deleted: no other line changes.
THEOREM UnusedCanGo ==
    ASSUME FactsAreSound, RulesKeepTheirNames, RulesOfferEdits, EditsAreBytes
    PROVE  Spec => []UnusedIsRemovable
<1>1. ASSUME FixInvariant PROVE UnusedIsRemovable
  <2> SUFFICES ASSUME Analyzed, NEW f \in Files, NEW x \in Findings(f), x.id = UNUSED
               PROVE  Findings(f) \ {x} =
                          Cold(texts[f], SuppressionDirectives(texts[f]) \ x.subject)
    BY DEF UnusedIsRemovable
  <2>1. Findings(f) = Cold(texts[f], SuppressionDirectives(texts[f])) \/ Findings(f) = {}
    BY <1>1 DEF FixInvariant, AnswerInvariant, ColdOf, Analyzed, Answered
  <2>2. texts \in Projects /\ texts[f] \in Seq(Tokens)
    BY <1>1 DEF FixInvariant, LandingInvariant, ReadInvariant, Projects
  <2> QED
    BY <2>1, <2>2, UselessIsRemovable
<1> QED
  BY <1>1, FixCorrect, PTL

\* For any suggestions that fit the texts they are made for, in any number: the
\* accepted edits of a file can stand together in any order, and nothing was
\* skipped for nothing.
THEOREM Greedy ==
    ASSUME FactsAreSound, RulesOfferEdits, EditsAreBytes
    PROVE  Spec => []PlanIsGreedy
<1>1. FixInvariant => PlanIsGreedy
  BY DEF FixInvariant, PlanInvariant
<1> QED
  BY <1>1, FixCorrect, PTL

\* And whatever is killed or fails between two writes, a file the tool rewrites
\* is, at once, the text it decoded with the edits of its plan in the place of
\* what they replace; it is the file itself with those edits where that is
\* pristine; and every fix of the plan is a suggestion for a finding that was
\* shown, admitted by the threshold, with all of its edits.
THEOREM WholeFixesLand ==
    ASSUME FactsAreSound, RulesOfferEdits, EditsAreBytes
    PROVE  Spec => OnlyWholeFixesLand
<1>1. FixInvariant /\ [Next]_vars
        => [\A f \in Files : disk'[f] # disk[f] /\ edits' = edits =>
               /\ disk'[f] = Patched(FromBytes(contents[f]), planned[f])
               /\ IsPristine(contents[f]) => disk'[f] = Patched(contents[f], planned[f])
               /\ Whole(f)]_disk
  <2> SUFFICES ASSUME FixInvariant, [Next]_vars, NEW f \in Files, Rewritten(f)
               PROVE  /\ disk'[f] = Patched(FromBytes(contents[f]), planned[f])
                      /\ IsPristine(contents[f]) => disk'[f] = Patched(contents[f], planned[f])
                      /\ Whole(f)
    BY DEF Rewritten
  <2>1. Rename /\ f = Current
    BY OnlyRenamesRewrite DEF FixInvariant
  <2>2. disk'[f] = temp[f] /\ temp[f] = Splice(texts[f], planned[f])
    BY <2>1 DEF Rename, FixInvariant, LandingInvariant, Projects
  <2>3. Splice(texts[f], planned[f]) = Patched(texts[f], planned[f])
    BY PlanIsPatched DEF FixInvariant
  <2>4. texts[f] = FromBytes(contents[f]) /\ contents[f] \in Seq(Tokens)
    BY DEF FixInvariant, LandingInvariant, ReadInvariant, Decoded, Projects
  <2>5. IsPristine(contents[f]) => texts[f] = contents[f]
    BY <2>4, PristineIsItsText
  <2> QED
    BY <2>2, <2>3, <2>4, <2>5 DEF FixInvariant, LandingInvariant
<1> QED
  BY <1>1, FixCorrect, PTL DEF Spec, OnlyWholeFixesLand
=============================================================================
