--------------------------- MODULE BaselineProofs ---------------------------
(***************************************************************************)
(* What the proof system checks of the baseline and of the exit code in    *)
(* Report, for any project, any rules and any history of recordings: the   *)
(* counted entries hide what was recorded, and exit 0 keeps its promise.   *)
(***************************************************************************)
EXTENDS ReportProofs

(***************************************************************************)
(* The order of a report.                                                  *)
(***************************************************************************)

\* The report of every file of every project is well formed.
ReportsAreWellFormed == \A all \in Projects : \A f \in Files : WellFormedReport(all[f], all)

\* The absence of a baseline file is told from every file.
NoBaselineIsNoFile == \A entries : Written(entries) # NoBaseline

\* Diagnostics of files of the project, each at a place of its own.
Listed(diagnostics) ==
    /\ IsFiniteSet(diagnostics)
    /\ \A d \in diagnostics : d.file \in Nat /\ Numbered(d.finding)
    /\ \A d, e \in diagnostics : d.file = e.file /\ SamePlace(d.finding, e.finding) => d = e

LEMMA PrecedesIs ==
    ASSUME NEW d, NEW e
    PROVE  Precedes(d, e) <=>
              \/ d.file < e.file
              \/ d.file = e.file /\ d.finding.start < e.finding.start
              \/ d.file = e.file /\ d.finding.start = e.finding.start
                   /\ d.finding.end < e.finding.end
              \/ d.file = e.file /\ d.finding.start = e.finding.start
                   /\ d.finding.end = e.finding.end /\ d.finding.id < e.finding.id
              \/ d.file = e.file /\ d.finding.start = e.finding.start
                   /\ d.finding.end = e.finding.end /\ d.finding.id = e.finding.id
                   /\ d.finding.message < e.finding.message
<1> DEFINE s == Place(d)
           t == Place(e)
<1>1. /\ s[1] = d.file /\ s[2] = d.finding.start /\ s[3] = d.finding.end
      /\ s[4] = d.finding.id /\ s[5] = d.finding.message /\ DOMAIN s = 1..5
  BY DEF Place
<1>2. /\ t[1] = e.file /\ t[2] = e.finding.start /\ t[3] = e.finding.end
      /\ t[4] = e.finding.id /\ t[5] = e.finding.message
  BY DEF Place
<1>3. 1..5 = {1, 2, 3, 4, 5}
  OBVIOUS
<1> HIDE DEF s, t
<1>4. Lex(s, t) <=>
        \/ s[1] < t[1]
        \/ s[1] = t[1] /\ s[2] < t[2]
        \/ s[1] = t[1] /\ s[2] = t[2] /\ s[3] < t[3]
        \/ s[1] = t[1] /\ s[2] = t[2] /\ s[3] = t[3] /\ s[4] < t[4]
        \/ s[1] = t[1] /\ s[2] = t[2] /\ s[3] = t[3] /\ s[4] = t[4] /\ s[5] < t[5]
  <2>1. /\ 1..(1 - 1) = {} /\ 1..(2 - 1) = {1} /\ 1..(3 - 1) = {1, 2}
        /\ 1..(4 - 1) = {1, 2, 3} /\ 1..(5 - 1) = {1, 2, 3, 4}
    OBVIOUS
  <2>2. Lex(s, t) <=> \E i \in {1, 2, 3, 4, 5} :
                          s[i] < t[i] /\ \A j \in 1..(i - 1) : s[j] = t[j]
    BY <1>1, <1>3 DEF Lex
  <2> QED
    BY <2>1, <2>2
<1> QED
  BY <1>1, <1>2, <1>4 DEF Precedes, s, t

\* The order of a report is a strict total one.
LEMMA PrecedesIsTotal ==
    ASSUME NEW S, Listed(S)
    PROVE  /\ \A d \in S : ~Precedes(d, d)
           /\ \A d, e \in S : d # e => Precedes(d, e) \/ Precedes(e, d)
           /\ \A d, e, h \in S : Precedes(d, e) /\ Precedes(e, h) => Precedes(d, h)
<1>1. \A d \in S : /\ d.file \in Nat
                   /\ d.finding.start \in Nat /\ d.finding.end \in Nat
                   /\ d.finding.id \in Nat /\ d.finding.message \in Nat
  BY DEF Listed, Numbered
<1>2. \A d \in S : ~Precedes(d, d)
  BY <1>1, PrecedesIs
<1>3. \A d, e \in S : d # e => Precedes(d, e) \/ Precedes(e, d)
  <2> TAKE d, e \in S
  <2>1. d # e => d.file # e.file \/ ~SamePlace(d.finding, e.finding)
    BY DEF Listed
  <2> QED
    BY <2>1, <1>1, PrecedesIs DEF SamePlace
<1>4. \A d, e, h \in S : Precedes(d, e) /\ Precedes(e, h) => Precedes(d, h)
  <2> SUFFICES ASSUME NEW d \in S, NEW e \in S, NEW h \in S, Precedes(d, e), Precedes(e, h)
               PROVE  Precedes(d, h)
    OBVIOUS
  <2> QED
    BY <1>1, PrecedesIs
<1> QED
  BY <1>2, <1>3, <1>4

(***************************************************************************)
(* Counting.                                                               *)
(***************************************************************************)

OfKey(S, key) == {d \in S : Fingerprint(d) = key}

LEMMA ShownIs ==
    ASSUME NEW S, IsFiniteSet(S), NEW key
    PROVE  /\ Shown(S, key) = Cardinality(OfKey(S, key))
           /\ Shown(S, key) \in Nat
           /\ key \in DOMAIN Counts(S) <=> OfKey(S, key) # {}
           /\ IsFiniteSet(OfKey(S, key))
<1>1. IsFiniteSet(OfKey(S, key))
  BY FS_Subset DEF OfKey
<1>2. key \in DOMAIN Counts(S) <=> OfKey(S, key) # {}
  BY DEF Counts, OfKey
<1>3. CASE key \in DOMAIN Counts(S)
  BY <1>1, <1>2, <1>3, FS_CardinalityType DEF Shown, Count, Counts, OfKey
<1>4. CASE key \notin DOMAIN Counts(S)
  BY <1>1, <1>2, <1>4, FS_EmptySet DEF Shown, Count
<1> QED
  BY <1>1, <1>2, <1>3, <1>4

\* Occurrences of one key are numbered from 1 without a repeat.
LEMMA OccurrencesAreNumbered ==
    ASSUME NEW S, Listed(S), NEW key
    PROVE  /\ \A d \in OfKey(S, key) : Occurrence(d, S) \in 1..Cardinality(OfKey(S, key))
           /\ \A d, e \in OfKey(S, key) : Occurrence(d, S) = Occurrence(e, S) => d = e
<1> DEFINE Upto(d) == {e \in OfKey(S, key) : ~Precedes(d, e)}
<1>1. IsFiniteSet(OfKey(S, key))
  BY FS_Subset DEF OfKey, Listed
<1>2. \A d \in OfKey(S, key) :
        /\ Occurrence(d, S) = Cardinality(Upto(d))
        /\ Upto(d) \subseteq OfKey(S, key)
        /\ d \in Upto(d)
        /\ IsFiniteSet(Upto(d))
  <2> TAKE d \in OfKey(S, key)
  <2>1. Upto(d) = {e \in S : Fingerprint(e) = Fingerprint(d) /\ ~Precedes(d, e)}
    BY DEF OfKey
  <2>2. d \in Upto(d)
    BY PrecedesIsTotal DEF OfKey
  <2>3. IsFiniteSet(Upto(d))
    BY <1>1, FS_Subset
  <2> QED
    BY <2>1, <2>2, <2>3 DEF Occurrence
<1>3. \A d \in OfKey(S, key) : Occurrence(d, S) \in 1..Cardinality(OfKey(S, key))
  <2> TAKE d \in OfKey(S, key)
  <2>1. Cardinality(Upto(d)) \in Nat /\ Cardinality(OfKey(S, key)) \in Nat
    BY <1>1, <1>2, FS_CardinalityType
  <2>2. Cardinality(Upto(d)) <= Cardinality(OfKey(S, key))
    BY <1>1, <1>2, FS_Subset
  <2>3. Cardinality(Upto(d)) # 0
    BY <1>2, FS_EmptySet
  <2> QED
    BY <1>2, <2>1, <2>2, <2>3
<1>4. ASSUME NEW d \in OfKey(S, key), NEW e \in OfKey(S, key), Precedes(d, e)
      PROVE  Occurrence(d, S) # Occurrence(e, S)
  <2>1. Upto(d) \subseteq Upto(e)
    BY <1>4, PrecedesIsTotal DEF OfKey
  <2>2. e \in Upto(e) /\ e \notin Upto(d)
    BY <1>2, <1>4
  <2>3. Cardinality(Upto(d)) # Cardinality(Upto(e))
    BY <1>2, <2>1, <2>2, FS_Subset
  <2> QED
    BY <1>2, <2>3
<1>5. \A d, e \in OfKey(S, key) : d # e => Precedes(d, e) \/ Precedes(e, d)
  BY PrecedesIsTotal DEF OfKey
<1> QED
  BY <1>3, <1>4, <1>5

LEMMA CountIsNat ==
    ASSUME NEW entries, \A key \in DOMAIN entries : entries[key] \in Nat, NEW key
    PROVE  Count(entries, key) \in Nat
BY DEF Count

\* As many distinct numbers as an interval has, at most.
LEMMA FitsInAnInterval ==
    ASSUME NEW S, IsFiniteSet(S), NEW low \in Nat, NEW high \in Nat, low <= high + 1,
           NEW f \in [S -> low..high], \A d, e \in S : f[d] = f[e] => d = e
    PROVE  Cardinality(S) <= high - low + 1
<1>1. f \in Injection(S, low..high)
  BY DEF Injection, IsInjective
<1>2. IsFiniteSet(low..high) /\ Cardinality(low..high) = high - low + 1
  <2>1. low \in Int /\ high \in Int
    OBVIOUS
  <2>2. IsFiniteSet(low..high)
    BY <2>1, FS_Interval
  <2>3. Cardinality(low..high) = IF low > high THEN 0 ELSE high - low + 1
    BY <2>1, FS_Interval
  <2> QED
    BY <2>2, <2>3
<1> QED
  BY <1>1, <1>2, FS_Injection

\* What the baseline leaves of a key: never fewer than the surplus, and exactly
\* the surplus when it leaves any.
LEMMA SurplusIsShown ==
    ASSUME NEW S, Listed(S), NEW entries, \A key \in DOMAIN entries : entries[key] \in Nat,
           NEW key
    PROVE  /\ Shown(Unhidden(S, entries), key) + Count(entries, key) >= Shown(S, key)
           /\ Shown(Unhidden(S, entries), key) > 0 =>
                 Shown(Unhidden(S, entries), key) + Count(entries, key) = Shown(S, key)
<1> DEFINE c      == Count(entries, key)
           group  == OfKey(S, key)
           shown  == OfKey(Unhidden(S, entries), key)
           hid    == group \ shown
           n      == Cardinality(group)
<1>1. c \in Nat
  BY CountIsNat
<1>2. IsFiniteSet(S) /\ IsFiniteSet(Unhidden(S, entries)) /\ IsFiniteSet(group)
  BY FS_Subset DEF Listed, Unhidden, OfKey
<1>3. /\ shown = {d \in group : Occurrence(d, S) > c}
      /\ hid = {d \in group : ~(Occurrence(d, S) > c)}
  BY DEF Unhidden, OfKey
<1>4. /\ Shown(S, key) = n /\ n \in Nat
      /\ Shown(Unhidden(S, entries), key) = Cardinality(shown)
      /\ IsFiniteSet(shown)
  BY <1>2, ShownIs
<1>5. /\ \A d \in group : Occurrence(d, S) \in 1..n
      /\ \A d, e \in group : Occurrence(d, S) = Occurrence(e, S) => d = e
  BY OccurrencesAreNumbered
<1>6. /\ IsFiniteSet(hid) /\ Cardinality(hid) \in Nat /\ Cardinality(shown) \in Nat
      /\ Cardinality(hid) = n - Cardinality(shown)
  <2>1. shown \subseteq group
    BY <1>3
  <2>2. IsFiniteSet(hid) /\ Cardinality(hid) \in Nat /\ Cardinality(shown) \in Nat
    BY <1>2, <1>4, FS_Subset, FS_CardinalityType
  <2>3. group \cap shown = shown
    BY <2>1
  <2>4. Cardinality(group \ shown) = Cardinality(group) - Cardinality(group \cap shown)
    BY <1>2, FS_Difference
  <2> QED
    BY <2>2, <2>3, <2>4
<1> HIDE DEF c, group, shown, hid, n
<1>7. Cardinality(hid) <= c
  <2>1. \A d \in hid : Occurrence(d, S) \in 1..c
    BY <1>1, <1>3, <1>4, <1>5
  <2>2. \A d, e \in hid : Occurrence(d, S) = Occurrence(e, S) => d = e
    BY <1>3, <1>5
  <2>3. Cardinality(hid) <= c - 1 + 1
    <3> DEFINE f == [d \in hid |-> Occurrence(d, S)]
    <3>1. f \in [hid -> 1..c] /\ \A d, e \in hid : f[d] = f[e] => d = e
      BY <2>1, <2>2
    <3> HIDE DEF f
    <3> QED
      BY <1>1, <1>6, <3>1, FitsInAnInterval
  <2> QED
    BY <1>1, <1>6, <2>3
<1>8. ASSUME Cardinality(shown) > 0 PROVE Cardinality(shown) <= n - c
  <2>1. PICK d \in shown : TRUE
    BY <1>8, FS_EmptySet
  <2>2. c + 1 <= n
    BY <2>1, <1>1, <1>3, <1>4, <1>5
  <2>3. \A e \in shown : Occurrence(e, S) \in (c + 1)..n
    BY <1>1, <1>3, <1>4, <1>5
  <2>4. \A e, g \in shown : Occurrence(e, S) = Occurrence(g, S) => e = g
    BY <1>3, <1>5
  <2>5. Cardinality(shown) <= n - (c + 1) + 1
    <3> DEFINE f == [e \in shown |-> Occurrence(e, S)]
    <3>1. f \in [shown -> (c + 1)..n] /\ \A e, g \in shown : f[e] = f[g] => e = g
      BY <2>3, <2>4
    <3>2. c + 1 \in Nat /\ c + 1 <= n + 1
      BY <1>1, <1>4, <2>2
    <3> HIDE DEF f
    <3> QED
      BY <1>4, <3>1, <3>2, FitsInAnInterval
  <2> QED
    BY <1>1, <1>4, <1>6, <2>5
<1> QED
  BY <1>1, <1>4, <1>6, <1>7, <1>8 DEF c

(***************************************************************************)
(* The invariant.                                                          *)
(***************************************************************************)

OfTheProject(diagnostics) ==
    \A d \in diagnostics : d.file \in Files /\ d = On(d.file, d.finding)

NatCounts(entries) == \A key \in DOMAIN entries : entries[key] \in Nat

\* A baseline file holds no more than was last recorded, and exactly that
\* while nothing happened to it.
Faithful(file) ==
    /\ file # NoBaseline =>
        /\ NatCounts(file.entries)
        /\ \A key \in DOMAIN file.entries : file.entries[key] <= Count(recorded, key)
    /\ recordedFrom # NoBaseline =>
        IF file = NoBaseline THEN recorded = NoEntries ELSE file.entries = recorded

\* The baseline step is behind the run.
Settled == pc \in {"persist", "plan", "write", "fill", "rename", "finish", "done"}

Hiding ==
    /\ presented \subseteq outcome
    /\ hidden = Cardinality(outcome) - Cardinality(presented)
    /\ mode = "ignore" => presented = outcome
    /\ mode = "apply" =>
        \A d \in outcome \ presented : Count(recorded, Fingerprint(d)) > 0

BaselineInvariant ==
    /\ IsFiniteSet(errors) /\ configured \in Nat
    /\ NatCounts(recorded)
    /\ Faithful(baseline)
    /\ pc \in {"analyze", "baseline"} => Faithful(loaded) /\ hidden = 0
    /\ Answered => OfTheProject(outcome)
    /\ Settled => Hiding
    /\ BaselineHidesOnlyRecorded
    /\ VerdictIsHonest

\* What a run reports when nothing of it fails and nothing is stored.
ColdReport ==
    UNION {{On(f, x) : x \in Composed(texts[f], UntypedPortion(texts[f], texts),
                                      TypedPortion(texts[f], texts))} : f \in Files}

LEMMA ColdIs == \A f : ColdOf(f) = Composed(texts[f], UntypedPortion(texts[f], texts),
                                            TypedPortion(texts[f], texts))
BY DEF ColdOf, Cold, Composed, UntypedPortion, TypedPortion

LEMMA ColdReportIs ==
    /\ \A f \in Files : \A x \in ColdOf(f) : On(f, x) \in ColdReport
    /\ \A d \in ColdReport : \E f \in Files : \E x \in ColdOf(f) : d = On(f, x)
BY ColdIs DEF ColdReport

LEMMA ColdIsListed ==
    ASSUME ReportsAreWellFormed, texts \in Projects
    PROVE  Listed(ColdReport)
<1> DEFINE Part(f) == {On(f, x) : x \in ColdOf(f)}
<1>1. \A f \in Files : /\ IsFiniteSet(ColdOf(f))
                       /\ \A x \in ColdOf(f) : Numbered(x)
                       /\ \A x, y \in ColdOf(f) : SamePlace(x, y) => x = y
  BY ColdIs DEF ReportsAreWellFormed, WellFormedReport
<1>2. \A f \in Files : IsFiniteSet(Part(f))
  <2> TAKE f \in Files
  <2> DEFINE on == [x \in ColdOf(f) |-> On(f, x)]
  <2>1. on \in Surjection(ColdOf(f), Part(f))
    BY DEF Surjection
  <2> QED
    BY <1>1, <2>1, FS_Surjection
<1>3. IsFiniteSet({Part(f) : f \in Files})
  <2> DEFINE part == [f \in Files |-> Part(f)]
  <2>1. part \in Surjection(Files, {Part(f) : f \in Files})
    BY DEF Surjection
  <2> QED
    BY <2>1, FS_Surjection, ReportAssumption
<1>4. IsFiniteSet(ColdReport)
  <2>1. ColdReport = UNION {Part(f) : f \in Files}
    BY ColdIs DEF ColdReport
  <2>2. \A T \in {Part(f) : f \in Files} : IsFiniteSet(T)
    BY <1>2
  <2> HIDE DEF Part
  <2> QED
    BY <1>3, <2>1, <2>2, FS_UNION
<1>5. \A d \in ColdReport : d.file \in Files /\ d.finding \in ColdOf(d.file) /\ d = On(d.file, d.finding)
  BY ColdReportIs DEF On
<1>6. \A d \in ColdReport : d.file \in Nat /\ Numbered(d.finding)
  BY <1>1, <1>5, ReportAssumption
<1>7. \A d, e \in ColdReport : d.file = e.file /\ SamePlace(d.finding, e.finding) => d = e
  BY <1>1, <1>5
<1> QED
  BY <1>4, <1>6, <1>7 DEF Listed

\* What the analysis answered is part of the cold report, and all of it when
\* nothing failed.
LEMMA OutcomeIsCold ==
    ASSUME AnswerInvariant, BaselineInvariant, Answered
    PROVE  /\ outcome \subseteq ColdReport
           /\ errors = {} => /\ outcome = ColdReport
                             /\ \A f \in Files : Findings(f) = ColdOf(f)
<1>1. \A d \in outcome : d.file \in Files /\ d = On(d.file, d.finding) /\ d.finding \in Findings(d.file)
  BY DEF BaselineInvariant, OfTheProject, Findings
<1>2. \A f \in Files : Findings(f) \subseteq ColdOf(f)
  BY DEF AnswerInvariant
<1>3. outcome \subseteq ColdReport
  BY <1>1, <1>2, ColdReportIs
<1>4. ASSUME errors = {} PROVE \A f \in Files : Findings(f) = ColdOf(f)
  BY <1>4 DEF AnswerInvariant, Panicked
<1>5. ASSUME errors = {} PROVE ColdReport \subseteq outcome
  <2> SUFFICES ASSUME NEW f \in Files, NEW x \in ColdOf(f) PROVE On(f, x) \in outcome
    BY ColdReportIs
  <2>1. x \in Findings(f)
    BY <1>4, <1>5
  <2>2. PICK d \in outcome : d.file = f /\ d.finding = x
    BY <2>1 DEF Findings
  <2> QED
    BY <1>1, <2>2
<1> QED
  BY <1>3, <1>4, <1>5

LEMMA OutcomeIsListed ==
    ASSUME ReportsAreWellFormed, texts \in Projects,
           AnswerInvariant, BaselineInvariant, Answered
    PROVE  Listed(outcome) /\ Listed(ColdReport)
<1>1. outcome \subseteq ColdReport
  BY OutcomeIsCold
<1>2. Listed(ColdReport)
  BY ColdIsListed
<1>3. IsFiniteSet(outcome)
  BY <1>1, <1>2, FS_Subset DEF Listed
<1> QED
  BY <1>1, <1>2, <1>3 DEF Listed

LEMMA CountsAreNat ==
    ASSUME NEW S, IsFiniteSet(S)
    PROVE  NatCounts(Counts(S))
<1>1. \A key \in DOMAIN Counts(S) : Shown(S, key) = Counts(S)[key]
  BY DEF Shown, Count
<1> QED
  BY <1>1, ShownIs DEF NatCounts

\* Fewer findings count no more.
LEMMA CountsGrow ==
    ASSUME NEW T, IsFiniteSet(T), NEW S, S \subseteq T, NEW key
    PROVE  Shown(S, key) <= Shown(T, key)
<1>1. OfKey(S, key) \subseteq OfKey(T, key)
  BY DEF OfKey
<1>2. IsFiniteSet(S)
  BY FS_Subset
<1>3. IsFiniteSet(OfKey(T, key))
  BY ShownIs
<1>4. Cardinality(OfKey(S, key)) <= Cardinality(OfKey(T, key))
  BY <1>1, <1>3, FS_Subset
<1> QED
  BY <1>2, <1>4, ShownIs

LEMMA BaselineInit == Init => BaselineInvariant
<1> SUFFICES ASSUME Init PROVE BaselineInvariant
  OBVIOUS
<1>1. pc = "idle" /\ errors = {} /\ configured = 0 /\ baseline = NoBaseline
      /\ recorded = NoEntries /\ recordedFrom = NoBaseline
  BY DEF Init
<1>2. NatCounts(NoEntries)
  BY DEF NatCounts, NoEntries
<1> QED
  BY <1>1, <1>2, FS_EmptySet DEF BaselineInvariant, Faithful, Answered, Settled,
     BaselineHidesOnlyRecorded, Decided, VerdictIsHonest

\* Whatever a step leaves of the baseline's business stays as it was.
LEMMA BaselineStands ==
    ASSUME BaselineInvariant,
           UNCHANGED <<run, answer, history, baseline>>,
           IsFiniteSet(errors'),
           pc' \in {"analyze", "baseline"} => pc' = pc,
           Answered' => Answered,
           Settled' => Settled,
           pc' = "persist" => pc = "persist",
           pc' = "done" => pc = "done" /\ UNCHANGED <<verdict, errors>>
    PROVE  BaselineInvariant'
<1>1. UNCHANGED <<mode, threshold, texts, loaded, configured, outcome, presented, hidden,
                  notices, recorded, recordedFrom, baseline>>
  BY DEF run, answer, history
<1>2. Faithful(baseline)' = Faithful(baseline) /\ Faithful(loaded)' = Faithful(loaded)
  BY <1>1 DEF Faithful
<1>3. Hiding' = Hiding
  BY <1>1 DEF Hiding, Fingerprint
<1>4. OfTheProject(outcome)' = OfTheProject(outcome)
  BY <1>1 DEF OfTheProject
<1>5. BaselineHidesOnlyRecorded'
  <2>1. \A S, key : Shown(S, key)' = Shown(S, key)
    BY <1>1 DEF Shown, Counts, Fingerprint
  <2>2. DOMAIN Counts(outcome)' = DOMAIN Counts(outcome)
    BY <1>1 DEF Counts, Fingerprint
  <2>3. Decided' => Decided
    BY DEF Decided
  <2>4. BaselineHidesOnlyRecorded
    BY DEF BaselineInvariant
  <2>5. \A S, key : (Shown(S, key))' = Shown(S, key)
    BY <2>1
  <2> SUFFICES ASSUME Decided', mode' = "apply" PROVE BaselineHidesOnlyRecorded'
    BY DEF BaselineHidesOnlyRecorded
  <2> QED
    BY <1>1, <2>1, <2>2, <2>3, <2>4 DEF BaselineHidesOnlyRecorded, Shown
<1>6. VerdictIsHonest'
  <2> SUFFICES ASSUME pc' = "done" PROVE VerdictIsHonest'
    BY DEF VerdictIsHonest
  <2>1. UNCHANGED <<verdict, errors, pc>>
    OBVIOUS
  <2>2. /\ \A f : ColdOf(f)' = ColdOf(f)
        /\ \A d : Fingerprint(d)' = Fingerprint(d)
    BY <1>1 DEF ColdOf, Cold, Fingerprint
  <2>3. VerdictIsHonest
    BY DEF BaselineInvariant
  <2>4. \A f : Cold(texts[f], SuppressionDirectives(texts[f]))'
                  = Cold(texts[f], SuppressionDirectives(texts[f]))
    BY <2>2 DEF ColdOf
  <2> QED
    BY <1>1, <2>1, <2>2, <2>3, <2>4 DEF VerdictIsHonest
<1> QED
  BY <1>1, <1>2, <1>3, <1>4, <1>5, <1>6 DEF BaselineInvariant

LEMMA BaselineElsewhere ==
    ASSUME BaselineInvariant,
           \/ RecordFails \/ RenderFails \/ Persist \/ PassOver \/ SkipForeign \/ SkipOverlap
           \/ Accept \/ Planned \/ OpenTemp \/ FillTemp \/ Rename \/ Unappliable \/ ApplyFails
           \/ OutputFails \/ Kill \/ Edit \/ UNCHANGED vars
    PROVE  BaselineInvariant'
<1>1. UNCHANGED <<run, answer, history, baseline>>
  BY DEF RecordFails, RenderFails, Persist, PassOver, SkipForeign, SkipOverlap, Accept,
         Considering, Planned, OpenTemp, FillTemp, Rename, Unappliable, ApplyFails,
         ApplyingLeaves, OutputFails, Kill, Edit, project, vars
<1>2. errors' = errors \/ \E e : errors' = errors \cup {e}
  BY DEF RecordFails, RenderFails, Persist, PassOver, SkipForeign, SkipOverlap, Accept,
         Considering, Planned, OpenTemp, FillTemp, Rename, Unappliable, ApplyFails, Fail,
         OutputFails, Kill, Edit, vars
<1>3. IsFiniteSet(errors')
  BY <1>2, FS_AddElement DEF BaselineInvariant
<1>4. /\ pc' \in {"analyze", "baseline"} => pc' = pc
      /\ Answered' => Answered
      /\ Settled' => Settled
      /\ pc' = "persist" => pc = "persist"
      /\ pc' = "done" => pc = "done" /\ UNCHANGED <<verdict, errors>>
  BY DEF RecordFails, RenderFails, Persist, PassOver, SkipForeign, SkipOverlap, Accept,
         Considering, Planned, OpenTemp, FillTemp, Rename, Unappliable, ApplyFails, Fail,
         OutputFails, Kill, Edit, vars, Answered, Settled, Idle
<1> QED
  BY <1>1, <1>3, <1>4, BaselineStands

LEMMA BaselineStarts ==
    ASSUME BaselineInvariant, Start
    PROVE  BaselineInvariant'
<1>1. PICK unreadable \in {{}} \cup {{f} : f \in Files} :
        errors' = {[kind |-> "unreadable", file |-> f] : f \in unreadable}
  BY DEF Start
<1>2. IsFiniteSet(errors')
  <2>1. CASE unreadable = {}
    BY <1>1, <2>1, FS_EmptySet
  <2>2. CASE unreadable # {}
    <3>1. PICK f \in Files : unreadable = {f}
      BY <2>2
    <3>2. errors' = {[kind |-> "unreadable", file |-> f]}
      BY <1>1, <3>1
    <3> QED
      BY <3>2, FS_Singleton
  <2> QED
    BY <2>1, <2>2
<1>3. /\ configured' \in Nat /\ loaded' = baseline /\ pc' = "analyze" /\ hidden' = 0
      /\ UNCHANGED <<baseline, recorded, recordedFrom>>
  BY DEF Start, project, history
<1>4. Faithful(baseline)' /\ Faithful(loaded)' /\ NatCounts(recorded)'
  BY <1>3 DEF BaselineInvariant, Faithful
<1> QED
  BY <1>2, <1>3, <1>4 DEF BaselineInvariant, Answered, Settled,
     BaselineHidesOnlyRecorded, Decided, VerdictIsHonest

LEMMA BaselineWaits ==
    ASSUME AnswerInvariant, BaselineInvariant, Analyze \/ AnalysisPanics
    PROVE  BaselineInvariant'
<1>1. /\ pc = "analyze" /\ pc' = "baseline"
      /\ UNCHANGED <<baseline, loaded, configured, hidden, recorded, recordedFrom>>
  BY DEF Analyze, AnalysisPanics, project, run, history, answer
<1>2. IsFiniteSet(errors')
  <2>1. CASE AnalysisPanics
    BY <2>1, FS_AddElement DEF AnalysisPanics, BaselineInvariant
  <2>2. CASE Analyze
    <3>1. PICK panicked \in {{}} \cup {{f} : f \in Files} :
            errors' = errors \cup {[kind |-> "panicked", file |-> f] : f \in panicked}
      BY <2>2 DEF Analyze
    <3>2. errors' = errors \/ \E f : errors' = errors \cup {[kind |-> "panicked", file |-> f]}
      BY <3>1
    <3> QED
      BY <3>2, FS_AddElement DEF BaselineInvariant
  <2> QED
    BY <2>1, <2>2
<1>3. OfTheProject(outcome)'
  <2>1. CASE Analyze
    BY <2>1 DEF Analyze, OfTheProject, On
  <2>2. CASE AnalysisPanics
    BY <2>2, <1>1 DEF AnalysisPanics, answer, AnswerInvariant, OfTheProject
  <2> QED
    BY <2>1, <2>2
<1>4. Faithful(baseline)' /\ Faithful(loaded)' /\ NatCounts(recorded)'
  BY <1>1 DEF BaselineInvariant, Faithful
<1> QED
  BY <1>1, <1>2, <1>3, <1>4 DEF BaselineInvariant, Settled,
     BaselineHidesOnlyRecorded, Decided, VerdictIsHonest

\* Recording writes what the run answered, which is no more than the cold
\* report and exactly that when nothing failed.
LEMMA BaselineRecords ==
    ASSUME ReportsAreWellFormed, NoBaselineIsNoFile, texts \in Projects,
           AnswerInvariant, BaselineInvariant, Record
    PROVE  BaselineInvariant'
<1>1. /\ pc = "baseline" /\ mode = "record" /\ mode' = mode /\ pc' = "persist"
      /\ presented' = {} /\ hidden' = Cardinality(outcome) /\ outcome' = outcome
      /\ errors' = errors /\ configured' = configured
      /\ recorded' = Counts(ColdReport)
      /\ recordedFrom' = IF errors = {} THEN texts ELSE NoBaseline
  BY DEF Record, run, ColdReport
<1>2. \/ baseline' = NoBaseline /\ Counts(outcome) = NoEntries
      \/ baseline' = Written(Counts(outcome))
  BY DEF Record
<1>3. Answered
  BY <1>1 DEF Answered
<1>4. Listed(outcome) /\ Listed(ColdReport)
  BY <1>3, OutcomeIsListed
<1>5. IsFiniteSet(outcome) /\ IsFiniteSet(ColdReport)
  BY <1>4 DEF Listed
<1>6. outcome \subseteq ColdReport /\ (errors = {} => outcome = ColdReport)
  BY <1>3, OutcomeIsCold
<1>7. NatCounts(recorded')
  BY <1>1, <1>5, CountsAreNat
<1>8. Faithful(baseline)'
  <2>1. ASSUME baseline' # NoBaseline
        PROVE  /\ NatCounts(baseline'.entries)
               /\ \A key \in DOMAIN baseline'.entries :
                     baseline'.entries[key] <= Count(recorded', key)
    <3>1. baseline'.entries = Counts(outcome)
      BY <1>2, <2>1 DEF Written
    <3>2. \A key \in DOMAIN Counts(outcome) : Counts(outcome)[key] = Shown(outcome, key)
      BY DEF Shown, Count
    <3>3. \A key : Shown(outcome, key) <= Count(recorded', key)
      BY <1>1, <1>5, <1>6, CountsGrow DEF Shown
    <3> QED
      BY <1>5, <3>1, <3>2, <3>3, CountsAreNat
  <2>2. ASSUME recordedFrom' # NoBaseline
        PROVE  IF baseline' = NoBaseline THEN recorded' = NoEntries
               ELSE baseline'.entries = recorded'
    <3>1. recorded' = Counts(outcome)
      BY <1>1, <1>6, <2>2
    <3> QED
      BY <1>2, <3>1 DEF Written, NoBaselineIsNoFile
  <2> QED
    BY <2>1, <2>2 DEF Faithful
<1>9. Hiding'
  <2>1. Cardinality({}) = 0 /\ Cardinality(outcome) \in Nat
    BY <1>5, FS_EmptySet, FS_CardinalityType
  <2> QED
    BY <1>1, <2>1 DEF Hiding
<1>10. OfTheProject(outcome)'
  BY <1>1, <1>3 DEF BaselineInvariant, OfTheProject
<1> QED
  BY <1>1, <1>7, <1>8, <1>9, <1>10 DEF BaselineInvariant,
     BaselineHidesOnlyRecorded, VerdictIsHonest

LEMMA BaselineIgnored ==
    ASSUME ReportsAreWellFormed, texts \in Projects,
           AnswerInvariant, BaselineInvariant, Ignore
    PROVE  BaselineInvariant'
<1>1. /\ pc = "baseline" /\ mode = "ignore" /\ pc' = "persist" /\ presented' = outcome
      /\ UNCHANGED <<mode, texts, configured, outcome, hidden, errors, baseline, recorded,
                     recordedFrom>>
  BY DEF Ignore, run, project, history
<1>2. Answered
  BY <1>1 DEF Answered
<1>3. IsFiniteSet(outcome)
  BY <1>2, OutcomeIsListed DEF Listed
<1>4. Hiding'
  <2>1. Cardinality(outcome) \in Nat /\ hidden = 0
    BY <1>1, <1>3, FS_CardinalityType DEF BaselineInvariant
  <2> QED
    BY <1>1, <2>1 DEF Hiding
<1>5. Faithful(baseline)' /\ NatCounts(recorded)' /\ OfTheProject(outcome)'
  BY <1>1, <1>2 DEF BaselineInvariant, Faithful, OfTheProject
<1> QED
  BY <1>1, <1>4, <1>5 DEF BaselineInvariant, BaselineHidesOnlyRecorded, VerdictIsHonest

\* Applying hides what was recorded and shows the surplus.
LEMMA BaselineApplied ==
    ASSUME ReportsAreWellFormed, texts \in Projects,
           AnswerInvariant, BaselineInvariant, Apply
    PROVE  BaselineInvariant'
<1>1. /\ pc = "baseline" /\ mode = "apply" /\ pc' = "persist"
      /\ UNCHANGED <<mode, texts, loaded, configured, outcome, errors, baseline, recorded,
                     recordedFrom>>
  BY DEF Apply, run, project, history
<1>2. /\ Answered /\ Faithful(loaded) /\ NatCounts(recorded)
  BY <1>1 DEF Answered, BaselineInvariant
<1>3. Listed(outcome) /\ IsFiniteSet(outcome)
  BY <1>2, OutcomeIsListed DEF Listed
<1>4. \A key : Count(recorded, key) \in Nat
  BY <1>2, CountIsNat DEF NatCounts
<1>5. \A key : Shown(outcome, key) \in Nat
  BY <1>3, ShownIs
<1>6. NoBaseline # loaded => NatCounts(loaded.entries)
  BY <1>2 DEF Faithful
<1>7. presented' \subseteq outcome /\ hidden' = Cardinality(outcome) - Cardinality(presented')
  <2>1. Cardinality(outcome) \in Nat
    BY <1>3, FS_CardinalityType
  <2> QED
    BY <2>1 DEF Apply, Unhidden
<1>8. ASSUME NEW key
      PROVE  /\ Shown(presented', key) + Count(recorded, key) >= Shown(outcome, key)
             /\ (recordedFrom # NoBaseline /\ Shown(presented', key) > 0) =>
                    Shown(presented', key) + Count(recorded, key) = Shown(outcome, key)
  <2>1. CASE loaded = NoBaseline
    <3>1. presented' = outcome
      BY <2>1 DEF Apply
    <3>2. recordedFrom # NoBaseline => Count(recorded, key) = 0
      BY <1>2, <2>1 DEF Faithful, Count, NoEntries
    <3> QED
      BY <1>4, <1>5, <3>1, <3>2
  <2>2. CASE loaded # NoBaseline
    <3>1. presented' = Unhidden(outcome, loaded.entries)
      BY <2>2 DEF Apply
    <3>2. Count(loaded.entries, key) <= Count(recorded, key)
      BY <1>2, <1>4, <2>2 DEF Faithful, Count
    <3>3. recordedFrom # NoBaseline => loaded.entries = recorded
      BY <1>2, <2>2 DEF Faithful
    <3>4. /\ Shown(presented', key) + Count(loaded.entries, key) >= Shown(outcome, key)
          /\ Shown(presented', key) > 0 =>
                 Shown(presented', key) + Count(loaded.entries, key) = Shown(outcome, key)
      BY <1>3, <1>6, <2>2, <3>1, SurplusIsShown DEF NatCounts
    <3>5. Shown(presented', key) \in Nat /\ Count(loaded.entries, key) \in Nat
      <4>1. IsFiniteSet(presented')
        BY <1>3, <1>7, FS_Subset
      <4> QED
        BY <4>1, <1>6, <2>2, ShownIs, CountIsNat DEF NatCounts
    <3> QED
      BY <1>4, <1>5, <3>2, <3>3, <3>4, <3>5
  <2> QED
    BY <2>1, <2>2
<1>9. ASSUME recordedFrom # NoBaseline
      PROVE  "obsolete" \in notices' <=>
                 \E key \in DOMAIN recorded : Shown(outcome, key) < recorded[key]
  <2>1. CASE loaded = NoBaseline
    <3>1. notices' = {} /\ recorded = NoEntries
      BY <1>2, <1>9, <2>1 DEF Apply, Faithful
    <3> QED
      BY <3>1 DEF NoEntries
  <2>2. CASE loaded # NoBaseline
    <3>1. loaded.entries = recorded
      BY <1>2, <1>9, <2>2 DEF Faithful
    <3>2. "obsolete" \in notices' <=> Obsolete(outcome, recorded) # {}
      BY <2>2, <3>1 DEF Apply
    <3> QED
      BY <3>2 DEF Obsolete, Shown
  <2> QED
    BY <2>1, <2>2
<1>10. ASSUME NEW d \in outcome, d \notin presented'
       PROVE  Count(recorded, Fingerprint(d)) > 0
  <2>1. loaded # NoBaseline /\ presented' = Unhidden(outcome, loaded.entries)
    BY <1>10 DEF Apply
  <2>2. ~(Occurrence(d, outcome) > Count(loaded.entries, Fingerprint(d)))
    BY <1>10, <2>1 DEF Unhidden
  <2>3. Occurrence(d, outcome) \in Nat \ {0}
    <3>1. d \in OfKey(outcome, Fingerprint(d))
      BY DEF OfKey
    <3>2. Occurrence(d, outcome) \in 1..Cardinality(OfKey(outcome, Fingerprint(d)))
      BY <1>3, <3>1, OccurrencesAreNumbered
    <3> QED
      BY <3>2
  <2>4. Count(loaded.entries, Fingerprint(d)) \in Nat
    BY <1>6, <2>1, CountIsNat DEF NatCounts
  <2>5. Count(loaded.entries, Fingerprint(d)) <= Count(recorded, Fingerprint(d))
    BY <1>2, <1>4, <2>1 DEF Faithful, Count
  <2> QED
    BY <1>4, <2>2, <2>3, <2>4, <2>5
<1>11. BaselineHidesOnlyRecorded'
  <2>1. \A key : /\ Shown(presented, key)' = Shown(presented', key)
                 /\ Shown(outcome, key)' = Shown(outcome, key)
    BY <1>1 DEF Shown, Counts, Fingerprint
  <2> QED
    BY <1>1, <1>7, <1>8, <1>9, <2>1 DEF BaselineHidesOnlyRecorded
<1>12. Hiding'
  <2>1. \A d : Fingerprint(d)' = Fingerprint(d)
    BY <1>1 DEF Fingerprint
  <2> QED
    BY <1>1, <1>7, <1>10, <2>1 DEF Hiding
<1>13. Faithful(baseline)' /\ NatCounts(recorded)' /\ OfTheProject(outcome)'
  BY <1>1, <1>2 DEF BaselineInvariant, Faithful, OfTheProject
<1> QED
  BY <1>1, <1>11, <1>12, <1>13 DEF BaselineInvariant, VerdictIsHonest

LEMMA BaselineFinishes ==
    ASSUME ReportsAreWellFormed, texts \in Projects,
           AnswerInvariant, BaselineInvariant, Finish
    PROVE  BaselineInvariant'
<1>1. /\ pc \in {"finish", "write"} /\ pc' = "done"
      /\ verdict' = OutcomeOf(Cardinality(outcome) - hidden + configured, Cardinality(errors))
      /\ UNCHANGED <<mode, texts, loaded, configured, outcome, presented, hidden, errors,
                     baseline, recorded, recordedFrom>>
  BY DEF Finish, run, answer, project, history
<1>2. Answered /\ Settled /\ Hiding
  BY <1>1 DEF Answered, Settled, BaselineInvariant
<1>3. IsFiniteSet(outcome) /\ IsFiniteSet(presented)
  BY <1>2, OutcomeIsListed, FS_Subset DEF Listed, Hiding
<1>4. /\ Cardinality(outcome) \in Nat /\ Cardinality(presented) \in Nat
      /\ Cardinality(presented) = 0 <=> presented = {}
      /\ Cardinality(errors) \in Nat
      /\ Cardinality(errors) = 0 <=> errors = {}
      /\ configured \in Nat
  BY <1>3, FS_CardinalityType, FS_EmptySet DEF BaselineInvariant
<1>5. verdict' = OutcomeOf(Cardinality(presented) + configured, Cardinality(errors))
  BY <1>1, <1>2, <1>4 DEF Hiding
<1>6. ASSUME verdict' = "clean"
      PROVE  /\ errors = {} /\ configured = 0 /\ presented = {}
             /\ mode = "ignore" => \A f \in Files : ColdOf(f) = {}
             /\ mode = "apply" => \A f \in Files : \A x \in ColdOf(f) :
                                     Count(recorded, Fingerprint(On(f, x))) > 0
  <2>1. errors = {} /\ configured = 0 /\ presented = {}
    BY <1>4, <1>5, <1>6 DEF OutcomeOf
  <2>2. \A f \in Files : \A x \in ColdOf(f) : On(f, x) \in outcome
    BY <1>2, <2>1, OutcomeIsCold, ColdReportIs
  <2> QED
    BY <1>2, <2>1, <2>2 DEF Hiding
<1>7. VerdictIsHonest'
  <2>1. /\ \A f : Cold(texts[f], SuppressionDirectives(texts[f]))' = ColdOf(f)
        /\ \A d : Fingerprint(d)' = Fingerprint(d)
    BY <1>1 DEF ColdOf, Cold, Fingerprint
  <2>2. (verdict' = "internalError") <=> (errors # {})
    BY <1>4, <1>5 DEF OutcomeOf
  <2>3. verdict' = "diagnosticsReported" => presented # {} \/ configured > 0
    BY <1>4, <1>5 DEF OutcomeOf
  <2> QED
    BY <1>1, <1>6, <2>1, <2>2, <2>3 DEF VerdictIsHonest
<1>8. Hiding'
  BY <1>1, <1>2 DEF Hiding, Fingerprint
<1>9. Faithful(baseline)' /\ NatCounts(recorded)' /\ OfTheProject(outcome)'
  BY <1>1, <1>2 DEF BaselineInvariant, Faithful, OfTheProject
<1> QED
  BY <1>1, <1>7, <1>8, <1>9 DEF BaselineInvariant, BaselineHidesOnlyRecorded, Decided

\* What becomes of the baseline file between two runs.
LEMMA BaselineEdited ==
    ASSUME BaselineInvariant, EditBaseline
    PROVE  BaselineInvariant'
<1>1. pc' = "idle" /\ UNCHANGED <<errors, configured>>
  BY DEF EditBaseline, run
<1>2. Faithful(baseline)' /\ NatCounts(recorded)'
  <2>1. CASE LoseEntries
    <3>1. PICK lost : baseline' =
              [entries  |-> Restrict(baseline.entries, DOMAIN baseline.entries \ lost),
               failures |-> TRUE]
      BY <2>1 DEF LoseEntries
    <3>2. recordedFrom' = NoBaseline /\ recorded' = recorded /\ baseline # NoBaseline
      BY <2>1 DEF LoseEntries, EditBaseline
    <3>3. /\ DOMAIN baseline'.entries \subseteq DOMAIN baseline.entries
          /\ \A key \in DOMAIN baseline'.entries : baseline'.entries[key] = baseline.entries[key]
      BY <3>1 DEF Restrict
    <3> QED
      BY <3>2, <3>3 DEF BaselineInvariant, Faithful, NatCounts
  <2>2. CASE DoubleEntries
    <3>1. PICK twice : /\ baseline' = [baseline EXCEPT !.entries = Doubled(@, twice)]
                       /\ recorded' = Doubled(recorded, twice)
      BY <2>2 DEF DoubleEntries
    <3>2. recordedFrom' = NoBaseline /\ baseline # NoBaseline
      BY <2>2 DEF DoubleEntries, EditBaseline
    <3>3. /\ NatCounts(baseline.entries) /\ NatCounts(recorded)
          /\ \A key \in DOMAIN baseline.entries : baseline.entries[key] <= Count(recorded, key)
      BY <3>2 DEF BaselineInvariant, Faithful
    <3>4. NatCounts(recorded')
      BY <3>1, <3>3 DEF NatCounts, Doubled
    <3>5. ASSUME baseline' # NoBaseline
          PROVE  /\ NatCounts(baseline'.entries)
                 /\ \A key \in DOMAIN baseline'.entries :
                       baseline'.entries[key] <= Count(recorded', key)
      <4>1. baseline'.entries = Doubled(baseline.entries, twice)
        BY <3>1
      <4>2. DOMAIN baseline'.entries = DOMAIN baseline.entries /\ DOMAIN recorded' = DOMAIN recorded
        BY <3>1, <4>1 DEF Doubled
      <4>3. ASSUME NEW key \in DOMAIN baseline.entries
            PROVE  /\ baseline'.entries[key] \in Nat
                   /\ baseline'.entries[key] <= Count(recorded', key)
        <5>1. Count(recorded', key) = IF key \in twice THEN 2 * Count(recorded, key)
                                      ELSE Count(recorded, key)
          BY <3>1, <4>2 DEF Count, Doubled
        <5>2. /\ baseline.entries[key] \in Nat /\ Count(recorded, key) \in Nat
              /\ baseline.entries[key] <= Count(recorded, key)
          BY <3>3, CountIsNat DEF NatCounts
        <5>3. baseline'.entries[key] = IF key \in twice THEN 2 * baseline.entries[key]
                                       ELSE baseline.entries[key]
          BY <4>1 DEF Doubled
        <5> QED
          BY <5>1, <5>2, <5>3
      <4> QED
        BY <4>2, <4>3 DEF NatCounts
    <3> QED
      BY <3>2, <3>4, <3>5 DEF Faithful
  <2>3. CASE DeleteBaseline
    BY <2>3 DEF DeleteBaseline, Faithful, NatCounts, NoEntries
  <2> QED
    BY <2>1, <2>2, <2>3 DEF EditBaseline
<1> QED
  BY <1>1, <1>2 DEF BaselineInvariant, Answered, Settled, BaselineHidesOnlyRecorded,
     Decided, VerdictIsHonest

LEMMA BaselineNext ==
    ASSUME ReportsAreWellFormed, NoBaselineIsNoFile, texts \in Projects,
           AnswerInvariant, BaselineInvariant, [Next]_vars
    PROVE  BaselineInvariant'
<1>1. CASE \/ RecordFails \/ RenderFails \/ Persist \/ PassOver \/ SkipForeign \/ SkipOverlap
           \/ Accept \/ Planned \/ OpenTemp \/ FillTemp \/ Rename \/ Unappliable \/ ApplyFails
           \/ OutputFails \/ Kill \/ Edit \/ UNCHANGED vars
  BY <1>1, BaselineElsewhere
<1>2. CASE Start
  BY <1>2, BaselineStarts
<1>3. CASE Analyze \/ AnalysisPanics
  BY <1>3, BaselineWaits
<1>4. CASE Record
  BY <1>4, BaselineRecords
<1>5. CASE Apply
  BY <1>5, BaselineApplied
<1>6. CASE Ignore
  BY <1>6, BaselineIgnored
<1>7. CASE Finish
  BY <1>7, BaselineFinishes
<1>8. CASE EditBaseline
  BY <1>8, BaselineEdited
<1> QED
  BY <1>1, <1>2, <1>3, <1>4, <1>5, <1>6, <1>7, <1>8 DEF Next

\* What the baseline needs of the rest of the run.
LEMMA FixesReadProjects == FixInvariant => AnswerInvariant /\ texts \in Projects
BY DEF FixInvariant, LandingInvariant, ReadInvariant

LEMMA BaselineCorrect ==
    ASSUME FactsAreSound, RulesOfferEdits, EditsAreBytes, ReportsAreWellFormed,
           NoBaselineIsNoFile
    PROVE  Spec => []BaselineInvariant
<1>1. Init => BaselineInvariant
  BY BaselineInit
<1>2. FixInvariant /\ BaselineInvariant /\ [Next]_vars => BaselineInvariant'
  BY BaselineNext, FixesReadProjects
<1> QED
  BY <1>1, <1>2, FixCorrect, PTL DEF Spec

\* Whatever was recorded, lost, left twice by a merge or deleted before, in
\* whatever order: no run hides more occurrences than the last recording saw,
\* each counted again for every copy of its entry.
THEOREM HidesOnlyRecorded ==
    ASSUME FactsAreSound, RulesOfferEdits, EditsAreBytes, ReportsAreWellFormed,
           NoBaselineIsNoFile
    PROVE  Spec => []BaselineHidesOnlyRecorded
<1>1. BaselineInvariant => BaselineHidesOnlyRecorded
  BY DEF BaselineInvariant
<1> QED
  BY <1>1, BaselineCorrect, PTL

\* Exit 0 is a promise about the project, kept whatever was served from the
\* cache, hidden, fixed or failed on the way.
THEOREM Honest ==
    ASSUME FactsAreSound, RulesOfferEdits, EditsAreBytes, ReportsAreWellFormed,
           NoBaselineIsNoFile
    PROVE  Spec => []VerdictIsHonest
<1>1. BaselineInvariant => VerdictIsHonest
  BY DEF BaselineInvariant
<1> QED
  BY <1>1, BaselineCorrect, PTL

(***************************************************************************)
(* A recording and the code it was made from.                              *)
(***************************************************************************)

\* Wherever code moves, its findings go with it.
FindingsMoveWithTheCode ==
    \A before, after \in Projects : Moves(before, after) => FindingsMove(before, after)

\* The report, the keys and the counts of a project, whichever run reads it.
FileReport(all, f) == Composed(all[f], UntypedPortion(all[f], all), TypedPortion(all[f], all))
ReportOf(all) == UNION {{On(f, x) : x \in FileReport(all, f)} : f \in Files}
KeyIn(all, d) ==
    [file |-> d.file, id |-> d.finding.id,
     symbol |-> Symbol(all[d.file], d.finding.start), message |-> d.finding.message]
CountsIn(all, S) ==
    [key \in {KeyIn(all, d) : d \in S} |-> Cardinality({d \in S : KeyIn(all, d) = key})]

LEMMA OfThisRun ==
    /\ ColdReport = ReportOf(texts)
    /\ \A d : Fingerprint(d) = KeyIn(texts, d)
    /\ \A S : Counts(S) = CountsIn(texts, S)
<1>1. ColdReport = ReportOf(texts)
  BY DEF ColdReport, ReportOf, FileReport
<1>2. \A d : Fingerprint(d) = KeyIn(texts, d)
  BY DEF Fingerprint, KeyIn
<1>3. \A S : Counts(S) = CountsIn(texts, S)
  BY <1>2 DEF Counts, CountsIn
<1> QED
  BY <1>1, <1>2, <1>3

LEMMA ReportOfIs ==
    ASSUME NEW all
    PROVE  /\ \A f \in Files : \A x \in FileReport(all, f) : On(f, x) \in ReportOf(all)
           /\ \A d \in ReportOf(all) : /\ d.file \in Files
                                       /\ d.finding \in FileReport(all, d.file)
                                       /\ d = On(d.file, d.finding)
BY DEF ReportOf, On

\* A text without comments suppresses nothing.
LEMMA NothingSuppressed ==
    ASSUME NEW text, NEW all, Comments(text) = {}
    PROVE  Composed(text, UntypedPortion(text, all), TypedPortion(text, all))
              = FindingsOf(text, all)
<1>1. SuppressionDirectives(text) = {}
  BY DEF SuppressionDirectives
<1>2. \A S : /\ RetainUnsuppressed(text, {}, S).diagnostics = S
             /\ RetainUnsuppressed(text, {}, S).matched = {}
  BY DEF RetainUnsuppressed
<1>3. ReportingPhase(text, {}, {}) = {}
  <2>1. Unknowns({}) = {} /\ Unuseds({}, {}) = {}
    BY DEF Unknowns, Unuseds
  <2> QED
    BY <2>1 DEF ReportingPhase
<1> QED
  BY <1>1, <1>2, <1>3 DEF Composed, UntypedPortion, TypedPortion, FindingsOf

\* How one file's report goes where its code goes.
Follows(before, after, f, move) ==
    /\ move \in Bijection(FileReport(before, f), FileReport(after, f))
    /\ \A x \in FileReport(before, f) : SameWords(before[f], x, after[f], move[x])

LEMMA FileMoves ==
    ASSUME FindingsMoveWithTheCode, NEW before \in Projects, NEW after \in Projects,
           Moves(before, after), NEW f \in Files
    PROVE  \E move : Follows(before, after, f, move)
<1>1. CASE before[f] = after[f]
  <2>1. FileReport(before, f) = FileReport(after, f)
    BY <1>1 DEF FindingsMoveWithTheCode, FindingsMove, FileReport, UntypedPortion, TypedPortion
  <2> DEFINE still == [x \in FileReport(before, f) |-> x]
  <2>2. still \in Bijection(FileReport(before, f), FileReport(after, f))
    BY <2>1 DEF Bijection, Injection, IsInjective, Surjection
  <2>3. Follows(before, after, f, still)
    BY <1>1, <2>2 DEF Follows, SameWords
  <2> QED
    BY <2>3
<1>2. CASE before[f] # after[f]
  <2>1. Comments(before[f]) = {} /\ Comments(after[f]) = {}
    BY <1>2 DEF Moves, Moved
  <2>2. /\ FileReport(before, f) = FindingsOf(before[f], before)
        /\ FileReport(after, f) = FindingsOf(after[f], after)
    BY <2>1, NothingSuppressed DEF FileReport
  <2> QED
    BY <1>2, <2>2 DEF FindingsMoveWithTheCode, FindingsMove, Follows
<1> QED
  BY <1>1, <1>2

\* The whole report, one for one, under the same keys.
LEMMA ReportMoves ==
    ASSUME FindingsMoveWithTheCode, NEW before \in Projects, NEW after \in Projects,
           Moves(before, after)
    PROVE  \E move \in Bijection(ReportOf(before), ReportOf(after)) :
               \A d \in ReportOf(before) : KeyIn(after, move[d]) = KeyIn(before, d)
<1> DEFINE way(f) == CHOOSE move : Follows(before, after, f, move)
           all  == [d \in ReportOf(before) |-> On(d.file, way(d.file)[d.finding])]
<1>1. \A f \in Files : Follows(before, after, f, way(f))
  BY FileMoves
<1> HIDE DEF way
<1>2. \A f \in Files :
        /\ \A x \in FileReport(before, f) : way(f)[x] \in FileReport(after, f)
        /\ \A x, y \in FileReport(before, f) : way(f)[x] = way(f)[y] => x = y
        /\ \A y \in FileReport(after, f) : \E x \in FileReport(before, f) : way(f)[x] = y
  BY <1>1 DEF Follows, Bijection, Injection, IsInjective, Surjection
<1>3. \A f, x : On(f, x).file = f /\ On(f, x).finding = x
  BY DEF On
<1>4. \A d \in ReportOf(before) :
        /\ all[d] = On(d.file, way(d.file)[d.finding])
        /\ all[d] \in ReportOf(after)
        /\ all[d].file = d.file /\ all[d].finding = way(d.file)[d.finding]
  BY <1>2, <1>3, ReportOfIs
<1>5. \A d, e \in ReportOf(before) : all[d] = all[e] => d = e
  BY <1>2, <1>4, ReportOfIs
<1>6. \A e \in ReportOf(after) : \E d \in ReportOf(before) : all[d] = e
  <2> TAKE e \in ReportOf(after)
  <2>1. /\ e.file \in Files /\ e.finding \in FileReport(after, e.file)
        /\ e = On(e.file, e.finding)
    BY ReportOfIs
  <2>2. PICK x \in FileReport(before, e.file) : way(e.file)[x] = e.finding
    BY <1>2, <2>1
  <2>3. On(e.file, x) \in ReportOf(before)
    BY <2>1, <2>2, ReportOfIs
  <2>4. all[On(e.file, x)] = e
    BY <1>3, <1>4, <2>1, <2>2, <2>3
  <2> QED
    BY <2>3, <2>4
<1>7. \A d \in ReportOf(before) : KeyIn(after, all[d]) = KeyIn(before, d)
  <2> TAKE d \in ReportOf(before)
  <2>1. SameWords(before[d.file], d.finding, after[d.file], way(d.file)[d.finding])
    BY <1>1, ReportOfIs DEF Follows
  <2> QED
    BY <1>4, <2>1 DEF KeyIn, SameWords
<1>8. all \in [ReportOf(before) -> ReportOf(after)]
  BY <1>4
<1> HIDE DEF all
<1>9. all \in Bijection(ReportOf(before), ReportOf(after))
  BY <1>5, <1>6, <1>8 DEF Bijection, Injection, IsInjective, Surjection
<1> QED
  BY <1>7, <1>9

LEMMA ReportIsFinite ==
    ASSUME ReportsAreWellFormed, NEW all \in Projects
    PROVE  IsFiniteSet(ReportOf(all))
<1> DEFINE Part(f) == {On(f, x) : x \in FileReport(all, f)}
<1>1. \A f \in Files : IsFiniteSet(Part(f))
  <2> TAKE f \in Files
  <2> DEFINE on == [x \in FileReport(all, f) |-> On(f, x)]
  <2>1. on \in Surjection(FileReport(all, f), Part(f))
    BY DEF Surjection
  <2>2. IsFiniteSet(FileReport(all, f))
    BY DEF ReportsAreWellFormed, WellFormedReport, FileReport
  <2> QED
    BY <2>1, <2>2, FS_Surjection
<1>2. IsFiniteSet({Part(f) : f \in Files})
  <2> DEFINE part == [f \in Files |-> Part(f)]
  <2>1. part \in Surjection(Files, {Part(f) : f \in Files})
    BY DEF Surjection
  <2> QED
    BY <2>1, FS_Surjection, ReportAssumption
<1>3. \A T \in {Part(f) : f \in Files} : IsFiniteSet(T)
  BY <1>1
<1>4. ReportOf(all) = UNION {Part(f) : f \in Files}
  BY DEF ReportOf
<1> HIDE DEF Part
<1> QED
  BY <1>2, <1>3, <1>4, FS_UNION

\* Moving code changes no count.
LEMMA CountsMove ==
    ASSUME FindingsMoveWithTheCode, ReportsAreWellFormed,
           NEW before \in Projects, NEW after \in Projects, Moves(before, after)
    PROVE  CountsIn(after, ReportOf(after)) = CountsIn(before, ReportOf(before))
<1>1. PICK move \in Bijection(ReportOf(before), ReportOf(after)) :
          \A d \in ReportOf(before) : KeyIn(after, move[d]) = KeyIn(before, d)
  BY ReportMoves
<1>2. /\ \A d \in ReportOf(before) : move[d] \in ReportOf(after)
      /\ \A d, e \in ReportOf(before) : move[d] = move[e] => d = e
      /\ \A e \in ReportOf(after) : \E d \in ReportOf(before) : move[d] = e
  BY <1>1 DEF Bijection, Injection, IsInjective, Surjection
<1> DEFINE Group(all, key) == {d \in ReportOf(all) : KeyIn(all, d) = key}
<1>3. {KeyIn(after, d) : d \in ReportOf(after)} = {KeyIn(before, d) : d \in ReportOf(before)}
  BY <1>1, <1>2
<1>4. ASSUME NEW key
      PROVE  Cardinality(Group(after, key)) = Cardinality(Group(before, key))
  <2> DEFINE part == [d \in Group(before, key) |-> move[d]]
  <2>1. \A d \in Group(before, key) : part[d] = move[d] /\ part[d] \in Group(after, key)
    BY <1>1, <1>2
  <2>2. \A d, e \in Group(before, key) : part[d] = part[e] => d = e
    BY <1>2, <2>1
  <2>3. \A e \in Group(after, key) : \E d \in Group(before, key) : part[d] = e
    BY <1>1, <1>2
  <2>4. part \in [Group(before, key) -> Group(after, key)]
    BY <2>1
  <2>5. IsFiniteSet(Group(before, key))
    BY ReportIsFinite, FS_Subset
  <2> HIDE DEF part, Group
  <2>6. part \in Bijection(Group(before, key), Group(after, key))
    BY <2>2, <2>3, <2>4 DEF Bijection, Injection, IsInjective, Surjection
  <2>7. ExistsBijection(Group(before, key), Group(after, key))
    BY <2>6 DEF ExistsBijection
  <2> QED
    BY <2>5, <2>7, FS_Bijection
<1>5. \A all : CountsIn(all, ReportOf(all))
                 = [key \in {KeyIn(all, d) : d \in ReportOf(all)} |-> Cardinality(Group(all, key))]
  BY DEF CountsIn
<1> HIDE DEF Group
<1> QED
  BY <1>3, <1>4, <1>5

\* While nothing happened to the file since the recording, it counts the report
\* of the texts it was recorded from and was read without a failure.
Sound(file) == file # NoBaseline => ~file.failures

RecordingInvariant ==
    /\ recordedFrom # NoBaseline =>
        /\ recordedFrom \in Projects
        /\ recorded = CountsIn(recordedFrom, ReportOf(recordedFrom))
        /\ Sound(baseline)
        /\ pc \in {"analyze", "baseline"} => Sound(loaded)
    /\ BaselineSurvivesMoves

LEMMA RecordingStands ==
    ASSUME RecordingInvariant, UNCHANGED <<recorded, recordedFrom, baseline, loaded>>,
           pc' \in {"analyze", "baseline"} => pc \in {"analyze", "baseline"},
           pc' = "persist" => /\ pc = "persist" /\ (errors' = {} => errors = {})
                              /\ UNCHANGED <<mode, texts, presented, notices>>
    PROVE  RecordingInvariant'
BY DEF RecordingInvariant, Sound, BaselineSurvivesMoves, Decided, Moves

LEMMA RecordingElsewhere ==
    ASSUME RecordingInvariant,
           \/ Analyze \/ AnalysisPanics \/ RecordFails \/ RenderFails \/ Persist \/ PassOver
           \/ SkipForeign \/ SkipOverlap \/ Accept \/ Planned \/ OpenTemp \/ FillTemp \/ Rename
           \/ Unappliable \/ ApplyFails \/ Finish \/ OutputFails \/ Kill \/ Edit \/ UNCHANGED vars
    PROVE  RecordingInvariant'
<1>1. UNCHANGED <<recorded, recordedFrom, baseline, loaded>>
  BY DEF Analyze, AnalysisPanics, RecordFails, RenderFails, Persist, PassOver, SkipForeign,
         SkipOverlap, Accept, Considering, Planned, OpenTemp, FillTemp, Rename, Unappliable,
         ApplyFails, ApplyingLeaves, Finish, OutputFails, Kill, Edit, project, run, history, vars
<1>2. pc' \in {"analyze", "baseline"} => pc \in {"analyze", "baseline"}
  BY DEF Analyze, AnalysisPanics, RecordFails, RenderFails, Persist, PassOver, SkipForeign,
         SkipOverlap, Accept, Considering, Planned, OpenTemp, FillTemp, Rename, Unappliable,
         ApplyFails, Fail, Finish, OutputFails, Kill, Edit, vars
<1>3. pc' = "persist" => /\ pc = "persist" /\ (errors' = {} => errors = {})
                         /\ UNCHANGED <<mode, texts, presented, notices>>
  BY DEF Analyze, AnalysisPanics, RecordFails, RenderFails, Persist, PassOver, SkipForeign,
         SkipOverlap, Accept, Considering, Planned, OpenTemp, FillTemp, Rename, Unappliable,
         ApplyFails, Fail, Finish, OutputFails, Kill, Edit, vars, run, answer
<1> QED
  BY <1>1, <1>2, <1>3, RecordingStands

\* A run that read the file as recorded, over code that only moved.
LEMMA MovesAreHidden ==
    ASSUME FindingsMoveWithTheCode, ReportsAreWellFormed, texts \in Projects,
           AnswerInvariant, BaselineInvariant, RecordingInvariant, Apply,
           errors = {}, recordedFrom # NoBaseline, Moves(recordedFrom, texts)
    PROVE  presented' = {} /\ notices' = {}
<1>1. pc = "baseline" /\ Answered
  BY DEF Apply, Answered
<1>2. outcome = ColdReport /\ Listed(outcome) /\ IsFiniteSet(outcome)
  BY <1>1, OutcomeIsCold, OutcomeIsListed DEF Listed
<1>3. recorded = Counts(outcome)
  <2>1. CountsIn(texts, ReportOf(texts)) = CountsIn(recordedFrom, ReportOf(recordedFrom))
    BY CountsMove DEF RecordingInvariant
  <2> QED
    BY <1>2, <2>1, OfThisRun DEF RecordingInvariant
<1>4. Faithful(loaded) /\ Sound(loaded)
  BY <1>1 DEF BaselineInvariant, RecordingInvariant
<1>5. CASE loaded = NoBaseline
  <2>1. Counts(outcome) = NoEntries
    BY <1>3, <1>4, <1>5 DEF Faithful
  <2>2. DOMAIN Counts(outcome) = {Fingerprint(d) : d \in outcome} /\ DOMAIN NoEntries = {}
    BY DEF Counts, NoEntries
  <2>3. outcome = {}
    BY <2>1, <2>2
  <2> QED
    BY <1>5, <2>3 DEF Apply
<1>6. CASE loaded # NoBaseline
  <2>1. loaded.entries = Counts(outcome) /\ ~loaded.failures
    BY <1>3, <1>4, <1>6 DEF Faithful, Sound
  <2>2. Unhidden(outcome, Counts(outcome)) = {}
    <3> SUFFICES ASSUME NEW d \in outcome
                 PROVE  ~(Occurrence(d, outcome) > Count(Counts(outcome), Fingerprint(d)))
      BY DEF Unhidden
    <3> DEFINE key == Fingerprint(d)
    <3>1. d \in OfKey(outcome, key)
      BY DEF OfKey
    <3>2. Occurrence(d, outcome) \in 1..Cardinality(OfKey(outcome, key))
      BY <1>2, <3>1, OccurrencesAreNumbered
    <3>3. /\ Count(Counts(outcome), key) = Cardinality(OfKey(outcome, key))
          /\ Count(Counts(outcome), key) \in Nat
      BY <1>2, ShownIs DEF Shown
    <3> HIDE DEF key
    <3> QED
      BY <3>2, <3>3 DEF key
  <2>3. Obsolete(outcome, Counts(outcome)) = {}
    <3> SUFFICES ASSUME NEW key \in DOMAIN Counts(outcome)
                 PROVE  ~(Count(Counts(outcome), key) < Counts(outcome)[key])
      BY DEF Obsolete
    <3>1. Count(Counts(outcome), key) = Counts(outcome)[key]
      BY DEF Count
    <3>2. Count(Counts(outcome), key) \in Nat
      BY <1>2, ShownIs DEF Shown
    <3> QED
      BY <3>1, <3>2
  <2> QED
    BY <1>6, <2>1, <2>2, <2>3 DEF Apply
<1> QED
  BY <1>5, <1>6

LEMMA RecordingNext ==
    ASSUME FindingsMoveWithTheCode, ReportsAreWellFormed, texts \in Projects,
           AnswerInvariant, BaselineInvariant, RecordingInvariant, [Next]_vars
    PROVE  RecordingInvariant'
<1>1. CASE \/ Analyze \/ AnalysisPanics \/ RecordFails \/ RenderFails \/ Persist \/ PassOver
           \/ SkipForeign \/ SkipOverlap \/ Accept \/ Planned \/ OpenTemp \/ FillTemp \/ Rename
           \/ Unappliable \/ ApplyFails \/ Finish \/ OutputFails \/ Kill \/ Edit \/ UNCHANGED vars
  BY <1>1, RecordingElsewhere
<1>2. CASE Start
  <2>1. loaded' = baseline /\ pc' = "analyze" /\ UNCHANGED <<recorded, recordedFrom, baseline>>
    BY <1>2 DEF Start, project, history
  <2> QED
    BY <2>1 DEF RecordingInvariant, Sound, BaselineSurvivesMoves, Decided
<1>3. CASE Record
  <2>1. /\ mode' = "record" /\ pc' = "persist" /\ texts' = texts
        /\ recorded' = Counts(ColdReport)
        /\ recordedFrom' = IF errors = {} THEN texts ELSE NoBaseline
        /\ baseline' = NoBaseline \/ baseline' = Written(Counts(outcome))
    BY <1>3 DEF Record, run, ColdReport
  <2>2. recorded' = CountsIn(texts, ReportOf(texts))
    BY <2>1, OfThisRun
  <2>3. Sound(baseline)'
    BY <2>1 DEF Sound, Written
  <2>4. recordedFrom' # NoBaseline =>
            /\ recordedFrom' \in Projects
            /\ recorded' = CountsIn(recordedFrom', ReportOf(recordedFrom'))
    BY <2>1, <2>2
  <2> QED
    BY <2>1, <2>3, <2>4 DEF RecordingInvariant, BaselineSurvivesMoves
<1>4. CASE Apply
  <2>1. /\ pc = "baseline" /\ pc' = "persist"
        /\ UNCHANGED <<loaded, errors, texts, baseline, recorded, recordedFrom>>
    BY <1>4 DEF Apply, run, project, history
  <2>2. BaselineSurvivesMoves'
    <3> SUFFICES ASSUME errors' = {}, recordedFrom' # NoBaseline, Moves(recordedFrom', texts')
                 PROVE  (presented' = {} /\ notices' = {})
      BY DEF BaselineSurvivesMoves
    <3>1. errors = {} /\ recordedFrom # NoBaseline /\ Moves(recordedFrom, texts)
      BY <2>1
    <3> QED
      BY <1>4, <3>1, MovesAreHidden
  <2> QED
    BY <2>1, <2>2 DEF RecordingInvariant, Sound
<1>5. CASE Ignore
  BY <1>5 DEF Ignore, run, project, history, RecordingInvariant, Sound, BaselineSurvivesMoves
<1>6. CASE EditBaseline
  <2>1. pc' = "idle" /\ (LoseEntries \/ DoubleEntries \/ DeleteBaseline)
    BY <1>6 DEF EditBaseline
  <2>2. recordedFrom' = NoBaseline
    BY <2>1 DEF LoseEntries, DoubleEntries, DeleteBaseline
  <2> QED
    BY <2>1, <2>2 DEF RecordingInvariant, BaselineSurvivesMoves, Decided
<1> QED
  BY <1>1, <1>2, <1>3, <1>4, <1>5, <1>6 DEF Next

\* What a recording hid stays hidden when the code it is about moves, whatever
\* ran, failed or was fixed in between: the run reports nothing and the
\* baseline is neither obsolete nor invalid.
THEOREM SurvivesMoves ==
    ASSUME FactsAreSound, RulesOfferEdits, EditsAreBytes, ReportsAreWellFormed,
           NoBaselineIsNoFile, FindingsMoveWithTheCode
    PROVE  Spec => []BaselineSurvivesMoves
<1>1. Init => RecordingInvariant
  BY DEF Init, RecordingInvariant, BaselineSurvivesMoves, Decided
<1>2. FixInvariant /\ BaselineInvariant /\ RecordingInvariant /\ [Next]_vars
         => RecordingInvariant'
  BY RecordingNext, FixesReadProjects
<1>3. RecordingInvariant => BaselineSurvivesMoves
  BY DEF RecordingInvariant
<1> QED
  BY <1>1, <1>2, <1>3, FixCorrect, BaselineCorrect, PTL DEF Spec
============================================================================
