# Celerrate, specified

TLA+ models of Celerrate, a PHP analyser written in Rust: its watch loop when edits, threads and
signals interleave; its persistent cache when processes share it, crash and are killed; the fixpoint
of its return types over cyclic calls and class hierarchies; and what becomes of a finding on its way
through suppression, baseline, fixes and the exit code. They are checked with TLC on small instances
and, for what matters most, proved with TLAPS for instances of any size. Every definition is translated from the code
under `src/`; `PROJECT.json` maps each one to its lines.

## 1. The system

Celerrate analyses a PHP project and prints diagnostics. `celerrate check` does it once;
`celerrate check --watch` keeps a session alive, re-analyses on every edit and reprints the whole
picture. Around that sit an on-disk cache, automatic fixes, a baseline of accepted diagnostics and
several output formats.

| Component | State it keeps | Operations | Hard behaviours | What makes it correct |
|---|---|---|---|---|
| **Watch loop** `celerrate_cli/watch.rs` | the `notify` watcher, one channel, the roots it was built over, the refused paths, the sender cell shared with the signal handler; per pass: the worker thread, the burst, the shutdown flag | `spawn`, `iteration`, `completed_cycle`, `cycle`, `drain_burst`, `resynchronize`, the signal handler | four threads; cancellation through a blocking setter; a channel that is replaced while in use; events consumed by a question | the picture is of the project; no edit is forgotten while something watches it; a request to stop is carried out |
| **Session** `celerrate_cli/session.rs` | salsa inputs (`sources`, range, rules), the VFS, the discovery, the internal errors, the cache snapshot | `start`, `load`, `absorb`, `rediscover`, `apply`, `inputs`, `forget_analysis_errors` | two maps of the same files that are moved by diffs of one another; a walk and a read that are two moments | the VFS and the analyzed set agree; what the walk dropped stays dropped |
| **VFS and walk** `celerrate_vfs` | interned paths, disk contents, overlays, changed set | `set_file_contents`, `take_changes`, `enumerate_php_files` | a diff against effective contents | a change is reported once and only when contents moved |
| **Analysis** `celerrate_cli/analysis.rs` | none: a pass over its inputs | `analyze`, composition of a file's diagnostics from cached and fresh portions | panics per file and as a whole; cancellation | served and recomputed diagnostics are the same |
| **Cache** `celerrate_cli/cache` | four packs on disk, the loaded snapshot, the range and digest it was loaded under | `load`, `persist`, `write_when_changed`, `sweep_crash_debris`, `lookup_verdict` | several processes on one directory; crashes between write and rename; configuration moving under a loaded snapshot | a verdict is served only where recomputing would give it |
| **Fix and edit** `celerrate_cli/fix.rs`, `celerrate_edit` | an edit set per file; a temporary per file written | `plan`, `find_conflict`, `apply_to_disk` | conflicting fixes; boundaries of adjacent edits; a crash between write and rename | fixes land whole or not at all, and none is refused for nothing |
| **Baseline** `celerrate_cli/baseline` | counted entries | `record`, `apply`, ignore | counts that exceed what is found; entries that match nothing; a file that loses entries | nothing is hidden that was not recorded |
| **Suppression** `comment_directives.rs`, `analysis.rs`, the reporting phase of `celerrate_rules` | none | resolve a directive's scope, filter, report the useless ones | two halves of a file's findings served from different runs; directives about directives | a directive called unused hides nothing |
| **Discovery and configuration** `celerrate_project`, `celerrate_config` | none | `discover`, `parse`, `validate` | constraint algebra | the range is what the constraint allows |
| **Linearization** `celerrate_semantics/linearize.rs`, `member_lookup.rs` | a breadth-first queue per class | `linearized_class`, `lookup_member` | cycles of parents; traits of traits, aliased and excluded; stubs behind stubs | a member's `self` is the class it was pasted into |
| **Inference** `celerrate_types/inference.rs`, `flow/calls.rs`, `records.rs` | salsa queries, active and finished; stored signatures | `inferred_function_return`, `inferred_method_return`, `validated_stored_return`, `ascend` | cyclic calls, from whichever body is asked first; a stored answer served into a cycle; queries that may not be re-entered | it ends, panics nowhere, and answers the least solution |
| **Other semantics and types** | salsa queries | symbol tables, narrowing, norm, judgments | none that is concurrent | - |
| **Syntax** | event buffer, green tree | lexing, parsing | error recovery that must progress | every byte is in the tree |
| **Rules, diagnostics, output, migration, stubs, PHPDoc** | tables, text | formatting and translation | none that is concurrent | - |
| **Distribution** `packages/composer-bootstrap`, `install.sh` | a downloaded binary | fetch, verify, place | interrupted downloads | only a verified binary is installed |

How they interact: the watcher's callback thread *sends* changed paths to the loop's channel; the
signal handler sends on the same channel through a shared cell; the loop *calls* the session; the
session *sets* salsa inputs, which cancels the worker's queries and waits for the worker to let go
of its handle; the worker reads those inputs; the session reads the *file system*, which the user
edits; and a finished pass is *persisted* into packs that the next process loads. Inside a pass a body's
walk *asks* other bodies' returns, and a return asks the stored signature of the last run before it
walks; both ask the member tables. What a pass answers goes through the directives, the baseline and
the fix pass, each of which reads what the one before it left, while the packs are persisted from the
analysis and never from what was shown.

`PROJECT.json` lists every component with its status, and the hazards: the places in this code where
something can go wrong that a test would hardly reach, each with the properties that would catch it.

## 2. The modules

| Module | What it models |
|---|---|
| `Session` | What a session does to its maps, as pure operators: a burst of reads, the VFS diff, its reconciliation with the analyzed set, the full reload. |
| `Watch` | `celerrate check --watch` as a state machine over `Session`: one action per step of the loop, of the worker, of the watcher's callback, of the signal handler and of the user. |
| `Picture` | What the watch promises, stated without threads or channels: absorb, show, save, close, abort. |
| `WatchInvariants` | The inductive invariant of `Watch`, in named parts. |
| `WatchProofs` | The types of `Watch`, its inductive invariant, its safety properties and the refinement of `Picture`, proved. |
| `MCWatch` | Small instances of `Watch` for TLC. |
| `Artifacts` | What an analysis derives from a project and what it looks up on the way, as pure operators: trees, the two halves of a file's diagnostics, the answers each half was given. |
| `Cache` | `celerrate_cli/cache`: any number of processes that load, serve from, and rewrite the packs of one `.celerrate/cache`, over `Artifacts`. |
| `ColdCheck` | What the cache promises: a check that has none. |
| `CacheProofs` | The types of `Cache`, its inductive invariant, its safety properties, the refinement of `ColdCheck`, and what a persist leaves on disk and warm, proved. |
| `MCCache` | Small instances of `Cache` for TLC. |
| `Hierarchy` | The member table of a class-like: the breadth-first walk of `linearized_class`, one action per class visited or edge followed, and `lookup_member` over its result. |
| `Inference` | The inferred returns of functions and methods over `Hierarchy`: a stack of active queries, cycle heads that iterate, stored signatures that are validated and served, run after run. |
| `HierarchyProofs` | Where an entry of a member table comes from, in which order the walk lets entries in, and that the table is a function of the program, proved. |
| `InferenceProofs` | The stack of active queries, the tables over any number of runs, and what finished answers cover, served ones included, proved. |
| `RunProofs` | `Inference` from one run to the next: stored signatures of an unedited project stand, and the answers of a program whose walks only join are the least ones, proved. |
| `MCInference` | Small programs for `Inference`. |
| `Directives` | Suppression of one file's findings, as pure operators: scopes, filters, use, the reporting phase. |
| `Edits` | `find_conflict` and the splice of `celerrate_edit`, with the order-free question they stand for. |
| `Decoding` | The bytes of a file and the text read in them: the byte-order mark, malformed sequences, `is_pristine`. |
| `Report` | One `check` after another: verdicts, directives, baseline, fix plan, writes and exit code, over `Directives`, `Edits` and `Decoding`. |
| `EditsProofs` | What comparing neighbours decides, and what the splice writes, proved for any text and any edits. |
| `ReportProofs` | The warm report, the unused directives, the plan of the fix pass and what of it lands on disk, proved. |
| `BaselineProofs` | What the baseline may hide, that it survives code that moves, and what exit 0 promises, proved. |
| `MCReport` | A small instance of `Report`. |

`Watch` composes `Session` and implements `Picture`; `Cache` composes `Artifacts` and implements
`ColdCheck`; `Inference` composes `Hierarchy`; `Report` composes `Directives`, `Edits` and `Decoding`. They meet at
what each leaves abstract: a pass is one step of `Watch`, a pass over packs in `Cache`, a run of queries
in `Inference` and the source of findings in `Report`.

### How `Watch` corresponds to the code

The program counter `pc` names where the loop is: a blocking point (`poll`, `wait`, `join`), or the
file-system read it makes next. Everything the code does between two such points is one action; the
user, the callback, the worker and the signals step at each of them.

| State | Code |
|---|---|
| `disk`, `manifest`, `exists` | the project directory, which only the user changes |
| `watched`, `declared`, `refused` | `Watch::_watcher`, `Watch::declared`, `Watch::unwatchable` |
| `os` | events the kernel holds and the callback has yet to send; a set, as the kernel coalesces |
| `events` | the channel |
| `next` | `Built`, between `build` and the swap of `resynchronize` |
| `changed`, `shutdown`, `inCycle` | the locals of `cycle` and `iteration` |
| `worker`, `input` | the analysis thread and the `AnalysisInputs` it was given |
| `layout`, `found` | `Session::discovery` and the settings derived from it; the discovery just made |
| `vfs`, `sources`, `mutations`, `reached` | the VFS contents, the salsa inputs, the mutations in hand, the walk |
| `unreadable`, `panicked`, `unwatchable` | the three families of `Session::internal_errors` the loop moves |
| `shown`, `persisted`, `exit` | the rendered picture, what the packs were last written from, the outcome |
| `signal`, `observed` | the first signal, and whether the loop has read it |
| `lost`, `edited`, `appeared` | history only: edits nothing will report, edits since an absorption began, paths created since the last registration looked |

| Actions | Code |
|---|---|
| `Spawn` | `Watch::spawn`, `install_shutdown_handler` |
| `Iterate`, `Restart` | entering `cycle` from `completed_cycle`, and its own `continue` |
| `PollChange`, `PollShutdown`, `PollTimeout`, `CheckFinished` | the polling loop of `cycle` |
| `DrainChange`, `DrainEnd`, `DrainShutdown` | `drain_burst`, inside a pass and between passes |
| `AbsorbFiles`; `Rediscover`, `Refresh`, `WalkProject`, `Load`; `ApplyMutations` | the two branches of `Session::absorb`, and the setters both end in |
| `Resynchronize`, `BuildLooks`, `BuildRegisters`, `BuildFails`, `Swap` | `Watch::resynchronize` and `build` |
| `JoinOvertaken`, `JoinCompleted`, `JoinPanicked`, `RenderFails` | the end of `cycle` and of `completed_cycle` |
| `PersistQuiet`, `PersistSkipped`, `PersistAtShutdown`, `WaitChange`, `WaitShutdown`, `GracefulExit` | `persist_unless_a_burst_is_already_waiting` and the rest of `iteration` |
| `WorkerFinishes`, `WorkerUnwinds`, `WorkerPanics` | the three ways `analyze` ends |
| `Deliver`, `FirstSignal`, `Kill`, `EditFile`, `SaveManifest`, `CreateRoot` | the callback, the handler, and the environment |

What is abstracted, and why nothing is lost by it:

- Contents are a few model values. The properties tell apart absent, unreadable, empty, poisonous
  (the analysis panics on it) and ordinary bytes.
- The reads of one burst are one step. Two files of a burst are independent in `absorb`; an edit
  that lands between two of its reads is the edit that lands just before or just after.
- `build` looks at the existence of all paths and then attempts all registrations; the code does it
  path by path. The order that matters, look before attempt, is kept for every path.
- `settings` stands for what else a manifest moves: the PHP range, the active rules, severities.
- The analysis is a function of its inputs, so a picture is represented by the inputs it was
  computed from (`Current`).
- `cycle`'s branch for a cancelled worker with nothing changed is left out: only the loop's own
  setters cancel, and they run only when something changed. So is a disconnected channel.
- Vendor roots are walk roots that are not watched; they are not modelled.

### How `Cache` corresponds to the code

| State | Code |
|---|---|
| `project` | the sources and manifests on disk, which only the user changes |
| `disk`, `temporaries` | the four `.bin` packs, and the `.tmp` files beside them |
| `seen` | the inputs of the session's database: sources, PHP range, active rules |
| `cache`, `loaded` | `Session::cache`, with `cache_loaded_range` and `cache_loaded_configuration_digest` |
| `seeded` | the snapshot given to `ArtifactCacheInput` once, at the start |
| `outcome` | the last `AnalysisOutcome`; `todo`, `answered` are the locals of `load` and `persist_timed` |
| `alien` | history only: packs someone else changed since this process last read or wrote them, or that an earlier, failed persist of its own wrote |

| Actions | Code |
|---|---|
| `Start`, `LoadPack`, `ReadSources` | `Session::start`: settings, then one pack after another, then the walk and the load |
| `Pass`, `Absorb`, `Exit` | `analyze` with `analyze_one` per file, `Session::absorb`, the end of `run` |
| `SkipPersist`, `PersistAgain` | `persist_unless_a_burst_is_already_waiting`, a panic while collecting; the flush of a graceful exit |
| `PrepareDirectory`, `SkipWrite`, `CreateTemporary`, `Rename`, `FinishPersist` | `prepare_directory` with the sweep, `write_when_changed`, `write_atomically`, the swap of the snapshot |
| `Kill`, `PrepareFails`, `WriteFails`, `Delete`, `Damage`, `Edit` | the environment |

A pack is its header and its entries, a header is what a process cannot change (`build`: schema,
binary, stubs, plugins) and what a manifest can (range, rules). Entries are keyed by text or by name,
as the code keys them. What a check computes is a value that records everything that could move it
(`Portion`): the tree it was computed from, the settings, and the answers to its look-ups. Two
portions are equal exactly when a recomputation would give the same diagnostics, so a stale one served
is a different value. That the recorded answers are *all* a check reads is the code's own obligation
(`records.rs` states it) and an assumption here.

- A text is a model value; the constants give the names it declares and looks up. Bytes `decode`
  rejects are one value, `Damaged`.
- The reads of one walk are one step, as are the reads of the manifests.
- A return type recorded for a callee is part of the surface its name answers with. How a stored
  signature is served is the subject of `Inference`.
- Conversions of stored diagnostics and directives fail only on a pack no build of the program wrote
  (the checksum holds and the header matches); they are left out, with the statistics.
- Methods of traits and anonymous classes are never stored; no text here declares one.

### How `Inference` corresponds to the code

| State | Code |
|---|---|
| `program` | the text of each file; a file declares one function or one class-like |
| `root`, `queue`, `visited`, `edges`, `members`, `virtuals`, `ancestry`; `tables` | the locals of `linearized_class`; its results |
| `stack` | the active queries: what each is, whether it validates a stored signature or computes, the answers it has been given, the cycle heads those rest on, the query it has called |
| `memo`, `scratch`, `provisional`, `moved`, `iteration` | salsa's finished memos, those of the current iteration, the provisional value of each head, which heads moved, the iteration |
| `records` | the fourth pack, as `collect_signature_entries` left it |
| `run`, `edited`, `panicked` | bookkeeping of the runs; salsa's panic |

| Actions | Code |
|---|---|
| `BeginWalk`, `Revisit`, `Visit`, `FollowEdge`, `FinishWalk` | the loop of `linearized_class` |
| `Demand` | a rule, or the collection of signatures, asking for a body: `inferred_body_types`, through `warm_the_cycle_safe_entry_point` |
| `Consult`, `Enter` | a query reading another's answer, or calling it; a body that is active has no way to recover |
| `GiveUp` | `validated_stored_return` meeting a mismatch |
| `Finish`, `Participate`, `AscendInside`, `Converge`, `Iterate` | salsa ending a query: final, part of a cycle, head inside a cycle, outermost head stable or not, with `ascend` as the recovery |
| `NextRun` | persisting the signatures, an edit or none, a new process |

salsa is external: its actions are modelled from how `inference.rs` declares its queries (`cycle_fn`,
`cycle_initial`, and their absence on body queries). What this code decides is modelled from it: which
query asks which (`Delegate`, `AsksNext`), what a call's type is (the tiers of `flow/calls.rs`), how a
member's placeholders are bound at its boundary, what an iteration may become (`Ascend`), what is
recorded of a body (`RecordOf`) and when a record holds (`RecordHolds`, `Mismatch`).

- A type is a set of alternatives; `mixed` absorbs, a list nested n deep is the number n. A body is its
  calls in order and what it returns. Branches and narrowing only choose among such bodies.
- `Union` is a set union under `mixed`. The arity cap past which a union collapses to a join
  (`UNION_ARITY_CAP`, `construction.rs`:217-226) and the collapse of `true|false` to `bool` are left out: the
  instance has neither so many alternatives nor literal booleans.
- A digest is the value it is computed from: two equal digests of different surfaces are not modelled.
- The queries a body asks for at one call are asked in any order.
- The budget and the depth cap are small numbers in the code's order: the budget below salsa's limit.

### How `Report` corresponds to the code

| State | Code |
|---|---|
| `disk`, `temp`, `baseline`, `cache` | the files, the `.celerrate-fix.tmp` siblings, `celerrate-baseline.toml`, the verdict pack |
| `mode`, `threshold`, `contents`, `texts`, `loaded`, `configured` | the arguments, the bytes a run read and the texts decoded from them, the baseline it read, the findings of its configuration |
| `outcome`, `presented`, `hidden`, `notices` | the analysis' diagnostics and what `baseline::apply` makes of them |
| `pending`, `considered`, `planned`, `skipped`, `writing` | the loop of `fix::plan`, and the files `apply_to_disk` has yet to write |
| `errors`, `verdict` | internal errors, the exit code |
| `recorded`, `recordedFrom` | history: what the last recording saw, counted again for every copy a merge made of an entry |

| Actions | Code |
|---|---|
| `Start`, `Analyze`, `AnalysisPanics` | `Session::start`; `analyze_one` per file behind its guard, and the guard around all of them |
| `Record`, `RecordFails`, `Apply`, `Ignore` | the three modes of the baseline |
| `RenderFails` | a diagnostic that could not be rendered (`absorb_render_failures`) |
| `Persist` | collecting verdicts from the analysis, after the baseline, before the fixes |
| `PassOver`, `SkipForeign`, `SkipOverlap`, `Accept`, `Planned` | one turn of the loop of `plan`, and its end |
| `OpenTemp`, `FillTemp`, `Rename`, `Unappliable`, `ApplyFails` | `apply_to_disk`, one file after another: `FixUnappliable` before its temporary is opened, `FixWriteFailed` after |
| `Finish`, `OutputFails` | `run`'s exit code; its early returns when the output cannot be written |
| `Kill`, `Edit`, `EditBaseline` | the environment |

- A text is a sequence of tokens and an offset counts tokens; no token spans two lines. A comment token
  says what its directives are.
- The bytes of a file are such a sequence as well: a byte-order mark is one token, a malformed sequence
  is one, and decoding drops the first and replaces the second (`Decoding`). What is on disk, what is hashed
  and what is compared is bytes; what is analysed, spliced and written back is text. `SourceTooLarge`
  (4 GiB) is not modelled.
- `OutputFails` stands for every early return of `run` on a writer that fails, of the rich report and of the
  machine formats; the latter persist first, which is its occurrence after `Persist` without fixes.
- A merge may lose entries of the baseline file, damage it or leave entries twice, whose counts `apply`
  adds up; it does not invent an entry nobody recorded.
- Rules are constants: what they find in a text of a project, what of the other files they asked, and
  what they suggest. That the recorded facts decide the findings is the rules' obligation
  (`FactsAreSound`), proved of nothing here and assumed by name where it is needed.
- A message is a number whose order is the order of the texts.
- The splice is written as the code has it, one pass with a cursor over the sorted edits: a recursive
  function over the order `Sorted` declares, which is the only one there is.
- No shipped suggestion edits another file than its own; `SkipForeign` is what `plan` promises if one did.
- Severities that a configuration remaps, and the echo of fixed files into the VFS that nothing reads
  afterwards, are left out. So is the rest of the anatomy of a diagnostic: `Place` orders by file, range,
  identifier and message.

## 3. The runs

| Run | Question | Result |
|---|---|---|
| `watch_safety` | Do the session, the watch and the picture stay consistent under any two edits, a signal, a kill, panics and refused registrations, and does the loop implement `Picture`? | holds, 3.5 million states |
| `watch_liveness` | Does the loop come to rest over a current picture, and is a shutdown answered? | holds, 0.3 million states |
| `watch_respawn_unread` | Does a respawn drop only events that say nothing new, as its comment has it? | violated |
| `cache_alone` | Around one process, three edits and one fault: are packs what their headers say, is a warm report the cold one, is what a persist answers for on disk, and does a persist leave the next run warm? | holds, 1.3 million states |
| `cache_shared` | Can one of two processes over a directory make the other report anything a cold check would not? | holds, 1.3 million states |
| `cache_partial_persist` | Does the equality check never compare against a snapshot the disk does not hold, as its comment has it? | violated |
| `inference_fixpoint` | From whichever body it starts, warm or cold, over cyclic calls and hierarchies: does every run end, without a panic and without giving up a cycle before it settled, on the least solution of the program as it is now? | holds, 49 538 states |
| `inference_stale_resolution` | The same question, when an edit declares a function that a recorded call tried and did not find | violated |
| `inference_moved_anchor` | The same question, when an edit moves which user a trait's member comes through, and nothing else about it | violated |
| `inference_trait_reentry` | Is salsa's panic unreachable, as a comment has it, for a recursive trait method asked for through an heir? | violated |
| `report_pipeline` | Over two runs with an edit and a fault between or within them: is a warm report the cold one, does an unused directive hide nothing, does the baseline hide only what it recorded, do fixes land whole, and is exit 0 honest? | holds, 568 019 states |
| `report_pristine` | Does a fix leave the bytes it does not edit as they are, as `is_pristine` asks of those who write fixes? | violated |

Bounds of `Watch`. Two files under two roots, three layouts (both roots; one root; both roots with an excluded
file and another PHP range), two contents and two manifests, one of which may not exist yet. That is
enough for a file to depart with its root, to be excluded, to arrive late, to be unreadable and to
panic, and for a root or a manifest to be refused for each of the two reasons. `MaxEdits` = 2 lets
every kind of edit meet every other at every point of the loop; `watch_respawn_unread` needs a third
(the file, the created manifest, the overtaking edit), over one layout. The number of passes, bursts,
respawns and signals is not bounded otherwise. Deadlock is not checked: the process ends.

Bounds of `Cache`. One reported file and one dependency; texts that call, that panic, and that declare
one name with two surfaces or not at all; two PHP ranges, in one of which a stub provides a second
name; two rule sets. So either half of a verdict can go stale alone, a name can move between source,
stub and unknown, and a file can leave and come back. `cache_alone` has all four packs, three edits
(away, back, and once more) and one fault of any kind at any step. `cache_shared` has a pack of trees
and the diagnostics, whose writes and loads interleave freely between two processes; one edit, one kill
or refused write. Passes, persists, starts and exits are not bounded. Deadlock is checked. Both
processes of `cache_shared` run one build, so that each believes the packs of the other; the proofs are
for any assignment of builds.

Bounds of `Inference`. Six keys, two method names, twenty-seven texts: functions that call each other in
both directions, call two candidates of a name, call a method, drop an answer, ask it again, nest lists; classes that inherit,
override, use, alias and close a cycle of parents; traits that call back into their user and nest.
Six programs, from each of which any single file may be rewritten between two runs; the member tables
are complete before the queries start, as nothing in a table depends on the order it is asked for in.
`MaxRuns` = 2 is one cold and one warm run. The passing run lets no file appear or disappear, and
no trait member change its user and keep its owner: these cases are findings 4 and 6. `Budget` = 2, `DepthCap` = 4 and `EngineLimit` = 3 let a nest of lists outlast the
budget, and only the budget keep it from the limit. `AnswersAreLeast` speaks of programs whose
walk is monotone (`Monotone`): a receiver that is still `never` answers `mixed`, and lists of different
depth do not join, so that other programs have answers that depend on where the cycle is entered. With
`f() { g(); return g()->m(); }` and `g() { if (..) return f(); return new A; }`, where `A::m` is declared to
return `A`, asking for `f` first leaves another answer than asking for `g` first, although the comment of
`ascend` (`inference.rs`:500-507) has every entry point converge to one fixpoint.
A budget spent on a program whose walks only join would leave `mixed` where the least solution has none, so
that `AnswersAreLeast` also says that the budget is for the others. `Vouched` says what validation must not be without: a record that holds says what the
body, as it is now, makes of the record's edges, whatever was edited since. One edit documents a method, which
leaves its caller's text and every inferred return as they were and moves the call to the declared
tier: only the digest of the receiver tells (`calls.rs`:498).
`AnswersCover` speaks of every program. A head inside a cycle is reached in one iteration and may not be
in the next, and then nothing but salsa's own bookkeeping keeps its approximation from being taken for an
answer: the iteration is counted for the cycle as a whole, its participants are reset before each, and a
cycle is stable only when every head in it settled. The mutant of `AnswersCover` asks the outermost head
alone.

Bounds of `Report`. Two files, fourteen contents, one of them with a byte-order mark and a malformed
sequence, directives of both origins in all five scopes, suggestions that are safe or need review, touch,
overlap, race for one offset or name another file. Two runs, one
edit and one fault of any kind at any step: enough for a verdict to be served half stale, for a
baseline to be recorded, lose or double entries and be applied, and for a write to be cut between its
temporary and its rename. `report_pristine` needs one run over one such file, and neither an edit nor
a fault. Deadlock is not checked: the runs are finite.

Fairness, for `watch_liveness` and `inference_fixpoint` only. Inference owes weak fairness of the walk
of the tables, of a demand and of a step of the engine, which one thread takes until the run is answered;
a next run is owed by nobody. The watch owes: weak fairness of the loop, of the worker and
of the callback, each a thread the scheduler keeps running. `analyze` ends because a pass is a finite set of queries.
The user and the signals owe nothing. `DrainEnd` needs a silent burst window; the user's edits are
finite, so it comes.

## 4. What is proved

`WatchAssumption` and `SessionAssumption` are the only assumptions: the sentinels are distinct, files
and manifests are different paths, every layout is one. The sets may be infinite.

- `TypeCorrect`: `Spec => []TypeOK`.
- `LoopCorrect`: `Spec => [](TypeOK /\ LoopInvariant)`. None of the properties below is inductive by
  itself. That a picture is current when printed (`PictureIsCurrent`) rests on the worker's input
  being the session's at the moment of `JoinCompleted`, which holds because a burst that moved the
  session is in hand until the loop restarts (`PassIsOfTheSession`, `FlowIsSound`). That a departed
  file stays departed (`DepartedStaysDeparted`) rests on where the queues come from: no queue holds
  a file outside the roots its watch was built over, and outside a respawn these are the roots
  discovery declares (`QueuesFollowTheWatch`); `absorb` itself never asks. That the VFS mirrors the
  set rests on the mutations in hand being exactly their difference (`MapsAgree`).
  That no edit is forgotten (`NoSilentStaleness`) is inductive only with what a reload knows between its
  walk and its reads: a file that moved in between has an event queued and was edited since the
  absorption began (`EditsAreRemembered`, `MovedSinceTheWalk`); the second half is also why a respawn
  after a reload loses nothing older (`ReloadsAreWhole`). The properties about respawns rest on every
  unwatched path having a refusal on record, and on a refusal of a path that was there standing, of one
  that was not lapsing only when the path appears (`RefusalsAreKept`).
- `Remembers` (`NoSilentStaleness`), `Follows` (`NoSilentDrift`), `Departed` (`DepartedStaysDeparted`),
  `Mirrored` (`VfsMirrorsAnalyzedSet`), `Shown` (`PictureIsCurrent`), `BlindnessIsReported`
  (`BlindRootsAreReported`), `Unforgotten` (`ShutdownIsNotForgotten`), `Saved`
  (`GracefulExitSavesThePicture`): the invariants of `watch_safety`, from that one.
- `RespawnsForCause` (`RespawnNeedsACause`), `NoBlindSpot` (`NoRecoverableBlindSpot`),
  `ReloadsAreLossless` (`RespawnAfterRediscoveryIsLossless`): its action properties, from it too.
- `Implements`: `Spec => ImplementsPicture`, every step of the loop a step of `Picture` or a stutter.

`ArtifactsAssumption` and `CacheAssumption` are those of the second component: files are numbered, the
packs are among the four and the diagnostics are one of them, edits stay within projects, sentinels are
distinct. Nothing is assumed of what texts declare or look up, of `Build`, or of how many processes run.

- `CacheTypeCorrect`: `Spec => []TypeOK`.
- `CacheCorrect`: `Spec => []CacheInvariant`. That a warm report is the cold one (`ServedIsFresh`) is
  not inductive: it rests on every snapshot being derived by this build under the settings in `loaded`,
  which rests on every pack on disk being derived by the build and under the settings of its header
  (`PacksAreHonest`), for packs of any process. A verdict that passes `Lookup` is then equal to the
  recomputed one because its recorded answers are the live ones and its settings are the header's
  (`ServedIsCold`, `AnalyzedIsCold`); what a persist collects is honest under the header it writes,
  served entries carried over included (`CollectedHonest`), because the snapshot they come from is
  attached only under the settings now in force (`AttachedHonest`).
- `Honesty`, `WarmIsCold`: the two properties by themselves.
- `Transparent`: `Spec => ImplementsColdCheck`: loads, persists, faults and other processes are
  stutters of a check without a cache, and a pass is its `Report`.

- `AnsweredIsOnDisk`, `PersistWarms`: what a persist answers for, a start would load,
  but for packs someone else changed; and a persist that succeeded leaves both halves of every file that
  did not panic to be served. The first rests on `DiskInvariant`, which says where each pack of each
  process stands at each point of its program, and on the hypothesis `PacksAreFiles` (a pack is no
  sentinel); the second on the completeness of `Collected`.

`HierarchyAssumption` and `InferenceAssumption`: what a text declares are lists, the calls of a body
are lists of calls of known names or of lists of candidates, sentinels are distinct and name no key, and `mixed` is neither of the
placeholders `self` and `static`.

- `Linearization`, `LinearizationOverRuns`: `SelfIsTheUser` and `RekeyIsOneHop`, of the walk alone and
  of `Inference` over any runs and edits, for any hierarchy, cyclic ones included.
  The invariant (`HierarchyInvariant`) says of every queued item and of every edge in hand where it was
  pasted and through what it is inherited (`ItemIsSound`, `EdgeIsSound`): an entry is sound because the
  item that offered it was.
- `Precedence`, and with `LinearizationOverRuns` over any runs: `DepthOnePrecedence`, that a member is the
  class's own, else one of a trait it uses, else one of a parent. No table says so while it is built. The
  invariant (`DepthOneInvariant`) splits the queue: what the root queued stands before what anything
  else did, its traits before its parents, and a name is either entered or still declared by something
  queued. The property speaks of traits without adaptations (`TraitsDeclaring`, `ParentsDeclaring`): an
  exclusion or an alias moves the name away from the trait that declares it. A trait of a trait may
  still offer a name before a parent does.
- `Heads`: `HeadsAreActive`, for any program, any edits, any budget. It rests on the stack being a
  chain of calls, each frame awaiting the one above it (`Awaiting`), on a query being in one place only
  (`OnePlace`), and on every head a frame rests on lying at or below it (`HeadsBelow`), which is what makes
  dropping the answers that rest on a head, and no others, right.
- `OneTableOfEach`: the table of a class-like is a function of the program. A walk is the iteration of one
  step (`StepFrom`) from one start (`StartOf`), so that two walks of a class-like are one as far as both
  go (`WalkOf`), and end in one table (`TheTable`).
- `DoubtDoesNotSpread`, over any runs, edits and budget: a finished answer covers what its code makes of
  the finished answers, unless it is that of a signature that holds and yet does not say what its body
  makes of its edges (`Doubted`, which is findings 4 and 6); and what such a signature answers spoils no other.
  What is finished is true of what is finished, but what is being iterated is only true of what a head
  held in this iteration, so the invariant (`Standing` with `Sound`) says it of each place an answer can
  be: a frame was given what the memo, the scratch or a head's provisional value holds (`FramesFit`), a
  scratch answer covers its own code over these (`ScratchRests`), the heads a scratch answer rests on are
  all carried by one frame, and so settle together (`Together`), and a memo covers its code over memos
  only (`MemoStands`). The step that matters is `Converge`: when no head moved, the provisional values
  and the answers are one, and what covered the former covers the memo.
- `VouchedAnswersCover`: `AnswersCover` in any run with no doubtful signature (`Vouched`), warm or cold.
- `UneditedSignaturesStand`, `UneditedAnswersCover`: in the first run, and in every run of a project not
  edited since the one before, no signature is doubtful, so that `AnswersCover` needs no hypothesis there.
  Between the runs the tables are gone and made again, possibly in another order, so the invariant
  (`RunInvariant`) cannot speak of `tables`: it speaks of the module under the tables the program will
  have (`Final == INSTANCE InferenceProofs WITH tables <- FinalTables`), where what was persisted holds
  and says what its body means for as long as the program stands. `OneTableOfEach` brings it back.
- `AnswersGoNoFurther`, `AnswersSettleAtLeast`, `UneditedAnswersAreLeast`: the answers are the least ones.
  A solution (`Solves`) is returns that cover what they mean under each other. The first theorem says
  that no answer exceeds any solution; with `VouchedAnswersCover` the answers are below every solution
  and one themselves. The second says that they are what the runs compare with, the rounds of `Least` from
  `never`; the third that this takes no hypothesis on what is stored where nobody edits. The invariant
  (`Ceiling`) holds every answer in every place, finished or not, below all solutions (`Below`): a walk
  that only joins means no more under answers that say no more, a provisional value starts at `never`
  and grows by what its body then means, and a served signature is what its body makes of edges that are
  themselves answers.
- `UneditedEdgesHold`: `UneditedSignaturesHold`. Both runs ask in their own order, and what an edge was
  and what it is now are compared while the callee may still be iterating. Stored edges are below every
  solution of the program, and one themselves (`EdgesAreLowest`); an answer of this run that rests on no
  head is both as well; two such returns are one.
- `ValidationIsSound`: `Vouched` over any runs and edits, for edits that move nothing a record does not
  show. What a record shows is the text of its file, the surfaces of the class-likes its calls are received
  by and the declared signatures of the functions they resolve to. What it does not is spelled out in
  `NothingUnseen`, of the tables the program before and after the edit will have, and has four parts: a
  function appears under a name that a recorded call tried; a function goes behind which a stub of its
  name stands; a class-like comes to answer for a member it did not; the class a member's placeholders
  mean moves under an unmoved surface. Findings 4 and 6 are edits of the first and the last part. All
  else may be edited: bodies, docblocks, parents, members of class-likes a record knows. The invariant
  (`Validated`) is of what is persisted under the tables the program will have: whatever is found to
  hold is of a body that is still declared and that makes of the record's edges what the record says. Its
  step is that a call whose digests stand resolves as it did (`ResolvedAlike`, `CallMoves`) and that a body whose calls do means the same under the same
  edges (`BodyMoves`). That the hypothesis is met by edits that do move something was seen with TLC on the
  instance of `inference_fixpoint`, which has edits inside it after which records are refused, and edits
  outside it.
- `EditedAnswersCover`, `EditedAnswersAreLeast`, `EditedEdgesHold`: what follows of `AnswersCover`,
  `AnswersAreLeast` and `UneditedSignaturesHold`, with no hypothesis left on what is stored. The second is
  the promise of `cache_equivalence.rs`.

The theorems on least answers and on edges hold under what the code does not guarantee, and say so in their statements:
no iteration of a program whose walks only join outlasts its budget (`WithinBudget`: past it the code answers
`mixed`, which is an answer, but not the least one), the program in question is one of these (`Monotone`, see
section 3), no signature is doubtful (`Vouched`; the theorems named `Unedited...Least` and `Edited...` have
`~edited` or `NothingUnseen` instead), and for the `...AtLeast` and `...AreLeast` ones that the returns are
finitely many and the rounds of `Least` come to rest within the number it gives them (`Settles`). `Vouched` is an invariant of
`inference_fixpoint`; a budget spent there by a program that only joins would violate `AnswersAreLeast`, and a
run in which the rounds did not settle would stop, as `Least` would not be defined.

- `OnlyPastedBodiesReenter`: `OwnBodiesAreEnteredOnce`, over any runs and edits. A body that no trait pasted
  stands on its owner, or its owner is answered (`OwnedBelow`); who asks for it again can only be the same
  owner, which would be active twice. It needs to know that what a class-like's own entry names is the
  class-like's own method (`EntryIsSound`), and that stored signatures name returns only (`Asked`). What is
  left of salsa's panic is finding 5 and the engine's own limit.

`ReportAssumption`, `DirectivesAssumption` and `DecodingAssumption`: files are numbered and finitely many,
newlines are blank, a project gives every file a list of tokens, and the mark, a malformed sequence and what
replaces it are told apart. What is assumed of the rules is a named hypothesis of the theorem that needs it,
and each speaks of finite texts and of projects (`Seq(Tokens)`, `Projects`) and of nothing else; TLC
evaluates their bodies over every text and project of the instance of `report_pipeline` (`RulesBehave` in
`MCReport`), whose rules, each of one token and the declarations of the project, meet them over all texts.

- `NeighboursSuffice`: comparing neighbours of the sorted edits finds a conflict exactly when two edits
  of the set cannot stand together.
- `SpliceIsPatched`: for any text and any edits that stand together, the splice writes what the text
  patched at each offset is (`Patched`, which mentions neither an order nor a cursor). By induction
  along the sorted edits: after n of them the output is the text patched up to the cursor.
- `Greedy`, `WholeFixesLand`: `PlanIsGreedy` and `OnlyWholeFixesLand`, where recorded facts decide
  findings (`FactsAreSound`), a rule's suggestion is edits of the text its finding is in
  (`RulesOfferEdits`) and a user's edit leaves a list of tokens (`EditsAreBytes`). What lands is the text
  that was decoded, patched; that it is the file, patched, is proved of pristine files
  (`PristineIsItsText`), and finding 2 is what becomes of the others. The invariant
  (`FixInvariant`) follows a fix from the analysis (`AnswerInvariant`: what a file's analysis answered is
  what a cold one finds in the text that was read, or nothing where it panicked) through the plan (`PlanInvariant`: what is admitted is in range and stands together) to
  the temporary file (`LandingInvariant`: what is renamed is the text read, patched by the plan).
- `WarmIsCold`: `WarmReportsAreCold`, under the same three: the texts of a run are of a project because
  what fixes write is (`ReadInvariant`).
- `UselessIsRemovable`, `UnusedCanGo`: deleting a directive that is reported as unused changes nothing
  else in the report; of the operators, and as `UnusedIsRemovable` of the specification.
- `HidesOnlyRecorded`, `Honest`: `BaselineHidesOnlyRecorded` and `VerdictIsHonest`, under
  these three, `ReportsAreWellFormed` (of every file of every project, the report is a finite set and its
  order is total) and `NoBaselineIsNoFile`. They rest on the file on disk never holding more of a key than the last
  recording saw, and on counting occurrences under a total order being a bijection with 1..n.
- `SurvivesMoves`: `BaselineSurvivesMoves`, under these and `FindingsMoveWithTheCode` (between any two projects,
  where code moves to other lines, its findings go with it and keep their keys). Beyond the above it needs that the
  baseline on disk stays the last recording for as long as the code only moves (`RecordingInvariant`).

Each proof has one lemma per part of the invariant, one step per action. Only model-checked:

- `Vouched`, and with it `AnswersCover` and `AnswersAreLeast`, after an edit that moves something unseen
  (`NothingUnseen`): findings 4 and 6 refute it in general; over the other such edits of its instance
  `inference_fixpoint` finds no violation;
- `WithinBudget`, and that the rounds of `Least` settle: both need the height of a finite set of types,
  which is induction over data;
- `UneditedSignaturesHold` of programs whose walks do not only join (section 3): its first half is
  `UneditedSignaturesStand`, for any program, its second is proved for the others;
- `EveryRunAnswers`, which is also what says that no run of the instance panics, as a panic ends a run; and
  the other liveness properties, which the prover does not do.

## 5. What the models disagree with

Six comments of the code claim more than it does; each is a run that TLC finds violated, and a
finding in `PROJECT.json`.

1. `resynchronize` says a respawn comes just after `rediscover`, so a dropped event says nothing new.
   A respawn that retries a refused path comes after any absorption, and then a file edited during
   that absorption is left stale. (The same swap drops a request to stop, from the end of the last drain on:
   with `ShutdownLostOnlyInTheSwap` as its invariant the configuration of `watch_safety` shows that the
   instant `install_shutdown_handler` speaks of is the whole absorption.)
2. `SourceText::is_pristine` says that upper layers must consult it before writing autofixes back to disk.
   Nothing does: `apply_to_disk` writes the decoded text with its edits, so the first fix to a file with a
   byte-order mark or a malformed sequence drops the one and writes U+FFFD for the other.
3. `persist` says the equality check never compares against a snapshot the disk does not hold. After a
   persist that failed half way under moved settings, which then move back, packs are answered
   `Unchanged` that the disk holds under the other header. The next start discards them: it is colder,
   never wrong, as `cache_alone` and the proofs show.
4. `cache_equivalence.rs` promises that what a warm run serves equals a full recomputation, and
   `inference.rs` that a served return "invalidates correctly". A record names the key a call resolved
   to and not the candidates tried before it: when a file declares the earlier candidate, the record
   still holds and the old resolution's return is served.
5. `inference.rs` says salsa's panic is never reachable from `inferred_body_types`. A trait method that
   calls itself, asked for first through an heir of the trait's user, re-enters its own body, because
   the heir's query and the user's share one body and only the latter's query is asked from within.
6. The same promise, and that of `class_surface_digest` to digest "a class's whole lookup surface". A surface
   has the owner of a trait's member and not the class the member was pasted into, which is what binds its
   `self`. `B` extends `A` and uses `T`; `T` and `A` use `H`, whose `m` returns `self`. When `T` stops using
   `H`, `m` reaches `B` from `A`, with the same owner and the same ancestors, and the record of a caller of
   `B::m` still holds: it is served `B` where the answer is now `A`.

A seventh claim is not a run. `completed_cycle` says the error block is never a stale log (watch.rs:121), and
only `load` recomputes the unreadable files: one that is made readable afterwards is absorbed, analysed with its
real bytes and still listed, until a manifest changes. `Absorb` leaves `unreadable` alone as the code does; no
property speaks of it, and the hazard says so.

## 6. Not modelled

- Deleting a watched root, renaming a directory, and an editor that replaces a manifest's inode: what
  then happens to the registration is the kernel's and `notify`'s affair.
- The spelling of paths (`as_the_project_names_it`): a file is one name, so the order in which nested
  roots rewrite an event's path is not covered by a property either.
- A save between the analysis' read of a file and the rename of its fixed text is overwritten, in the
  model as in the code; the code promises nothing there, so no property speaks of it.
- Text: lexing, parsing, lowering to items and bodies, docblocks, rendering, migration, the wording of
  diagnostics, the TOML of the configuration and of the baseline, the constraint algebra of manifests.
  These are sequential and pure, of one input each, and make up most of the repository's lines: the
  share of the code the modules map is small for that reason, and the part where state, order or
  failure matters is what they cover.
- The type algebra (norm, judgments, narrowing, substitution) below the level of sets of alternatives,
  and the individual rules.
- salsa's memoisation across revisions: a query is a function of the inputs. Its cycles are modelled.
- The distribution (installer, Composer bootstrap) and the build tasks.

## 7. What could follow

1. *Proofs*: that the rounds of `Least` settle, from the height of a finite set of types; `Vouched` for edits
   that move something unseen of calls no record makes.
2. *Types*: `norm` and the subtype judgment as operators, against sets of values as their reference.
3. *Discovery*: the constraint algebra against a patch-precise reference, feeding `Session`'s layouts.
4. *Vfs*: overlays and the changed set as a component of its own, implementing the map `Session` uses.
