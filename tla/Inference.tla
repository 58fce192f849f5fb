----------------------------- MODULE Inference -----------------------------
(***************************************************************************)
(* The inferred return of every function and method: inference.rs, over    *)
(* the call tiers of flow/calls.rs, the records of records.rs and the      *)
(* signatures `collect_signature_entries` persists.                        *)
(*                                                                         *)
(* A return is asked for as a query.  A query asks others and waits, so    *)
(* the active queries form a stack; one that is asked for while active     *)
(* closes a cycle, and is iterated from `never` until it stops moving.     *)
(* That engine is salsa's; which queries may be asked for while active,    *)
(* where an iteration starts and how it moves are this code's.             *)
(***************************************************************************)
EXTENDS Hierarchy, FiniteSets

CONSTANTS
    FunctionOf,      \* what a text that declares a function says of it
    StubFunctions,   \* the declared return of each function the stubs provide
    Mixed,           \* the type that admits everything and addresses no class
    Null,
    Self, Static,    \* placeholders, bound where a member is called
    Undeclared,      \* no usable declared return
    DepthCap,        \* STRUCTURAL_DEPTH_CAP: a list nested n deep is the number n
    This,            \* the receiver `$this`
    Budget,          \* FIXPOINT_ITERATION_BUDGET
    EngineLimit,     \* salsa's own bound, past which it panics
    InitialPrograms,
    Edits(_),        \* what may become of a program between two runs
    MaxRuns          \* bound on the runs

\* The calls of a body, in order: of functions, or of members by their name.
AreCalls(calls) ==
    IsList(calls) /\ \A i \in DOMAIN calls :
        IF calls[i].on = "function" THEN IsList(calls[i].candidates) ELSE calls[i].name \in Names

ASSUME InferenceAssumption ==
    /\ DOMAIN FunctionOf \subseteq Texts \ DOMAIN ClassOf
    /\ \A t \in DOMAIN FunctionOf : AreCalls(FunctionOf[t].calls)
    /\ \A t \in DOMAIN ClassOf : \A i \in DOMAIN ClassOf[t].own :
          AreCalls(ClassOf[t].code[ClassOf[t].own[i]].calls)
    /\ Mixed \notin {Self, Static}
    /\ DepthCap \in Nat
    /\ Budget \in Nat /\ EngineLimit \in Nat /\ Budget < EngineLimit
    /\ InitialPrograms \subseteq [Keys -> Texts \cup {NoText}]
    /\ MaxRuns \in Nat

VARIABLES
    run,         \* how many runs have started
    records,     \* the signatures the last run persisted
    stack,       \* the active queries, the innermost first
    memo,        \* finished answers
    scratch,     \* answers of this iteration that rest on a provisional one
    provisional, \* what each query answers if asked for while active
    moved,       \* heads inside another's cycle that moved in this iteration
    iteration,   \* how often the cycle of each query has been iterated
    panicked,    \* salsa's `Panic`: a body entered twice, or no end of iterations
    edited       \* history: the program moved before this run

engine == <<stack, memo, scratch, provisional, moved, iteration, panicked>>
saved  == <<program, hierarchy, run, records, edited>>
vars   == <<saved, engine>>

----------------------------------------------------------------------------
(* Types: sets of alternatives                                              *)

Never == {}

\* `TypeId::union`: `mixed` absorbs.  A union too wide for the arity cap, which
\* collapses to a join, and `true|false`, which is `bool`, do not occur here.
Union(s, t) == IF Mixed \in s \cup t THEN {Mixed} ELSE s \cup t
UnionOf(types) == IF Mixed \in UNION types THEN {Mixed} ELSE UNION types

\* A list of what was inferred, one level deeper and no deeper than the cap.
Wrapped(type) ==
    LET deeper == {n \in 1..DepthCap : n = 1 \/ \E d \in type \cap 1..DepthCap : n <= d + 1}
    IN  {CHOOSE n \in deeper : \A m \in deeper : m <= n}

\* `member_boundary_type`: the placeholders of a member, bound at the call.
AtBoundary(type, owner, receiver) ==
    UnionOf({IF t = Self THEN {owner} ELSE IF t = Static THEN receiver ELSE {t} : t \in type})

----------------------------------------------------------------------------
(* Queries                                                                  *)

FunctionReturn(k) == [kind |-> "function", key |-> k, name |-> NoKey, for |-> NoKey]
MethodReturn(k, n) == [kind |-> "method", key |-> k, name |-> n, for |-> NoKey]
Body(k, n, class) == [kind |-> "body", key |-> k, name |-> n, for |-> class]

IsFunction(k) == k \in Keys /\ program[k] \in DOMAIN FunctionOf

Returns == {FunctionReturn(k) : k \in Keys} \cup {MethodReturn(k, n) : k \in Keys, n \in Names}
Bodies  == {Body(k, n, class) : k \in Keys, n \in Names \cup {NoKey}, class \in Keys \cup {NoKey}}
Queries == Returns \cup Bodies

\* The bodies a run demands: each function's, each method's own.
DeclaredBodies ==
    {Body(k, NoKey, NoKey) : k \in {f \in Keys : IsFunction(f)}}
    \cup UNION {{Body(k, Declared(k).own[i], NoKey) : i \in DOMAIN Declared(k).own} : k \in ClassKeys}

\* The cycle-safe query whose fixpoint a body takes part in.
Owner(body) ==
    IF body.name = NoKey THEN FunctionReturn(body.key) ELSE MethodReturn(body.key, body.name)

CodeOf(body) ==
    IF body.name = NoKey THEN FunctionOf[program[body.key]]
    ELSE Declared(body.key).code[body.name]

\* The class-like `self` and `$this` mean in a body.
SelfOf(body) == IF body.for # NoKey THEN body.for ELSE IF body.name = NoKey THEN NoKey ELSE body.key

----------------------------------------------------------------------------
(* The flow walk of one body: its calls in order, then what it returns      *)

\* The first candidate a source function answers, else the first a stub does.
ResolvedFunction(candidates) ==
    LET source == {i \in DOMAIN candidates : IsFunction(candidates[i])}
        stubs  == {i \in DOMAIN candidates : candidates[i] \in DOMAIN StubFunctions}
        first(s) == candidates[CHOOSE i \in s : \A j \in s : i <= j]
    IN  IF source # {} THEN first(source) ELSE IF stubs # {} THEN first(stubs) ELSE NoKey

DeclaredFunction(k) ==
    IF IsFunction(k) THEN FunctionOf[program[k]].declared
    ELSE IF k \in DOMAIN StubFunctions THEN StubFunctions[k] ELSE Undeclared

\* The class-like a member's placeholders mean: for a trait's, its user.
MemberOwner(k, found) ==
    IF found.tier # "source" THEN k
    ELSE IF found.entry.origin = "trait" THEN found.entry.anchor ELSE found.entry.owner

\* A member that only a stub or an annotation provides is declared, not inferred.
DeclaredMember(found) ==
    IF found.tier = "source" THEN Declared(found.entry.owner).code[found.entry.method].declared
    ELSE {Mixed}

Resolves(k, name) == k \in Keys /\ LookupMember(k, name).tier # "none"

\* The class-likes a receiver addresses: every part of it must, null aside, so
\* that `never` addresses none.
ReceiverKeys(type, body) ==
    LET parts == {IF t \in {Self, Static} THEN SelfOf(body) ELSE t : t \in type \ {Null}}
    IN  IF parts \subseteq Keys THEN parts ELSE {}

ReceiverOf(call, before) ==
    CASE call.on = This                     -> {Static}
      [] call.on = "result"                 -> before
      [] call.on \notin {This, "result"}    -> {call.on}

\* Members that do not resolve are not asked for, and not recorded.
Receivers(call, body, before) ==
    {k \in ReceiverKeys(ReceiverOf(call, before), body) : Resolves(k, call.name)}

\* What a call asks the fixpoint for, given the type of the call before it.
CalleesOf(call, body, before) ==
    IF call.on = "function"
    THEN {FunctionReturn(k) : k \in {f \in {ResolvedFunction(call.candidates)} :
             IsFunction(f) /\ DeclaredFunction(f) = Undeclared}}
    ELSE {MethodReturn(k, call.name) : k \in {c \in Receivers(call, body, before) :
             DeclaredMember(LookupMember(c, call.name)) = Undeclared}}

\* The declared tier, then the inferred one, then silence.
FunctionCallType(k, answers) ==
    IF DeclaredFunction(k) # Undeclared THEN DeclaredFunction(k)
    ELSE IF IsFunction(k) THEN answers[FunctionReturn(k)] ELSE {Mixed}

MemberType(k, name, found, answers, receiver) ==
    AtBoundary(IF DeclaredMember(found) = Undeclared THEN answers[MethodReturn(k, name)]
               ELSE DeclaredMember(found),
               MemberOwner(k, found), receiver)

MethodCallType(name, keys, answers, receiver) ==
    IF keys = {} THEN {Mixed}
    ELSE UnionOf({MemberType(k, name, LookupMember(k, name), answers, receiver) : k \in keys})

TypeOfCall(call, body, before, answers) ==
    IF call.on = "function" THEN FunctionCallType(ResolvedFunction(call.candidates), answers)
    ELSE MethodCallType(call.name, Receivers(call, body, before), answers, ReceiverOf(call, before))

\* The types of the first i calls, as far as the answers go.
CallTypes(body, answers) ==
    LET calls == CodeOf(body).calls
        types[i \in 0..Len(calls)] ==
            IF i = 0 THEN Never
            ELSE IF CalleesOf(calls[i], body, types[i - 1]) \subseteq DOMAIN answers
            THEN TypeOfCall(calls[i], body, types[i - 1], answers)
            ELSE Never
    IN  types

CallsOf(body) == CodeOf(body).calls

\* The callees of each call, under the types of the calls before it.
Callees(body, types) ==
    [i \in DOMAIN CallsOf(body) |-> CalleesOf(CallsOf(body)[i], body, types[i - 1])]

\* What the walk asks next: the callees of its first call not yet answered.
FirstOpen(callees, answered) ==
    UNION {callees[i] \ answered : i \in
        {i \in DOMAIN callees : \A j \in 1..(i - 1) : callees[j] \subseteq answered}}

AsksNext(body, answers) == FirstOpen(Callees(body, CallTypes(body, answers)), DOMAIN answers)

Returned(call, type) == IF call.wrapped THEN Wrapped(type) ELSE type

ReturnedBy(body, types) ==
    UnionOf({CodeOf(body).returns}
            \cup {Returned(CallsOf(body)[i], types[i]) :
                    i \in {j \in DOMAIN CallsOf(body) : CallsOf(body)[j].returned}})

BodyType(body, answers) == ReturnedBy(body, CallTypes(body, answers))

----------------------------------------------------------------------------
(* What a body consulted, and what is persisted of it                       *)

\* The source ancestors in the order they are first met
\* (`ancestors_in_walk_order`): for each, those that are not met before it.
AncestorOrder(k) ==
    LET edge    == tables[k].ancestry
        sources == {i \in DOMAIN edge : edge[i].relation # "implicit" /\ IsClass(edge[i].target)}
        firsts  == {i \in sources : /\ edge[i].target # k
                                    /\ \A j \in sources : edge[j].target = edge[i].target => i <= j}
    IN  {<<edge[i].target, {edge[j].target : j \in {j \in firsts : i <= j}}>> : i \in firsts}

\* A class-like's surface: its members with their owners and declared returns,
\* and its ancestry, but no body, and not what a trait was pasted into.
ClassDigest(k) ==
    IF ~IsClass(k) THEN [kind |-> "none"]
    ELSE [kind     |-> Declared(k).kind,
          members  |-> [n \in Names |->
              IF tables[k].members[n] = NoEntry THEN {}
              ELSE {<<tables[k].members[n].owner, DeclaredMember(LookupMember(k, n))>>}],
          virtuals |-> tables[k].virtuals,
          ancestry |-> AncestorOrder(k),
          stubs    |-> tables[k].stubs,
          cyclic   |-> tables[k].cyclic,
          opaque   |-> tables[k].opaque]

FunctionDigest(k) ==
    [exists |-> IsFunction(k) \/ k \in DOMAIN StubFunctions, declared |-> DeclaredFunction(k)]

\* The receivers of a body's method calls, and the owners of what was called.
ConsultedClasses(body, types) ==
    UNION {UNION {{k, MemberOwner(k, LookupMember(k, CallsOf(body)[i].name))} :
                     k \in Receivers(CallsOf(body)[i], body, types[i - 1])} :
             i \in {i \in DOMAIN CallsOf(body) : CallsOf(body)[i].on # "function"}}

\* Mutant: a callee that is inferred is not recorded as consulted.
DeclaredOnly(body) ==
    {k \in Keys : DeclaredFunction(k) # Undeclared /\
        \E i \in DOMAIN CallsOf(body) :
            CallsOf(body)[i].on = "function" /\ ResolvedFunction(CallsOf(body)[i].candidates) = k}

\* A call that resolves to nothing, or to a stub that declares no return, leaves
\* no trace.
ConsultedFunctions(body) ==
    {k \in Keys \cup DOMAIN StubFunctions :
        /\ IsFunction(k) \/ DeclaredFunction(k) # Undeclared
        /\ \E i \in DOMAIN CallsOf(body) :
            CallsOf(body)[i].on = "function" /\ ResolvedFunction(CallsOf(body)[i].candidates) = k}

InferredCallees(body, types) ==
    UNION {Callees(body, types)[i] : i \in DOMAIN CallsOf(body)}

\* Mutant: an edge carries the type at the call, placeholders already bound.
BoundEdge(callee) ==
    IF callee.kind = "function" THEN memo[callee]
    ELSE AtBoundary(memo[callee], MemberOwner(callee.key, LookupMember(callee.key, callee.name)),
                    {callee.key})

\* An edge carries the callee's own answer, its placeholders unbound.
RawEdge(callee) == memo[callee]

\* A text names what it declares: no two files have one content.
Content(file) == <<file, program[file]>>

RecordOf(body, types) ==
    [content   |-> Content(body.key),
     classes   |-> [k \in ConsultedClasses(body, types) |-> ClassDigest(k)],
     functions |-> [k \in ConsultedFunctions(body) |-> FunctionDigest(k)],
     edges     |-> [q \in InferredCallees(body, types) |-> RawEdge(q)],
     returns   |-> memo[body]]

\* No trait's methods: what they mean is their user's.
Recorded == {b \in DeclaredBodies : IsClass(b.key) => Declared(b.key).kind # "trait"}

Signature(body) == RecordOf(body, CallTypes(body, memo))

Collected ==
    [q \in {Owner(b) : b \in Recorded} |-> Signature(CHOOSE b \in Recorded : Owner(b) = q)]

\* The file a stored signature speaks of, as the key resolves now.
DefiningFile(q) ==
    IF q.kind = "function" THEN IF IsFunction(q.key) THEN q.key ELSE NoKey
    ELSE IF IsClass(q.key) /\ LookupMember(q.key, q.name).tier = "source"
         THEN LookupMember(q.key, q.name).entry.owner ELSE NoKey

\* Mutant: the surfaces of the receivers are not compared.
ContentHolds(record, file) ==
    /\ file # NoKey
    /\ Content(file) = record.content
    /\ \A k \in DOMAIN record.functions : record.functions[k] = FunctionDigest(k)

\* What must hold of a stored signature before its edges are asked for.
RecordHolds(record, file) ==
    /\ file # NoKey
    /\ Content(file) = record.content
    /\ \A k \in DOMAIN record.classes : record.classes[k] = ClassDigest(k)
    /\ \A k \in DOMAIN record.functions : record.functions[k] = FunctionDigest(k)

StoredHolds(q) == q \in DOMAIN records /\ RecordHolds(records[q], DefiningFile(q))

----------------------------------------------------------------------------
(* Active queries                                                           *)

Frame(q) ==
    [query   |-> q,
     mode    |-> IF q \in Returns /\ StoredHolds(q) THEN "validating" ELSE "computing",
     answers |-> << >>,
     heads   |-> {},
     awaits  |-> {}]

Active == {stack[i].query : i \in DOMAIN stack}
Top    == Head(stack)

With(f, q, v) == [x \in DOMAIN f \cup {q} |-> IF x = q THEN v ELSE f[x]]

\* A trait's method is walked for the class-like it was pasted into.
BodyOf(entry) == Body(entry.owner, entry.method, entry.anchor)

\* What computing a return comes down to: a body, or the return of the owner.
Delegate(q) ==
    IF q.kind = "function"
    THEN IF IsFunction(q.key) THEN {Body(q.key, NoKey, NoKey)} ELSE {}
    ELSE LET found == LookupMember(q.key, q.name)
         IN  IF found.tier # "source" THEN {}
             ELSE IF found.entry.origin = "inherited"
             THEN {MethodReturn(found.entry.owner, q.name)}
             ELSE {BodyOf(found.entry)}

\* What a query has called for, it takes before it asks for anything else.
Asks(frame) ==
    IF frame.awaits # {} THEN frame.awaits
    ELSE IF frame.mode = "validating" THEN DOMAIN records[frame.query].edges \ DOMAIN frame.answers
    ELSE IF frame.query \in Returns THEN Delegate(frame.query) \ DOMAIN frame.answers
    ELSE AsksNext(frame.query, frame.answers)

\* An edge whose callee answers otherwise now, or `never`: a mismatch by rule, for
\* that is also what a callee answers before its iteration has begun.
Mismatch(frame) ==
    frame.mode = "validating" /\
    \E q \in DOMAIN frame.answers :
        frame.answers[q] = Never \/ frame.answers[q] # records[frame.query].edges[q]

Result(frame) ==
    IF frame.mode = "validating" THEN records[frame.query].returns
    ELSE IF frame.query \in Bodies THEN BodyType(frame.query, frame.answers)
    ELSE IF Delegate(frame.query) = {} THEN {Mixed}
    ELSE UnionOf({frame.answers[q] : q \in Delegate(frame.query)})

\* Mutant: no budget.
AscendForever(last, computed) == Union(last, computed)

\* `ascend`: an iterate joins the last approximation; past the budget, `mixed`.
Ascend(last, computed) ==
    IF Union(last, computed) = last THEN last
    ELSE IF iteration[Top.query] >= Budget THEN {Mixed} ELSE Union(last, computed)

----------------------------------------------------------------------------
(* The engine                                                               *)

Linearizing == root # NoKey \/ \E k \in ClassKeys : ~Linearized(k)

\* The tables are asked for before the queries that read them; nothing in them
\* depends on the order.
Linearize == ~panicked /\ stack = << >> /\ Walk /\ UNCHANGED <<run, records, edited, engine>>

\* Mutant: a body is demanded without its owner.
Unwarmed(body) == body

\* `inferred_body_types`: the owner's return first, so that any cycle the body is
\* on has been iterated from a query that may be.
Warmed(body) == IF Owner(body) \in DOMAIN memo THEN body ELSE Owner(body)

Demand(body) ==
    /\ ~panicked /\ ~Linearizing /\ stack = << >>
    /\ body \notin DOMAIN memo
    /\ stack' = <<Frame(Warmed(body))>>
    /\ UNCHANGED <<saved, memo, scratch, provisional, moved, iteration, panicked>>

Working == ~panicked /\ stack # << >> /\ ~Mismatch(Top)

Answered(q, answer, heads) ==
    stack' = <<[Top EXCEPT !.answers = With(@, q, answer), !.heads = @ \cup heads,
                           !.awaits = {}]>> \o Tail(stack)

\* A finished answer, one of this iteration, or the provisional one of a return
\* that is active: whoever reads it then rests on that cycle's head.
Consult ==
    /\ Working
    /\ \E q \in Asks(Top) :
          \/ q \in DOMAIN memo /\ Answered(q, memo[q], {})
          \/ q \in DOMAIN scratch /\ Answered(q, scratch[q].answer, scratch[q].heads)
          \/ /\ q \notin DOMAIN memo \cup DOMAIN scratch
             /\ q \in Active \cap Returns
             /\ Answered(q, provisional[q], {q})
    /\ UNCHANGED <<saved, memo, scratch, provisional, moved, iteration, panicked>>

\* A body has no way to recover from a cycle: entered twice, it panics.
Enter ==
    /\ Working
    /\ \E q \in Asks(Top) :
          /\ q \notin DOMAIN memo \cup DOMAIN scratch \cup (Active \cap Returns)
          /\ panicked' = (q \in Active)
          /\ stack' = IF q \in Active THEN stack
                      ELSE <<Frame(q), [Top EXCEPT !.awaits = {q}]>> \o Tail(stack)
    /\ UNCHANGED <<saved, memo, scratch, provisional, moved, iteration>>

\* The stored signature does not hold: compute as if there were none. What was
\* read on the way still counts.
GiveUp ==
    /\ ~panicked /\ stack # << >> /\ Mismatch(Top)
    /\ stack' = <<[Top EXCEPT !.mode = "computing", !.answers = << >>]>> \o Tail(stack)
    /\ UNCHANGED <<saved, memo, scratch, provisional, moved, iteration, panicked>>

Finished == Working /\ Asks(Top) = {}

\* Nothing provisional was read: the answer is final.
Finish ==
    /\ Finished /\ Top.heads = {}
    /\ memo' = With(memo, Top.query, Result(Top))
    /\ stack' = Tail(stack)
    /\ UNCHANGED <<saved, scratch, provisional, moved, iteration, panicked>>

\* The answer rests on a cycle it is not the head of, if it ever was one.
Participate ==
    /\ Finished /\ Top.heads # {} /\ Top.query \notin Top.heads
    /\ scratch' = With(scratch, Top.query, [answer |-> Result(Top), heads |-> Top.heads])
    /\ provisional' = [provisional EXCEPT ![Top.query] = Never]
    /\ stack' = Tail(stack)
    /\ UNCHANGED <<saved, memo, moved, iteration, panicked>>

Outer    == Top.heads \ {Top.query}
Ascended == Ascend(provisional[Top.query], Result(Top))

\* A head inside another cycle: it joins once, and the outermost iterates it.
AscendInside ==
    /\ Finished /\ Top.query \in Top.heads /\ Outer # {}
    /\ provisional' = [provisional EXCEPT ![Top.query] = Ascended]
    /\ moved' = IF Ascended = provisional[Top.query] THEN moved ELSE moved \cup {Top.query}
    /\ scratch' = With(
          [q \in DOMAIN scratch |->
              IF Top.query \in scratch[q].heads
              THEN [scratch[q] EXCEPT !.heads = (@ \ {Top.query}) \cup Outer]
              ELSE scratch[q]],
          Top.query, [answer |-> Ascended, heads |-> Outer])
    /\ stack' = Tail(stack)
    /\ UNCHANGED <<saved, memo, iteration, panicked>>

\* What rests on the head that has just been computed.
Resting == {q \in DOMAIN scratch : Top.query \in scratch[q].heads}

Cycle   == Resting \cup {Top.query}

\* Mutant: answers of the iteration outlive its head.
LeftOver == scratch

Left == [q \in DOMAIN scratch \ Resting |-> scratch[q]]

Outermost == Finished /\ Top.heads = {Top.query}

\* Mutant: the heads inside are not asked whether they moved.
StableAlone == Ascended = provisional[Top.query]

Stable == Ascended = provisional[Top.query] /\ moved \cap Resting = {}

\* No head moved: what this iteration answered is final, for all of the cycle.
Converge ==
    /\ Outermost /\ Stable
    /\ memo' = [q \in DOMAIN memo \cup Cycle |->
          IF q = Top.query THEN Ascended
          ELSE IF q \in Resting THEN scratch[q].answer ELSE memo[q]]
    /\ scratch' = Left
    /\ provisional' = [q \in Returns |->
          IF q \in Cycle THEN Never ELSE provisional[q]]
    /\ iteration' = [q \in Returns |-> IF q \in Cycle THEN 0 ELSE iteration[q]]
    /\ stack' = Tail(stack)
    /\ UNCHANGED <<saved, moved, panicked>>

\* The heads of one cycle are iterated together.
Rounds ==
    LET counts == {iteration[q] : q \in Cycle \cap Returns}
    IN  CHOOSE n \in counts : \A m \in counts : m <= n

\* A head moved: once more from here, without the answers that rested on it. The
\* engine itself gives up, and panics, at a limit of its own.
Iterate ==
    /\ Outermost /\ ~Stable
    /\ provisional' = [provisional EXCEPT ![Top.query] = Ascended]
    /\ scratch' = Left
    /\ moved' = moved \ Resting
    /\ iteration' = [q \in Returns |-> IF q \in Cycle THEN Rounds + 1 ELSE iteration[q]]
    /\ panicked' = (Rounds = EngineLimit)
    /\ stack' = <<Frame(Top.query)>> \o Tail(stack)
    /\ UNCHANGED <<saved, memo>>

----------------------------------------------------------------------------

AllAnswered == ~Linearizing /\ stack = << >> /\ DeclaredBodies \subseteq DOMAIN memo

\* The signatures are persisted, the project is edited or not, the next run starts.
NextRun ==
    /\ ~panicked /\ AllAnswered /\ run < MaxRuns
    /\ run' = run + 1
    /\ records' = Collected
    /\ program' \in {program} \cup Edits(program)
    /\ edited' = (program' # program)
    /\ tables' = [k \in Keys |-> NoTable]
    /\ memo' = << >>
    /\ provisional' = [q \in Returns |-> Never]
    /\ moved' = {} /\ iteration' = [q \in Returns |-> 0]
    /\ UNCHANGED <<walking, stack, scratch, panicked>>

Init ==
    /\ HierarchyInit /\ program \in InitialPrograms
    /\ run = 1 /\ records = << >>
    /\ stack = << >> /\ memo = << >> /\ scratch = << >>
    /\ provisional = [q \in Returns |-> Never]
    /\ moved = {} /\ iteration = [q \in Returns |-> 0]
    /\ panicked = FALSE /\ edited = FALSE

Query ==
    \/ Consult \/ Enter \/ GiveUp \/ Finish \/ Participate
    \/ AscendInside \/ Converge \/ Iterate

Next == Linearize \/ (\E b \in DeclaredBodies : Demand(b)) \/ Query \/ NextRun

Spec == Init /\ [][Next]_vars
FairSpec == Spec /\ WF_vars(Linearize \/ (\E b \in DeclaredBodies : Demand(b)) \/ Query)

----------------------------------------------------------------------------
(* Properties                                                               *)

\* The active queries are all different, no answer of an iteration outlives the
\* queries it rests on, and what is finished is not computed again.
HeadsAreActive ==
    /\ \A i, j \in DOMAIN stack : stack[i].query = stack[j].query => i = j
    /\ \A i \in DOMAIN stack : stack[i].heads \subseteq Active \cap Returns
    /\ \A q \in DOMAIN scratch :
          scratch[q].heads # {} /\ scratch[q].heads \subseteq Active \cap Returns
    /\ DOMAIN memo \cap Active = {}

\* The doc of `inferred_body_types`: salsa's `Panic` is never reachable from here;
\* and of the budget: nor is the engine's own limit.
NeverPanics == ~panicked

\* What a query asks for while it is active is a return, which recovers from the
\* cycle, or the body of a trait's method, pasted into two class-likes: any other
\* body closes a cycle at its owner, which is always entered first
\* (`warm_the_cycle_safe_entry_point`).
OwnBodiesAreEnteredOnce ==
    stack # << >> => \A q \in Asks(Top) \cap Active : q \in Returns \/ q.for # NoKey

\* What a return means under given returns of the others.
Meaning(q, returns) ==
    IF q \in Bodies THEN BodyType(q, returns)
    ELSE IF Delegate(q) = {} THEN {Mixed}
    ELSE UnionOf({IF r \in Bodies THEN BodyType(r, returns) ELSE returns[r] : r \in Delegate(q)})

\* `t` says no less than `s`.
Covered(s, t) == Mixed \in t \/ s \subseteq t

\* What is still to be asked for before a query means anything.
Open(q, returns) ==
    IF q \in Bodies THEN AsksNext(q, returns)
    ELSE UNION {IF r \in Bodies THEN AsksNext(r, returns) ELSE {r} \ DOMAIN returns :
                   r \in Delegate(q)}

\* A finished answer covers what its own code makes of the other finished answers,
\* all of which are there: no cycle is given up before it has settled, whichever
\* of its members was asked first, however cycles nest in it, budget or no budget
\* (`ascend`).
AnswersCover ==
    \A q \in DOMAIN memo : Open(q, memo) = {} /\ Covered(Meaning(q, memo), memo[q])

\* What the returns mean under each other, from `never`, round by round.
Approximations ==
    LET rounds[i \in 0..Cardinality(Returns)] ==
            IF i = 0 THEN [q \in Returns |-> Never]
            ELSE LET before == rounds[i - 1] IN [q \in Returns |-> Meaning(q, before)]
    IN  rounds

\* The least solution: the first that another round leaves as it is.
Least ==
    LET rounds == Approximations
    IN  rounds[CHOOSE i \in 0..(Cardinality(Returns) - 1) : rounds[i] = rounds[i + 1]]

\* Two things make a walk lose more as it learns more: a receiver that is `never`
\* addresses nothing and answers `mixed`, and lists of different depth never join.
Monotone ==
    \A b \in DeclaredBodies : \A i \in DOMAIN CallsOf(b) :
        CallsOf(b)[i].on # "result" /\ ~CallsOf(b)[i].wrapped

\* The answers are all that a body asks for, and what they mean to it.
Walked(body, type, answers) ==
    AreCalls(CallsOf(body)) /\ AsksNext(body, answers) = {} /\ type = BodyType(body, answers)

\* A stored signature says what the body of the return makes of its edges.
Speaks(q) ==
    \E b \in Delegate(q) \cap Bodies :
        Delegate(q) = {b} /\ Walked(b, records[q].returns, records[q].edges)

\* The returns that would be served from a signature that does not say that.
Doubted == {q \in DOMAIN records \cap Returns : StoredHolds(q) /\ ~Speaks(q)}

\* Whatever was edited since, a stored signature whose content and surfaces are
\* found to hold says what its body, as it is now, makes of the edges it lists:
\* what is left to compare is the edges (`validated_stored_return`).
Vouched == ~Linearizing => Doubted = {}

\* Every answer is the least solution of the program as it is now: from whichever
\* body a run starts, whatever was served from the last run's signatures, and
\* whatever was edited in between (`validated_stored_return`, `ascend`).
AnswersAreLeast ==
    ~panicked /\ AllAnswered /\ Monotone =>
        LET least == Least
        IN  \A q \in DOMAIN memo : memo[q] = Meaning(q, least)

\* Nothing edited, every signature still holds, and one is computed again only
\* for an edge that is `never` or rests on a cycle (`TypedDependencies`: the raw
\* pre-substitution invariant).
UneditedSignaturesHold ==
    run > 1 /\ ~edited /\ ~Linearizing =>
        /\ stack = << >> => \A q \in DOMAIN records : StoredHolds(q)
        /\ stack # << >> /\ Mismatch(Top) =>
              Top.heads # {} \/ \E q \in DOMAIN Top.answers : Top.answers[q] = Never

\* Every run comes to an answer for every body.
EveryRunAnswers == []<>AllAnswered

============================================================================
