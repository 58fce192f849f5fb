----------------------------- MODULE RunProofs -----------------------------
(***************************************************************************)
(* What the proof system checks of Inference from one run to the next: the *)
(* tables are the program's, so that whatever was persisted of a program   *)
(* still says what the program means as long as nobody edits it, and after *)
(* any edit that moves nothing its record does not show; and where walks   *)
(* only join, what is answered is the least the program allows, so that    *)
(* two runs of it answer the same.                                         *)
(***************************************************************************)
EXTENDS InferenceProofs

\* Inference, once the tables of the program are made.
Final == INSTANCE InferenceProofs WITH tables <- FinalTables

\* What is assumed of the constants is assumed of the same constants there.
LEMMA FinalHierarchy ==
    /\ NoText \notin Texts
    /\ NoKey \notin Keys \cup Names
    /\ DOMAIN ClassOf \subseteq Texts
    /\ \A t \in DOMAIN ClassOf :
          /\ ClassOf[t].own \in Seq(Names)
          /\ Final!IsList(ClassOf[t].uses) /\ Final!IsList(ClassOf[t].extends)
          /\ Final!IsList(ClassOf[t].implements)
    /\ Final!IsList(EnumParents)
    /\ NoEntry \notin [owner : Keys, method : Names, origin : {"own", "trait", "inherited"},
                       anchor : Keys \cup {NoKey}]
BY HierarchyAssumption DEF Final!IsList, IsList

LEMMA FinalInference ==
    /\ DOMAIN FunctionOf \subseteq Texts \ DOMAIN ClassOf
    /\ \A t \in DOMAIN FunctionOf : Final!AreCalls(FunctionOf[t].calls)
    /\ \A t \in DOMAIN ClassOf : \A i \in DOMAIN ClassOf[t].own :
          Final!AreCalls(ClassOf[t].code[ClassOf[t].own[i]].calls)
    /\ Mixed \notin {Self, Static}
    /\ DepthCap \in Nat
    /\ Budget \in Nat /\ EngineLimit \in Nat /\ Budget < EngineLimit
    /\ InitialPrograms \subseteq [Keys -> Texts \cup {NoText}]
    /\ MaxRuns \in Nat
<1>1. \A calls : Final!AreCalls(calls) <=> AreCalls(calls)
  BY DEF Final!AreCalls, AreCalls, Final!IsList, IsList
<1> QED
  BY <1>1, InferenceAssumption

----------------------------------------------------------------------------
(* The tables are made: what is asked of them is asked of the program       *)

LEMMA CodeIsFinal ==
    ASSUME tables = FinalTables
    PROVE  /\ \A k : Final!IsFunction(k) = IsFunction(k) /\ Final!IsClass(k) = IsClass(k)
                     /\ Final!Declared(k) = Declared(k)
           /\ \A k : Final!DeclaredFunction(k) = DeclaredFunction(k)
           /\ \A body : Final!CodeOf(body) = CodeOf(body) /\ Final!CallsOf(body) = CallsOf(body)
           /\ \A k, name : Final!LookupMember(k, name) = LookupMember(k, name)
           /\ \A found : Final!DeclaredMember(found) = DeclaredMember(found)
           /\ \A c : Final!ResolvedFunction(c) = ResolvedFunction(c)
           /\ \A call, body, before :
                 Final!Receivers(call, body, before) = Receivers(call, body, before)
           /\ \A call, body, before :
                 Final!CalleesOf(call, body, before) = CalleesOf(call, body, before)
           /\ \A q : Final!Delegate(q) = Delegate(q)
<1>1. \A k : Final!IsFunction(k) = IsFunction(k) /\ Final!IsClass(k) = IsClass(k)
             /\ Final!Declared(k) = Declared(k)
  BY DEF Final!IsFunction, IsFunction, Final!IsClass, IsClass, Final!Declared, Declared
<1>2. \A k : Final!DeclaredFunction(k) = DeclaredFunction(k)
  BY <1>1 DEF Final!DeclaredFunction, DeclaredFunction
<1>3. \A body : Final!CodeOf(body) = CodeOf(body) /\ Final!CallsOf(body) = CallsOf(body)
  BY <1>1 DEF Final!CodeOf, CodeOf, Final!CallsOf, CallsOf
<1>4. \A k, name : Final!LookupMember(k, name) = LookupMember(k, name)
  <2>1. \A table, name : Final!FoundIn(table, name) = FoundIn(table, name)
    BY DEF Final!FoundIn, FoundIn, Final!StubDeclares, StubDeclares
  <2>2. \A all : Final!StubFrontier(all) = StubFrontier(all)
    BY DEF Final!StubFrontier, StubFrontier
  <2>3. \A k, stubs, name : Final!IsStub(k) = IsStub(k)
                            /\ Final!StubDeclares(stubs, name) = StubDeclares(stubs, name)
    BY DEF Final!IsStub, IsStub, Final!StubDeclares, StubDeclares
  <2> QED
    BY <1>1, <2>1, <2>2, <2>3 DEF Final!LookupMember, LookupMember
<1>5. \A found : Final!DeclaredMember(found) = DeclaredMember(found)
  BY <1>1 DEF Final!DeclaredMember, DeclaredMember
<1>6. \A c : Final!ResolvedFunction(c) = ResolvedFunction(c)
  BY <1>1 DEF Final!ResolvedFunction, ResolvedFunction, Final!IsFunction, IsFunction
<1>7. \A call, body, before : Final!Receivers(call, body, before) = Receivers(call, body, before)
  BY <1>4 DEF Final!Receivers, Receivers, Final!Resolves, Resolves, Final!ReceiverKeys, ReceiverKeys,
     Final!SelfOf, SelfOf, Final!ReceiverOf, ReceiverOf
<1>8. \A call, body, before : Final!CalleesOf(call, body, before) = CalleesOf(call, body, before)
  <2> TAKE call, body, before
  <2>0. /\ \A k : Final!FunctionReturn(k) = FunctionReturn(k)
        /\ \A k, n : Final!MethodReturn(k, n) = MethodReturn(k, n)
    BY DEF Final!FunctionReturn, FunctionReturn, Final!MethodReturn, MethodReturn
  <2>1. CASE call.on = "function"
    <3>1. {f \in {Final!ResolvedFunction(call.candidates)} :
             Final!IsFunction(f) /\ Final!DeclaredFunction(f) = Undeclared}
          = {f \in {ResolvedFunction(call.candidates)} : IsFunction(f) /\ DeclaredFunction(f) = Undeclared}
      BY <1>1, <1>2, <1>6
    <3> QED
      BY <2>0, <2>1, <3>1 DEF Final!CalleesOf, CalleesOf
  <2>2. CASE call.on # "function"
    <3>1. {c \in Final!Receivers(call, body, before) :
             Final!DeclaredMember(Final!LookupMember(c, call.name)) = Undeclared}
          = {c \in Receivers(call, body, before) :
             DeclaredMember(LookupMember(c, call.name)) = Undeclared}
      BY <1>4, <1>5, <1>7
    <3> QED
      BY <2>0, <2>2, <3>1 DEF Final!CalleesOf, CalleesOf
  <2> QED
    BY <2>1, <2>2
<1>9. \A q : Final!Delegate(q) = Delegate(q)
  BY <1>1, <1>4 DEF Final!Delegate, Delegate, Final!Body, Body, Final!MethodReturn, MethodReturn,
     Final!BodyOf, BodyOf
<1> QED
  BY <1>1, <1>2, <1>3, <1>4, <1>5, <1>6, <1>7, <1>8, <1>9

LEMMA TypesAreFinal ==
    ASSUME tables = FinalTables, NEW call, NEW body, NEW before, NEW answers
    PROVE  Final!TypeOfCall(call, body, before, answers) = TypeOfCall(call, body, before, answers)
<1>0. /\ \A k : Final!FunctionReturn(k) = FunctionReturn(k)
      /\ \A k, n : Final!MethodReturn(k, n) = MethodReturn(k, n)
      /\ \A type, owner, receiver :
            Final!AtBoundary(type, owner, receiver) = AtBoundary(type, owner, receiver)
      /\ \A types : Final!UnionOf(types) = UnionOf(types)
      /\ \A c, b : Final!ReceiverOf(c, b) = ReceiverOf(c, b)
  BY DEF Final!FunctionReturn, FunctionReturn, Final!MethodReturn, MethodReturn,
     Final!AtBoundary, AtBoundary, Final!UnionOf, UnionOf, Final!ReceiverOf, ReceiverOf
<1>1. \A k : Final!FunctionCallType(k, answers) = FunctionCallType(k, answers)
  BY <1>0, CodeIsFinal DEF Final!FunctionCallType, FunctionCallType
<1>2. \A k, name, found, receiver :
        Final!MemberType(k, name, found, answers, receiver) = MemberType(k, name, found, answers, receiver)
  BY <1>0, CodeIsFinal DEF Final!MemberType, MemberType, Final!MemberOwner, MemberOwner
<1>3. \A name, keys, receiver :
        Final!MethodCallType(name, keys, answers, receiver) = MethodCallType(name, keys, answers, receiver)
  <2> TAKE name, keys, receiver
  <2>1. {Final!MemberType(k, name, Final!LookupMember(k, name), answers, receiver) : k \in keys}
        = {MemberType(k, name, LookupMember(k, name), answers, receiver) : k \in keys}
    BY <1>2, CodeIsFinal
  <2> QED
    BY <1>0, <2>1 DEF Final!MethodCallType, MethodCallType
<1> QED
  BY <1>0, <1>1, <1>3, CodeIsFinal DEF Final!TypeOfCall, TypeOfCall

LEMMA BodyIsFinal ==
    ASSUME tables = FinalTables, NEW body, NEW answers, HasCode(body)
    PROVE  /\ Final!CallTypes(body, answers) = CallTypes(body, answers)
           /\ Final!AsksNext(body, answers) = AsksNext(body, answers)
           /\ Final!BodyType(body, answers) = BodyType(body, answers)
<1> DEFINE n == Len(CallsOf(body))
<1>0. PICK s, t : s = CallTypes(body, answers) /\ t = Final!CallTypes(body, answers)
  OBVIOUS
<1>1. Final!CallsOf(body) = CallsOf(body) /\ Final!CodeOf(body) = CodeOf(body)
  BY CodeIsFinal
<1>2. n \in Nat
  BY DEF HasCode
<1>3. Types(s, body, answers, n)
  BY <1>0, <1>2, CallTypesAreTypes
<1>4. Final!Types(t, body, answers, n)
  <2>1. Len(Final!CallsOf(body)) \in Nat
    BY <1>1, <1>2
  <2>2. Final!Types(Final!CallTypes(body, answers), body, answers, Len(Final!CallsOf(body)))
    BY <2>1, Final!CallTypesAreTypes, FinalHierarchy, FinalInference
  <2> QED
    BY <1>0, <1>1, <2>2
<1>5. \A i, u : Final!StepOf(body, answers, i, u) = StepOf(body, answers, i, u)
  BY <1>1, CodeIsFinal, TypesAreFinal DEF Final!StepOf, StepOf, Final!Never, Never
<1>6. /\ s = [i \in 0..n |-> StepOf(body, answers, i, s[i - 1])]
      /\ t = [i \in 0..n |-> StepOf(body, answers, i, t[i - 1])]
  BY <1>3, <1>4, <1>5 DEF Types, Final!Types
<1>7. \A u : StepOf(body, answers, 0, u) = Never
  BY DEF StepOf
<1> HIDE DEF n
<1>8. s = t
  <2>1. Along(s, n) /\ Along(t, n)
    BY <1>6 DEF Along
  <2>2. \A i \in 0..n : s[i] = StepOf(body, answers, i, s[i - 1]) /\ t[i] = StepOf(body, answers, i, t[i - 1])
    BY <1>6
  <2>3. s[0] = t[0]
    BY <1>2, <1>7, <2>2
  <2>4. \A i \in 1..n : s[i - 1] = t[i - 1] => s[i] = t[i]
    BY <1>2, <2>2
  <2> QED
    BY <1>2, <2>1, <2>3, <2>4, SameWalk
<1>9. Final!CallTypes(body, answers) = CallTypes(body, answers)
  BY <1>0, <1>8
<1>10. \A types : Final!Callees(body, types) = Callees(body, types)
  BY <1>1, CodeIsFinal DEF Final!Callees, Callees
<1>11. Final!AsksNext(body, answers) = AsksNext(body, answers)
  BY <1>9, <1>10 DEF Final!AsksNext, AsksNext, Final!FirstOpen, FirstOpen
<1>12. \A types : Final!ReturnedBy(body, types) = ReturnedBy(body, types)
  <2>1. /\ \A types : Final!UnionOf(types) = UnionOf(types)
        /\ \A call, type : Final!Returned(call, type) = Returned(call, type)
    BY DEF Final!UnionOf, UnionOf, Final!Returned, Returned, Final!Wrapped, Wrapped
  <2> QED
    BY <1>1, <2>1 DEF Final!ReturnedBy, ReturnedBy
<1>13. Final!BodyType(body, answers) = BodyType(body, answers)
  BY <1>9, <1>12 DEF Final!BodyType, BodyType
<1> QED
  BY <1>9, <1>11, <1>13

LEMMA WalkedIsFinal ==
    ASSUME tables = FinalTables
    PROVE  \A b, type, answers : Final!Walked(b, type, answers) <=> Walked(b, type, answers)
<1> SUFFICES ASSUME NEW b, NEW type, NEW answers
             PROVE  Final!Walked(b, type, answers) <=> Walked(b, type, answers)
  OBVIOUS
<1>1. Final!CallsOf(b) = CallsOf(b)
  BY CodeIsFinal
<1>2. Final!AreCalls(CallsOf(b)) <=> AreCalls(CallsOf(b))
  BY DEF Final!AreCalls, AreCalls, Final!IsList, IsList
<1>3. CASE AreCalls(CallsOf(b))
  <2>1. HasCode(b)
    BY <1>3, CodeOfReal
  <2> QED
    BY <1>1, <1>2, <2>1, BodyIsFinal DEF Final!Walked, Walked
<1>4. CASE ~AreCalls(CallsOf(b))
  BY <1>1, <1>2, <1>4 DEF Final!Walked, Walked
<1> QED
  BY <1>3, <1>4

LEMMA HoldsAreFinal ==
    ASSUME tables = FinalTables
    PROVE  /\ \A k : Final!ClassDigest(k) = ClassDigest(k) /\ Final!FunctionDigest(k) = FunctionDigest(k)
           /\ \A q : Final!DefiningFile(q) = DefiningFile(q)
           /\ \A record, file : Final!RecordHolds(record, file) <=> RecordHolds(record, file)
<1>1. \A k : Final!ClassDigest(k) = ClassDigest(k)
  <2> TAKE k
  <2>1. \A n : Final!DeclaredMember(Final!LookupMember(k, n)) = DeclaredMember(LookupMember(k, n))
    BY CodeIsFinal
  <2>2. Final!AncestorOrder(k) = AncestorOrder(k)
    BY CodeIsFinal DEF Final!AncestorOrder, AncestorOrder
  <2> QED
    BY <2>1, <2>2, CodeIsFinal DEF Final!ClassDigest, ClassDigest
<1>2. \A k : Final!FunctionDigest(k) = FunctionDigest(k)
  BY CodeIsFinal DEF Final!FunctionDigest, FunctionDigest
<1>3. \A q : Final!DefiningFile(q) = DefiningFile(q)
  BY CodeIsFinal DEF Final!DefiningFile, DefiningFile
<1>4. \A record, file : Final!RecordHolds(record, file) <=> RecordHolds(record, file)
  BY <1>1, <1>2 DEF Final!RecordHolds, RecordHolds, Final!Content, Content
<1> QED
  BY <1>1, <1>2, <1>3, <1>4

----------------------------------------------------------------------------
(* What is persisted of a run                                               *)

\* A body means the same under no more answers than it asks for.
LEMMA BodyRestricts ==
    ASSUME NEW body, NEW answers, NEW later, HasCode(body), Extends(answers, later),
           AsksNext(body, later) = {},
           \A i \in DOMAIN CallsOf(body) :
               CalleesOf(CallsOf(body)[i], body, CallTypes(body, later)[i - 1]) \subseteq DOMAIN answers
    PROVE  /\ CallTypes(body, answers) = CallTypes(body, later)
           /\ AsksNext(body, answers) = {} /\ BodyType(body, answers) = BodyType(body, later)
<1> DEFINE n == Len(CallsOf(body))
           s == CallTypes(body, answers)
           t == CallTypes(body, later)
           C(i, u) == CalleesOf(CallsOf(body)[i], body, u)
<1>1. n \in Nat /\ DOMAIN CallsOf(body) = 1..n
  BY DEF HasCode
<1>2. Types(s, body, answers, n) /\ Types(t, body, later, n)
  BY <1>1, CallTypesAreTypes
<1>3. \A i \in 1..n : C(i, t[i - 1]) \subseteq DOMAIN answers
  BY <1>1
<1>4. \A i \in 1..n : StepOf(body, later, i, t[i - 1]) = StepOf(body, answers, i, t[i - 1])
  <2> TAKE i \in 1..n
  <2>1. C(i, t[i - 1]) \subseteq DOMAIN answers /\ C(i, t[i - 1]) \subseteq DOMAIN later
    BY <1>3 DEF Extends
  <2>2. TypeOfCall(CallsOf(body)[i], body, t[i - 1], later) = TypeOfCall(CallsOf(body)[i], body, t[i - 1], answers)
    BY <2>1, CallExtends
  <2> QED
    BY <1>1, <2>1, <2>2 DEF StepOf
<1> HIDE DEF s, t, n
<1>5. s = t
  <2>1. /\ \A i \in 0..n : s[i] = StepOf(body, answers, i, s[i - 1]) /\ t[i] = StepOf(body, later, i, t[i - 1])
        /\ Along(s, n) /\ Along(t, n)
    BY <1>2 DEF Types, Along
  <2>2. s[0] = t[0]
    BY <1>1, <2>1 DEF StepOf
  <2>3. \A i \in 1..n : s[i - 1] = t[i - 1] => s[i] = t[i]
    BY <1>1, <1>4, <2>1
  <2> QED
    BY <1>1, <2>1, <2>2, <2>3, SameWalk
<1>6. AsksNext(body, answers) = {}
  <2> DEFINE callees == Callees(body, s)
  <2>1. DOMAIN callees = 1..n /\ \A i \in 1..n : callees[i] = C(i, t[i - 1])
    BY <1>1, <1>5 DEF Callees
  <2>2. \A i \in 1..n : callees[i] \subseteq DOMAIN answers
    BY <1>3, <2>1
  <2> HIDE DEF callees
  <2>3. FirstOpen(callees, DOMAIN answers) = {}
    BY <2>1, <2>2 DEF FirstOpen
  <2> QED
    BY <2>3 DEF AsksNext, callees, s
<1>7. BodyType(body, answers) = BodyType(body, later)
  BY <1>5 DEF BodyType, s, t
<1> QED
  BY <1>5, <1>6, <1>7 DEF s, t

\* What is stored of a return holds of the program, and says what its body means:
\* as the tables are now, and as they are once all are made.
Kept(q, record) ==
    /\ RecordHolds(record, DefiningFile(q))
    /\ \E b \in Bodies : Delegate(q) = {b} /\ Walked(b, record.returns, record.edges)

FinalKept(q, record) ==
    /\ Final!RecordHolds(record, Final!DefiningFile(q))
    /\ \E b \in Bodies : Final!Delegate(q) = {b} /\ Final!Walked(b, record.returns, record.edges)

LEMMA KeptIsFinal ==
    ASSUME tables = FinalTables
    PROVE  \A q, record : FinalKept(q, record) <=> Kept(q, record)
BY CodeIsFinal, WalkedIsFinal, HoldsAreFinal DEF Kept, FinalKept

LEMMA FinalKeptStands ==
    ASSUME UNCHANGED program
    PROVE  \A q, record : FinalKept(q, record)' <=> FinalKept(q, record)
<1>1. FinalTables' = FinalTables
  BY WalksStand
<1>2. \A b, type, answers : Final!Walked(b, type, answers)' <=> Final!Walked(b, type, answers)
  BY <1>1, Final!WalkedStands, FinalHierarchy, FinalInference
<1>3. /\ \A q : Final!DefiningFile(q)' = Final!DefiningFile(q)
      /\ \A record, file : Final!RecordHolds(record, file)' = Final!RecordHolds(record, file)
  BY <1>1, Final!HoldsStands, FinalHierarchy, FinalInference
<1>4. \A q : Final!Delegate(q)' = Final!Delegate(q)
  BY <1>1, Final!CodeStands, FinalHierarchy, FinalInference
<1>5. Bodies' = Bodies
  BY DEF Bodies
<1> QED
  BY <1>2, <1>3, <1>4, <1>5 DEF FinalKept

\* The signature of a return speaks of the file that declares it, and its return
\* comes down to the body it is collected from.
LEMMA DeclaredIsDefined ==
    ASSUME HierarchyInvariant, ~Linearizing, NEW b \in DeclaredBodies
    PROVE  /\ DefiningFile(Owner(b)) = b.key /\ b.key # NoKey
           /\ Delegate(Owner(b)) = {b} /\ b \in Bodies
<1>1. CASE \E k \in Keys : IsFunction(k) /\ b = Body(k, NoKey, NoKey)
  <2>1. PICK k \in Keys : IsFunction(k) /\ b = Body(k, NoKey, NoKey)
    BY <1>1
  <2>2. b.key = k /\ b.name = NoKey /\ Owner(b) = FunctionReturn(k) /\ b \in Bodies
    BY <2>1 DEF Body, Owner, Bodies
  <2>3. FunctionReturn(k).kind = "function" /\ FunctionReturn(k).key = k
    BY DEF FunctionReturn
  <2> QED
    BY <2>1, <2>2, <2>3, HierarchyAssumption DEF DefiningFile, Delegate
<1>2. CASE \E k \in ClassKeys : \E i \in DOMAIN Declared(k).own :
               b = Body(k, Declared(k).own[i], NoKey)
  <2>1. PICK k \in ClassKeys : \E i \in DOMAIN Declared(k).own :
               b = Body(k, Declared(k).own[i], NoKey)
    BY <1>2
  <2>2. PICK i \in DOMAIN Declared(k).own : b = Body(k, Declared(k).own[i], NoKey)
    BY <2>1
  <2>3. PICK n : n = Declared(k).own[i]
    OBVIOUS
  <2>4. k \in Keys /\ IsClass(k) /\ Linearized(k)
    BY <2>1 DEF ClassKeys, Linearizing
  <2>5. n \in Names /\ n # NoKey /\ DeclaresItself(k, n)
    <3>1. Declared(k).own \in Seq(Names)
      BY <2>4, HierarchyAssumption DEF IsClass, Declared
    <3> QED
      BY <2>2, <2>3, <3>1, HierarchyAssumption DEF DeclaresItself
  <2>6. /\ b = Body(k, n, NoKey) /\ b.key = k /\ b.name = n /\ Owner(b) = MethodReturn(k, n)
        /\ b \in Bodies
    <3>1. b = Body(k, n, NoKey)
      BY <2>2, <2>3
    <3>2. b.key = k /\ b.name = n
      BY <3>1 DEF Body
    <3>3. Owner(b) = MethodReturn(k, n)
      BY <2>5, <3>2 DEF Owner
    <3>4. b \in Bodies
      BY <2>4, <2>5, <3>1 DEF Bodies
    <3> QED
      BY <3>1, <3>2, <3>3, <3>4
  <2>7. tables[k].members[n] = OwnEntry(k, n)
    BY <2>4, <2>5 DEF HierarchyInvariant, TablesAreSound, OwnFirst
  <2>8. OwnEntry(k, n) # NoEntry
    BY <2>4, <2>5, HierarchyAssumption DEF OwnEntry
  <2>9. LookupMember(k, n).tier = "source" /\ LookupMember(k, n).entry = OwnEntry(k, n)
    BY <2>4, <2>7, <2>8 DEF LookupMember, FoundIn
  <2>10. /\ OwnEntry(k, n).owner = k /\ OwnEntry(k, n).origin = "own"
         /\ BodyOf(OwnEntry(k, n)) = Body(k, n, NoKey)
    BY DEF OwnEntry, BodyOf, Body
  <2>11. MethodReturn(k, n).kind = "method" /\ MethodReturn(k, n).key = k /\ MethodReturn(k, n).name = n
    BY DEF MethodReturn
  <2>12. DefiningFile(Owner(b)) = k
    BY <2>4, <2>6, <2>9, <2>10, <2>11 DEF DefiningFile
  <2>13. Delegate(Owner(b)) = {BodyOf(OwnEntry(k, n))}
    BY <2>6, <2>9, <2>10, <2>11 DEF Delegate
  <2> QED
    BY <2>4, <2>6, <2>10, <2>12, <2>13, HierarchyAssumption
<1> QED
  BY <1>1, <1>2 DEF DeclaredBodies

\* A signature is the record of one body, under the answers it lists and no others.
IsRecordOf(b, record) ==
    /\ record = RecordOf(b, CallTypes(b, record.edges))
    /\ Walked(b, record.returns, record.edges)

LEMMA CollectedFrom ==
    ASSUME Standing, Sound, AllAnswered, NEW q \in DOMAIN Collected
    PROVE  /\ Extends(Collected[q].edges, memo)
           /\ \E b \in Recorded : /\ Owner(b) = q /\ IsRecordOf(b, Collected[q])
                                  /\ DefiningFile(q) = b.key /\ b.key # NoKey
                                  /\ Delegate(q) = {b} /\ b \in Bodies
<1>1. q \in {Owner(b) : b \in Recorded}
  BY DEF Collected
<1>2. PICK b : b = CHOOSE c \in Recorded : Owner(c) = q
  OBVIOUS
<1>3. b \in Recorded /\ Owner(b) = q /\ b \in DeclaredBodies
  BY <1>1, <1>2 DEF Recorded
<1>4. Collected[q] = Signature(b)
  BY <1>1, <1>2 DEF Collected
<1>5. /\ DefiningFile(q) = b.key /\ b.key # NoKey /\ Delegate(q) = {b} /\ b \in Bodies
      /\ b \in DOMAIN memo
  BY <1>3, DeclaredIsDefined DEF AllAnswered, Standing
<1>6. PICK types, record : types = CallTypes(b, memo) /\ record = Signature(b)
  OBVIOUS
<1>7. record = RecordOf(b, types)
  BY <1>6 DEF Signature
<1>8. PICK answers, returns : answers = record.edges /\ returns = record.returns
  OBVIOUS
<1>9. /\ DOMAIN answers = InferredCallees(b, types) /\ returns = memo[b]
      /\ \A p \in DOMAIN answers : answers[p] = memo[p]
  BY <1>7, <1>8 DEF RecordOf, RawEdge
<1>10. Walked(b, memo[b], memo) /\ AsksNext(b, memo) = {}
  BY <1>5, BodiesAreWalked DEF Sound
<1>11. HasCode(b) /\ AreCalls(CallsOf(b)) /\ memo[b] = BodyType(b, memo)
  BY <1>10, CodeOfReal DEF Walked
<1>12. \A i \in DOMAIN CallsOf(b) :
          CalleesOf(CallsOf(b)[i], b, types[i - 1]) \subseteq DOMAIN answers
  <2> TAKE i \in DOMAIN CallsOf(b)
  <2>1. Callees(b, types)[i] = CalleesOf(CallsOf(b)[i], b, types[i - 1])
    BY DEF Callees
  <2> QED
    BY <1>9, <2>1 DEF InferredCallees
<1>13. Extends(answers, memo)
  <2>1. \A i \in DOMAIN CallsOf(b) : CalleesOf(CallsOf(b)[i], b, types[i - 1]) \subseteq DOMAIN memo
    BY <1>6, <1>10, <1>11, NothingOpen
  <2>2. \A i \in DOMAIN CallsOf(b) : Callees(b, types)[i] \subseteq DOMAIN memo
    BY <2>1 DEF Callees
  <2>3. DOMAIN answers \subseteq DOMAIN memo
    BY <1>9, <2>2 DEF InferredCallees
  <2> QED
    BY <1>9, <2>3 DEF Extends
<1>14. /\ CallTypes(b, answers) = types /\ AsksNext(b, answers) = {}
       /\ BodyType(b, answers) = BodyType(b, memo)
  BY <1>6, <1>10, <1>11, <1>12, <1>13, BodyRestricts
<1>15. Walked(b, returns, answers)
  BY <1>9, <1>11, <1>14 DEF Walked
<1>16. IsRecordOf(b, record)
  BY <1>7, <1>8, <1>14, <1>15 DEF IsRecordOf
<1> QED
  BY <1>3, <1>4, <1>5, <1>6, <1>8, <1>13, <1>16

LEMMA CollectedIsKept ==
    ASSUME Standing, Sound, AllAnswered, NEW q \in DOMAIN Collected
    PROVE  Kept(q, Collected[q]) /\ Extends(Collected[q].edges, memo)
<1>1. PICK record : record = Collected[q]
  OBVIOUS
<1>2. PICK b \in Recorded : /\ IsRecordOf(b, record) /\ DefiningFile(q) = b.key /\ b.key # NoKey
                           /\ Delegate(q) = {b} /\ b \in Bodies
  BY <1>1, CollectedFrom
<1>3. RecordHolds(record, DefiningFile(q))
  <2>1. PICK types : record = RecordOf(b, types)
    BY <1>2 DEF IsRecordOf
  <2> QED
    BY <1>2, <2>1 DEF RecordOf, RecordHolds
<1> QED
  BY <1>1, <1>2, <1>3, CollectedFrom DEF Kept, IsRecordOf

----------------------------------------------------------------------------
(* From one run to the next                                                 *)

LEMMA RunsKeepDetermined ==
    ASSUME HierarchyInvariant, Determined, [Next]_vars
    PROVE  Determined'
<1>1. CASE Linearize
  BY <1>1, WalkKeepsDetermined DEF Linearize
<1>2. CASE NextRun
  <2>1. root' = NoKey /\ tables' = [k \in Keys |-> NoTable]
    BY <1>2 DEF NextRun, AllAnswered, Linearizing, walking
  <2>2. \A k \in Keys : ~Linearized(k)'
    BY <2>1 DEF Linearized
  <2> QED
    BY <2>1, <2>2 DEF Determined
<1>3. CASE (\E b \in DeclaredBodies : Demand(b)) \/ Query \/ UNCHANGED vars
  <2>1. UNCHANGED <<program, hierarchy>>
    BY <1>3 DEF Demand, Query, Consult, Enter, GiveUp, Finish, Participate, AscendInside,
                Converge, Iterate, vars, saved
  <2> QED
    BY <2>1, DeterminedStands
<1> QED
  BY <1>1, <1>2, <1>3 DEF Next

\* What is stored of a program that nobody edited is kept of that program.
Persisted == ~edited => \A q \in DOMAIN records : FinalKept(q, records[q])

LEMMA PersistedKeeps ==
    ASSUME Standing, Sound, Determined, Persisted, [Next]_vars
    PROVE  Persisted'
<1>1. CASE NextRun
  <2> SUFFICES ASSUME ~edited'
               PROVE  \A q \in DOMAIN records' : FinalKept(q, records[q])'
    BY DEF Persisted
  <2>1. program' = program /\ records' = Collected /\ AllAnswered
    BY <1>1 DEF NextRun
  <2>2. tables = FinalTables
    BY <2>1, AllTables DEF AllAnswered, Linearizing
  <2> TAKE q \in DOMAIN records'
  <2>3. PICK record : record = records'[q]
    OBVIOUS
  <2>4. q \in DOMAIN Collected /\ record = Collected[q]
    BY <2>1, <2>3
  <2>5. FinalKept(q, record)
    BY <2>1, <2>2, <2>4, CollectedIsKept, KeptIsFinal
  <2>6. FinalKept(q, record)'
    BY <2>1, <2>5, FinalKeptStands
  <2> QED
    BY <2>3, <2>6
<1>2. CASE UNCHANGED <<program, records, edited>>
  <2> SUFFICES ASSUME ~edited'
               PROVE  \A q \in DOMAIN records' : FinalKept(q, records[q])'
    BY DEF Persisted
  <2> TAKE q \in DOMAIN records'
  <2>1. PICK record : record = records'[q]
    OBVIOUS
  <2>2. FinalKept(q, record)
    BY <1>2, <2>1 DEF Persisted
  <2>3. FinalKept(q, record)'
    BY <1>2, <2>2, FinalKeptStands
  <2> QED
    BY <2>1, <2>3
<1>3. [Next]_vars => NextRun \/ UNCHANGED <<program, records, edited>>
  <2>1. Linearize => UNCHANGED <<program, records, edited>>
    BY DEF Linearize, Walk, BeginWalk, Revisit, Visit, FollowEdge, FinishWalk
  <2>2. (\E b \in DeclaredBodies : Demand(b)) \/ Query \/ UNCHANGED vars
        => UNCHANGED <<program, records, edited>>
    BY DEF Demand, Query, Consult, Enter, GiveUp, Finish, Participate, AscendInside,
           Converge, Iterate, vars, saved
  <2> QED
    BY <2>1, <2>2 DEF Next
<1> QED
  BY <1>1, <1>2, <1>3

RunInvariant ==
    Standing /\ DepthOneInvariant /\ Sound /\ Determined /\ Persisted

LEMMA RunsAtFirst == Init => RunInvariant
<1> SUFFICES ASSUME Init PROVE RunInvariant
  OBVIOUS
<1>1. Standing /\ DepthOneInvariant /\ Sound
  BY SoundAtFirst
<1>2. Determined
  BY DeterminedAtFirst DEF Init, HierarchyInit
<1>3. Persisted
  BY DEF Init, Persisted
<1> QED
  BY <1>1, <1>2, <1>3 DEF RunInvariant

LEMMA RunsKeep == RunInvariant /\ [Next]_vars => RunInvariant'
<1> SUFFICES ASSUME RunInvariant, [Next]_vars PROVE RunInvariant'
  OBVIOUS
<1>1. Standing' /\ DepthOneInvariant' /\ Sound'
  BY StandingKeeps, SoundKeeps DEF RunInvariant
<1>2. Determined'
  BY RunsKeepDetermined DEF RunInvariant, Standing
<1>3. Persisted'
  BY PersistedKeeps DEF RunInvariant
<1> QED
  BY <1>1, <1>2, <1>3 DEF RunInvariant

\* The tables made again, what is stored of an unedited program holds and says
\* what the program means.
LEMMA StoredIsKept ==
    ASSUME RunInvariant, ~edited, ~Linearizing
    PROVE  \A q \in DOMAIN records : StoredHolds(q) /\ Speaks(q)
<1>1. tables = FinalTables
  BY AllTables DEF RunInvariant, Linearizing
<1>2. \A q \in DOMAIN records : Kept(q, records[q])
  BY <1>1, KeptIsFinal DEF RunInvariant, Persisted
<1> QED
  BY <1>2 DEF Kept, StoredHolds, Speaks

(***************************************************************************)
(* `validate_stored`, when nobody edited the project between two runs: the *)
(* tables are made again, in whatever order, and every stored signature is *)
(* found to hold and says what its body makes of the edges it lists.       *)
(***************************************************************************)
SignaturesStand ==
    ~edited /\ ~Linearizing => \A q \in DOMAIN records : StoredHolds(q) /\ Speaks(q)

THEOREM UneditedSignaturesStand == Spec => []SignaturesStand
<1>1. RunInvariant => SignaturesStand
  BY StoredIsKept DEF SignaturesStand
<1> QED
  BY <1>1, RunsAtFirst, RunsKeep, PTL DEF Spec

(***************************************************************************)
(* `inferred_body_types` and `ascend`, in the first run and in any run of  *)
(* a project that was not edited since the one before: every finished      *)
(* answer covers what its code makes of the other finished answers, the    *)
(* ones that were served from stored signatures included.                  *)
(***************************************************************************)
THEOREM UneditedAnswersCover == Spec => [](~edited => AnswersCover)
<1>1. RunInvariant => (~edited => AnswersCover)
  <2> SUFFICES ASSUME RunInvariant, ~edited PROVE AnswersCover
    OBVIOUS
  <2>1. Vouched
    BY StoredIsKept DEF Vouched, Doubted
  <2> QED
    BY <2>1, CoverWithoutDoubt DEF RunInvariant, Standing
<1> QED
  BY <1>1, RunsAtFirst, RunsKeep, PTL DEF Spec

----------------------------------------------------------------------------
(***************************************************************************)
(* How the answers compare with any returns the program could have.  In a  *)
(* program whose walks only join, a body means no less under answers that  *)
(* say no less, and so nothing that is answered, finished or not, goes     *)
(* beyond returns that cover what they mean under each other.              *)
(***************************************************************************)

\* `mixed` stands alone.
IsNormal(type) == Mixed \in type => type = {Mixed}

LEMMA Normals ==
    /\ \A types : IsNormal(UnionOf(types))
    /\ \A s, t : IsNormal(Union(s, t))
    /\ IsNormal({Mixed}) /\ IsNormal(Never)
BY DEF IsNormal, UnionOf, Union, Never

LEMMA CoveredOrder ==
    /\ \A s : Covered(s, s) /\ Covered(Never, s)
    /\ \A s, t, u : Covered(s, t) /\ Covered(t, u) => Covered(s, u)
    /\ \A s, t : IsNormal(s) /\ IsNormal(t) /\ Covered(s, t) /\ Covered(t, s) => s = t
<1>1. \A s : Covered(s, s) /\ Covered(Never, s)
  BY DEF Covered, Never
<1>2. \A s, t, u : Covered(s, t) /\ Covered(t, u) => Covered(s, u)
  BY DEF Covered
<1>3. ASSUME NEW s, NEW t, IsNormal(s), IsNormal(t), Covered(s, t), Covered(t, s)
      PROVE  s = t
  BY <1>3 DEF Covered, IsNormal
<1> QED
  BY <1>1, <1>2, <1>3

LEMMA UnionCovers ==
    ASSUME NEW X, NEW Y, \A x \in X : \E y \in Y : Covered(x, y)
    PROVE  Covered(UnionOf(X), UnionOf(Y))
<1>1. CASE Mixed \in UNION Y
  BY <1>1 DEF UnionOf, Covered
<1>2. CASE Mixed \notin UNION Y
  <2>1. \A x \in X : \E y \in Y : x \subseteq y
    BY <1>2 DEF Covered
  <2>2. UNION X \subseteq UNION Y
    BY <2>1
  <2> QED
    BY <1>2, <2>2 DEF UnionOf, Covered
<1> QED
  BY <1>1, <1>2

LEMMA JoinIsCovered ==
    ASSUME NEW s, NEW t, NEW u, Covered(s, u), Covered(t, u)
    PROVE  Covered(Union(s, t), u)
BY DEF Covered, Union

\* The placeholders of more alternatives are bound to no less.
LEMMA BoundaryCovers ==
    ASSUME NEW s, NEW t, Covered(s, t), NEW owner, NEW receiver
    PROVE  Covered(AtBoundary(s, owner, receiver), AtBoundary(t, owner, receiver))
<1> DEFINE bound(x) == IF x = Self THEN {owner} ELSE IF x = Static THEN receiver ELSE {x}
<1>1. /\ AtBoundary(s, owner, receiver) = UnionOf({bound(x) : x \in s})
      /\ AtBoundary(t, owner, receiver) = UnionOf({bound(x) : x \in t})
  BY DEF AtBoundary
<1>2. bound(Mixed) = {Mixed}
  BY InferenceAssumption
<1> HIDE DEF bound
<1>3. CASE Mixed \in t
  <2>1. {Mixed} \in {bound(x) : x \in t}
    BY <1>2, <1>3
  <2>2. Mixed \in UNION {bound(x) : x \in t}
    BY <2>1
  <2> QED
    BY <1>1, <2>2 DEF UnionOf, Covered
<1>4. CASE Mixed \notin t
  <2>1. \A x \in s : x \in t
    BY <1>4 DEF Covered
  <2>2. \A a \in {bound(x) : x \in s} : \E b \in {bound(x) : x \in t} : Covered(a, b)
    BY <2>1, CoveredOrder
  <2>3. Covered(UnionOf({bound(x) : x \in s}), UnionOf({bound(x) : x \in t}))
    BY <2>2, UnionCovers
  <2> QED
    BY <1>1, <2>3
<1> QED
  BY <1>3, <1>4

\* A call that asks nothing of the call before it.
IsPlain(call) == call.on # "result" /\ ~call.wrapped

LEMMA PlainCallAsksTheSame ==
    ASSUME NEW call, IsPlain(call), NEW body, NEW before, NEW other
    PROVE  /\ ReceiverOf(call, before) = ReceiverOf(call, other)
           /\ Receivers(call, body, before) = Receivers(call, body, other)
           /\ CalleesOf(call, body, before) = CalleesOf(call, body, other)
<1>1. ReceiverOf(call, before) = ReceiverOf(call, other)
  BY DEF ReceiverOf, IsPlain
<1>2. Receivers(call, body, before) = Receivers(call, body, other)
  BY <1>1 DEF Receivers
<1> QED
  BY <1>1, <1>2 DEF CalleesOf

LEMMA PlainCallCovers ==
    ASSUME NEW call, IsPlain(call), NEW body, NEW before, NEW other, NEW less, NEW more,
           \A q \in CalleesOf(call, body, before) : Covered(less[q], more[q])
    PROVE  Covered(TypeOfCall(call, body, before, less), TypeOfCall(call, body, other, more))
<1>1. CASE call.on = "function"
  <2> DEFINE k == ResolvedFunction(call.candidates)
  <2>1. CASE IsFunction(k) /\ DeclaredFunction(k) = Undeclared
    <3>1. FunctionReturn(k) \in CalleesOf(call, body, before)
      BY <1>1, <2>1 DEF CalleesOf
    <3>2. Covered(less[FunctionReturn(k)], more[FunctionReturn(k)])
      BY <3>1
    <3> QED
      BY <1>1, <2>1, <3>2 DEF TypeOfCall, FunctionCallType
  <2>2. CASE ~(IsFunction(k) /\ DeclaredFunction(k) = Undeclared)
    <3>1. FunctionCallType(k, less) = FunctionCallType(k, more)
      BY <2>2 DEF FunctionCallType
    <3> QED
      BY <1>1, <3>1, CoveredOrder DEF TypeOfCall
  <2> QED
    BY <2>1, <2>2
<1>2. CASE call.on # "function"
  <2> DEFINE keys == Receivers(call, body, before)
             receiver == ReceiverOf(call, before)
             name == call.name
             Of(k, answers) == MemberType(k, name, LookupMember(k, name), answers, receiver)
  <2>1. ASSUME NEW k \in keys PROVE Covered(Of(k, less), Of(k, more))
    <3> DEFINE owner == MemberOwner(k, LookupMember(k, name))
    <3>1. CASE DeclaredMember(LookupMember(k, name)) = Undeclared
      <4>1. MethodReturn(k, name) \in CalleesOf(call, body, before)
        BY <1>2, <3>1 DEF CalleesOf
      <4>2. Covered(less[MethodReturn(k, name)], more[MethodReturn(k, name)])
        BY <4>1
      <4>3. /\ Of(k, less) = AtBoundary(less[MethodReturn(k, name)], owner, receiver)
            /\ Of(k, more) = AtBoundary(more[MethodReturn(k, name)], owner, receiver)
        BY <3>1 DEF MemberType
      <4> HIDE DEF Of, owner, receiver
      <4> QED
        BY <4>2, <4>3, BoundaryCovers
    <3>2. CASE DeclaredMember(LookupMember(k, name)) # Undeclared
      <4>1. Of(k, less) = Of(k, more)
        BY <3>2 DEF MemberType
      <4> HIDE DEF Of
      <4> QED
        BY <4>1, CoveredOrder
    <3> QED
      BY <3>1, <3>2
  <2>2. keys = Receivers(call, body, other) /\ receiver = ReceiverOf(call, other)
    BY PlainCallAsksTheSame
  <2>3. /\ TypeOfCall(call, body, before, less) = MethodCallType(name, keys, less, receiver)
        /\ TypeOfCall(call, body, other, more) = MethodCallType(name, keys, more, receiver)
    BY <1>2, <2>2 DEF TypeOfCall
  <2>4. \A answers : MethodCallType(name, keys, answers, receiver)
                     = IF keys = {} THEN {Mixed} ELSE UnionOf({Of(k, answers) : k \in keys})
    BY DEF MethodCallType
  <2> HIDE DEF keys, receiver, name, Of
  <2>5. \A x \in {Of(k, less) : k \in keys} : \E y \in {Of(k, more) : k \in keys} : Covered(x, y)
    BY <2>1
  <2>6. Covered(UnionOf({Of(k, less) : k \in keys}), UnionOf({Of(k, more) : k \in keys}))
    BY <2>5, UnionCovers
  <2>7. CASE keys = {}
    <3>1. MethodCallType(name, keys, less, receiver) = MethodCallType(name, keys, more, receiver)
      BY <2>4, <2>7
    <3> QED
      BY <2>3, <3>1, CoveredOrder
  <2>8. CASE keys # {}
    BY <2>3, <2>4, <2>6, <2>8
  <2> QED
    BY <2>7, <2>8
<1> QED
  BY <1>1, <1>2

\* A body whose calls ask nothing of each other.
IsPlainBody(b) == AreCalls(CallsOf(b)) /\ \A i \in DOMAIN CallsOf(b) : IsPlain(CallsOf(b)[i])

LEMMA PlainBodyCovers ==
    ASSUME NEW b, IsPlainBody(b), NEW less, NEW more,
           AsksNext(b, less) = {}, AsksNext(b, more) = {},
           \A q \in DOMAIN less \cap DOMAIN more : Covered(less[q], more[q])
    PROVE  Covered(BodyType(b, less), BodyType(b, more))
<1> DEFINE n == Len(CallsOf(b))
           s == CallTypes(b, less)
           t == CallTypes(b, more)
           J == {j \in DOMAIN CallsOf(b) : CallsOf(b)[j].returned}
<1>1. HasCode(b) /\ n \in Nat /\ DOMAIN CallsOf(b) = 1..n
  BY CodeOfReal DEF IsPlainBody, HasCode
<1>2. Types(s, b, less, n) /\ Types(t, b, more, n)
  BY <1>1, CallTypesAreTypes
<1>3. \A i \in 1..n : /\ CalleesOf(CallsOf(b)[i], b, s[i - 1]) \subseteq DOMAIN less
                      /\ CalleesOf(CallsOf(b)[i], b, t[i - 1]) \subseteq DOMAIN more
  BY <1>1, NothingOpen
<1>4. \A i \in 1..n : CalleesOf(CallsOf(b)[i], b, s[i - 1]) = CalleesOf(CallsOf(b)[i], b, t[i - 1])
  BY <1>1, PlainCallAsksTheSame DEF IsPlainBody
<1>5. \A i \in 1..n : /\ s[i] = TypeOfCall(CallsOf(b)[i], b, s[i - 1], less)
                      /\ t[i] = TypeOfCall(CallsOf(b)[i], b, t[i - 1], more)
  <2> HIDE DEF s, t, n
  <2>1. \A i \in 0..n : s[i] = StepOf(b, less, i, s[i - 1]) /\ t[i] = StepOf(b, more, i, t[i - 1])
    BY <1>2 DEF Types
  <2> QED
    BY <1>1, <1>3, <2>1 DEF StepOf
<1>6. \A i \in 1..n : Covered(s[i], t[i])
  <2> TAKE i \in 1..n
  <2>1. PICK u, w : u = s[i - 1] /\ w = t[i - 1]
    OBVIOUS
  <2>2. IsPlain(CallsOf(b)[i])
    BY <1>1 DEF IsPlainBody
  <2>3. \A q \in CalleesOf(CallsOf(b)[i], b, u) : Covered(less[q], more[q])
    BY <1>3, <1>4, <2>1
  <2>4. Covered(TypeOfCall(CallsOf(b)[i], b, u, less), TypeOfCall(CallsOf(b)[i], b, w, more))
    BY <2>2, <2>3, PlainCallCovers
  <2> QED
    BY <1>5, <2>1, <2>4
<1>7. \A i \in J : i \in 1..n /\ \A type : Returned(CallsOf(b)[i], type) = type
  BY <1>1 DEF IsPlainBody, IsPlain, Returned
<1>8. /\ BodyType(b, less) = UnionOf({CodeOf(b).returns} \cup {Returned(CallsOf(b)[i], s[i]) : i \in J})
      /\ BodyType(b, more) = UnionOf({CodeOf(b).returns} \cup {Returned(CallsOf(b)[i], t[i]) : i \in J})
  BY DEF BodyType, ReturnedBy
<1> HIDE DEF s, t, n, J
<1> DEFINE X == {CodeOf(b).returns} \cup {Returned(CallsOf(b)[i], s[i]) : i \in J}
           Y == {CodeOf(b).returns} \cup {Returned(CallsOf(b)[i], t[i]) : i \in J}
<1>9. \A x \in X : \E y \in Y : Covered(x, y)
  <2> TAKE x \in X
  <2>1. CASE x = CodeOf(b).returns
    BY <2>1, CoveredOrder
  <2>2. CASE \E i \in J : x = Returned(CallsOf(b)[i], s[i])
    <3>1. PICK i \in J : x = Returned(CallsOf(b)[i], s[i])
      BY <2>2
    <3>2. x = s[i] /\ Returned(CallsOf(b)[i], t[i]) = t[i] /\ Covered(s[i], t[i])
      BY <1>6, <1>7, <3>1
    <3>3. Returned(CallsOf(b)[i], t[i]) \in Y
      OBVIOUS
    <3> QED
      BY <3>2, <3>3
  <2> QED
    BY <2>1, <2>2
<1> HIDE DEF X, Y
<1>10. Covered(UnionOf(X), UnionOf(Y))
  BY <1>9, UnionCovers
<1> QED
  BY <1>8, <1>10 DEF X, Y

LEMMA TotalAsksNothing ==
    ASSUME NEW b, AreCalls(CallsOf(b)), NEW returns, DOMAIN returns = Returns
    PROVE  AsksNext(b, returns) = {}
<1>1. \A q \in AsksNext(b, returns) : q \in Returns
  BY CalleeIsReal
<1>2. \A q \in AsksNext(b, returns) : q \notin DOMAIN returns
  BY DEF AsksNext, FirstOpen
<1> QED
  BY <1>1, <1>2

\* Under more answers a return means no less either.
LEMMA MeaningCovers ==
    ASSUME NEW q \in Returns, \A r \in Delegate(q) : r \in Bodies => IsPlainBody(r),
           NEW less, NEW more, Open(q, less) = {}, Open(q, more) = {},
           \A p \in DOMAIN less \cap DOMAIN more : Covered(less[p], more[p])
    PROVE  Covered(Meaning(q, less), Meaning(q, more))
<1> DEFINE Of(r, answers) == IF r \in Bodies THEN BodyType(r, answers) ELSE answers[r]
<1>1. q \notin Bodies
  BY KindsDiffer
<1>2. \A r \in Delegate(q) :
        /\ r \in Bodies => AsksNext(r, less) = {} /\ AsksNext(r, more) = {}
        /\ r \notin Bodies => r \in DOMAIN less \cap DOMAIN more
  <2> TAKE r \in Delegate(q)
  <2>1. /\ (IF r \in Bodies THEN AsksNext(r, less) ELSE {r} \ DOMAIN less) = {}
        /\ (IF r \in Bodies THEN AsksNext(r, more) ELSE {r} \ DOMAIN more) = {}
    BY <1>1 DEF Open
  <2> QED
    BY <2>1
<1>3. \A r \in Delegate(q) : Covered(Of(r, less), Of(r, more))
  BY <1>2, PlainBodyCovers
<1>4. \A answers : Meaning(q, answers)
                   = IF Delegate(q) = {} THEN {Mixed} ELSE UnionOf({Of(r, answers) : r \in Delegate(q)})
  BY <1>1 DEF Meaning
<1> HIDE DEF Of
<1>5. \A x \in {Of(r, less) : r \in Delegate(q)} : \E y \in {Of(r, more) : r \in Delegate(q)} : Covered(x, y)
  BY <1>3
<1>6. Covered(UnionOf({Of(r, less) : r \in Delegate(q)}), UnionOf({Of(r, more) : r \in Delegate(q)}))
  BY <1>5, UnionCovers
<1> QED
  BY <1>4, <1>6, CoveredOrder

\* A return, or a body that is written down, wherever it is pasted.
IsWritten(q) ==
    q \in Returns \/ (q \in Bodies /\ \E b \in DeclaredBodies : CallsOf(b) = CallsOf(q))

LEMMA WrittenIsPlain ==
    ASSUME Monotone, NEW q \in Bodies, IsWritten(q)
    PROVE  IsPlainBody(q)
BY DeclaredIsReal, KindsDiffer DEF Monotone, IsWritten, IsPlainBody, IsPlain

LEMMA DelegateIsWritten ==
    ASSUME HierarchyInvariant, ~Linearizing, NEW q \in Returns, NEW r \in Delegate(q)
    PROVE  IsWritten(r) /\ IsReal(r)
<1>1. IsReal(r)
  BY DelegateIsReal
<1>2. CASE q.kind = "function"
  <2>1. r = Body(q.key, NoKey, NoKey) /\ IsFunction(q.key)
    BY <1>2 DEF Delegate
  <2>2. q.key \in Keys
    BY <2>1 DEF IsFunction
  <2>3. r \in DeclaredBodies
    BY <2>1, <2>2 DEF DeclaredBodies
  <2> QED
    BY <1>1, <2>3 DEF IsWritten, IsReal
<1>3. CASE q.kind # "function"
  <2>1. PICK k \in Keys, n \in Names : q = MethodReturn(k, n)
    BY <1>3 DEF Returns, FunctionReturn
  <2>2. q.key = k /\ q.name = n
    BY <2>1 DEF MethodReturn
  <2> DEFINE found == LookupMember(k, n)
  <2>3. found.tier = "source"
    BY <1>3, <2>2 DEF Delegate
  <2>4. found.entry.owner \in Keys /\ IsClass(found.entry.owner)
    BY <2>3, EntryIsReal
  <2>5. PICK i \in DOMAIN Declared(found.entry.owner).own :
            Declared(found.entry.owner).own[i] = found.entry.method
    BY <2>3, EntryIsReal
  <2> HIDE DEF found
  <2>6. r = IF found.entry.origin = "inherited" THEN MethodReturn(found.entry.owner, n)
            ELSE BodyOf(found.entry)
    BY <1>3, <2>2, <2>3 DEF Delegate, found
  <2>7. CASE found.entry.origin = "inherited"
    <3>1. r \in Returns
      BY <2>4, <2>6, <2>7 DEF Returns
    <3> QED
      BY <1>1, <3>1, KindsDiffer DEF IsWritten
  <2>8. CASE found.entry.origin # "inherited"
    <3>1. PICK c, m, a : c = found.entry.owner /\ m = found.entry.method /\ a = found.entry.anchor
      OBVIOUS
    <3>2. r = Body(c, m, a)
      BY <2>6, <2>8, <3>1 DEF BodyOf
    <3>3. CallsOf(Body(c, m, NoKey)) = CallsOf(r)
      BY <3>2 DEF CallsOf, CodeOf, Body
    <3>4. c \in ClassKeys
      BY <2>4, <3>1 DEF ClassKeys
    <3>5. Body(c, m, NoKey) \in DeclaredBodies
      BY <2>5, <3>1, <3>4 DEF DeclaredBodies
    <3> QED
      BY <1>1, <3>3, <3>5 DEF IsWritten, IsReal
  <2> QED
    BY <2>7, <2>8
<1> QED
  BY <1>2, <1>3

----------------------------------------------------------------------------
(* What a run gives for an answer                                           *)

\* What the query on top comes to, if it has nothing more to ask.
Made(q, value) ==
    /\ Finished /\ q = Top.query
    /\ value = Result(Top) \/ (q \in Top.heads /\ value = Ascended)

\* Whatever is answered was answered before, or is what the top has come to.
LEMMA AnswersMove ==
    ASSUME EngineInvariant, Query
    PROVE  /\ \A q \in DOMAIN memo' :
                 \/ q \in DOMAIN memo /\ memo'[q] = memo[q]
                 \/ q \in DOMAIN scratch /\ memo'[q] = scratch[q].answer
                 \/ Made(q, memo'[q])
           /\ \A q \in DOMAIN scratch' :
                 \/ q \in DOMAIN scratch /\ scratch'[q].answer = scratch[q].answer
                 \/ Made(q, scratch'[q].answer)
           /\ DOMAIN provisional = Returns => \A q \in Returns :
                 \/ provisional'[q] = provisional[q] \/ provisional'[q] = Never
                 \/ Made(q, provisional'[q])
<1>1. CASE Consult \/ Enter \/ GiveUp
  BY <1>1 DEF Consult, Enter, GiveUp
<1>2. CASE Finish
  BY <1>2 DEF Finish, With, Made
<1>3. CASE Participate
  BY <1>3 DEF Participate, With, Made
<1>4. CASE AscendInside
  <2>1. PICK top, ascended, outer : top = Top.query /\ ascended = Ascended /\ outer = Outer
    OBVIOUS
  <2>2. /\ Finished /\ top \in Top.heads /\ memo' = memo
        /\ provisional' = [provisional EXCEPT ![top] = ascended]
        /\ DOMAIN scratch' = DOMAIN scratch \cup {top}
        /\ scratch'[top].answer = ascended
        /\ \A q \in DOMAIN scratch : q # top =>
              scratch'[q] = IF top \in scratch[q].heads
                            THEN [scratch[q] EXCEPT !.heads = (@ \ {top}) \cup outer]
                            ELSE scratch[q]
    BY <1>4, <2>1 DEF AscendInside, With
  <2>3. \A q \in DOMAIN scratch : q # top => scratch'[q].answer = scratch[q].answer
    <3> TAKE q \in DOMAIN scratch
    <3>1. "answer" \in DOMAIN scratch[q]
      BY DEF EngineInvariant, Shape, IsAnswer
    <3>2. PICK x : x = scratch[q]
      OBVIOUS
    <3>3. \A heads : [x EXCEPT !.heads = heads].answer = x.answer
      BY <3>1, <3>2
    <3>4. q # top => scratch'[q] = IF top \in x.heads
                                   THEN [x EXCEPT !.heads = (@ \ {top}) \cup outer] ELSE x
      BY <2>2, <3>2
    <3>5. PICK heads : heads = (x.heads \ {top}) \cup outer
      OBVIOUS
    <3>6. q # top => scratch'[q] = [x EXCEPT !.heads = heads] \/ scratch'[q] = x
      BY <3>4, <3>5
    <3>7. [x EXCEPT !.heads = heads].answer = x.answer
      BY <3>3
    <3> QED
      BY <3>2, <3>6, <3>7
  <2>4. Made(top, ascended)
    BY <2>1, <2>2 DEF Made
  <2> QED
    BY <2>2, <2>3, <2>4
<1>5. CASE Converge
  <2>1. Finished /\ Top.query \in Top.heads
    BY <1>5 DEF Converge, Outermost
  <2>2. Made(Top.query, Ascended)
    BY <2>1 DEF Made
  <2>3. \A q \in DOMAIN memo' :
           \/ q \in DOMAIN memo /\ memo'[q] = memo[q]
           \/ q \in DOMAIN scratch /\ memo'[q] = scratch[q].answer
           \/ Made(q, memo'[q])
    BY <1>5, <2>2 DEF Converge, Cycle, Resting
  <2>4. \A q \in DOMAIN scratch' : q \in DOMAIN scratch /\ scratch'[q] = scratch[q]
    BY <1>5 DEF Converge, Left
  <2>5. \A q \in Returns : provisional'[q] = provisional[q] \/ provisional'[q] = Never
    BY <1>5 DEF Converge
  <2> QED
    BY <2>3, <2>4, <2>5
<1>6. CASE Iterate
  <2>1. Finished /\ Top.query \in Top.heads
    BY <1>6 DEF Iterate, Outermost
  <2>2. Made(Top.query, Ascended)
    BY <2>1 DEF Made
  <2>3. \A q \in DOMAIN scratch' : q \in DOMAIN scratch /\ scratch'[q] = scratch[q]
    BY <1>6 DEF Iterate, Left
  <2>4. memo' = memo /\ provisional' = [provisional EXCEPT ![Top.query] = Ascended]
    BY <1>6 DEF Iterate, saved
  <2> QED
    BY <2>2, <2>3, <2>4
<1> QED
  BY <1>1, <1>2, <1>3, <1>4, <1>5, <1>6 DEF Query

\* Every body that is active or answered is written down.
AllWritten == \A q \in DOMAIN memo \cup DOMAIN scratch \cup Active : IsWritten(q)

LEMMA WrittenStands ==
    ASSUME UNCHANGED program
    PROVE  /\ \A q : IsWritten(q)' <=> IsWritten(q)
           /\ Monotone' <=> Monotone
<1>1. /\ \A k : IsFunction(k)' = IsFunction(k) /\ Declared(k)' = Declared(k)
      /\ ClassKeys' = ClassKeys /\ Bodies' = Bodies
  BY DEF IsFunction, IsClass, Declared, ClassKeys, Bodies
<1>2. DeclaredBodies' = DeclaredBodies
  BY <1>1 DEF DeclaredBodies
<1>3. \A q : CallsOf(q)' = CallsOf(q)
  BY <1>1 DEF CallsOf, CodeOf
<1> QED
  BY <1>1, <1>2, <1>3 DEF IsWritten, Monotone

LEMMA AsksAreWritten ==
    ASSUME Standing, Sound, stack # << >>, NEW q \in Asks(Top), Top.awaits = {}
    PROVE  IsWritten(q)
<1>1. Top = stack[1] /\ 1 \in DOMAIN stack
  BY StackTop DEF Standing, EngineInvariant, Shape, Top
<1>2. Proceeds(Top.query, Top.mode) /\ ~Linearizing /\ HierarchyInvariant
  BY <1>1 DEF Standing, Sound, Ready
<1>3. CASE Top.mode = "validating"
  <2>1. q \in DOMAIN records[Top.query].edges /\ Top.query \in DOMAIN records
    BY <1>2, <1>3 DEF Asks, Proceeds
  <2> QED
    BY <2>1, KindsDiffer DEF Sound, EdgesAreReturns, IsWritten
<1>4. CASE Top.mode # "validating" /\ Top.query \in Returns
  BY <1>2, <1>4, DelegateIsWritten DEF Asks
<1>5. CASE Top.mode # "validating" /\ Top.query \notin Returns
  <2>1. q \in Returns
    BY <1>2, <1>5, CalleeIsReal DEF Asks, IsReal, Proceeds
  <2> QED
    BY <2>1, KindsDiffer DEF IsWritten
<1> QED
  BY <1>3, <1>4, <1>5

\* Who is active was active, or was asked for by the top.
LEMMA ActiveMoves ==
    ASSUME Standing, Query
    PROVE  \A q \in Active' : q \in Active \/ (q \in Asks(Top) /\ Top.awaits = {})
<1>1. stack # << >> /\ EngineInvariant
  BY QueriesOnly DEF Standing
<1>2. /\ Top = stack[1] /\ IsFrame(stack[1]) /\ 1 \in DOMAIN stack
      /\ DOMAIN stack = 1..Len(stack) /\ Len(stack) \in Nat \ {0} /\ IsList(stack)
  BY <1>1, StackTop DEF EngineInvariant, Shape, Top
<1>3. \A i \in DOMAIN stack : stack[i].query \in Active
  BY DEF Active
<1>4. ASSUME NEW x, x.query = stack[1].query, stack' = <<x>> \o Tail(stack)
      PROVE  \A q \in Active' : q \in Active
  <2>1. /\ DOMAIN stack' = DOMAIN stack /\ stack'[1] = x
        /\ \A i \in DOMAIN stack : i # 1 => stack'[i] = stack[i]
    BY <1>1, <1>2, <1>4, StackReplace
  <2>2. \A i \in DOMAIN stack' : stack'[i].query = stack[i].query
    BY <1>4, <2>1
  <2> QED
    BY <1>3, <2>1, <2>2 DEF Active
<1>5. CASE Consult
  <2>1. PICK q, answer, heads : Answered(q, answer, heads)
    BY <1>5 DEF Consult
  <2>2. PICK x : x = [Top EXCEPT !.answers = With(@, q, answer), !.heads = @ \cup heads,
                                 !.awaits = {}]
    OBVIOUS
  <2>3. stack' = <<x>> \o Tail(stack) /\ x.query = stack[1].query
    BY <1>2, <2>1, <2>2 DEF Answered, IsFrame
  <2> QED
    BY <1>4, <2>3
<1>6. CASE GiveUp
  <2>1. PICK x : x = [Top EXCEPT !.mode = "computing", !.answers = << >>]
    OBVIOUS
  <2>2. stack' = <<x>> \o Tail(stack) /\ x.query = stack[1].query
    BY <1>2, <1>6, <2>1 DEF GiveUp, IsFrame
  <2> QED
    BY <1>4, <2>2
<1>7. CASE Iterate
  <2>1. PICK x : x = Frame(Top.query)
    OBVIOUS
  <2>2. stack' = <<x>> \o Tail(stack) /\ x.query = stack[1].query
    BY <1>2, <1>7, <2>1 DEF Iterate, Frame
  <2> QED
    BY <1>4, <2>2
<1>8. CASE Finish \/ Participate \/ AscendInside \/ Converge
  <2>1. stack' = Tail(stack)
    BY <1>8 DEF Finish, Participate, AscendInside, Converge
  <2>2. \A i \in DOMAIN stack' : i + 1 \in DOMAIN stack /\ stack'[i] = stack[i + 1]
    BY <1>1, <1>2, <2>1, StackPop
  <2> QED
    BY <1>3, <2>2 DEF Active
<1>9. CASE Enter
  <2>1. PICK q \in Asks(Top) :
          /\ q \notin DOMAIN memo \cup DOMAIN scratch \cup (Active \cap Returns)
          /\ stack' = IF q \in Active THEN stack
                      ELSE <<Frame(q), [Top EXCEPT !.awaits = {q}]>> \o Tail(stack)
    BY <1>9 DEF Enter
  <2>2. Top.awaits = {}
    BY <1>1, <1>2, <2>1 DEF EngineInvariant, Awaiting, Asks
  <2>3. CASE q \in Active
    BY <2>1, <2>3 DEF Active
  <2>4. CASE q \notin Active
    <3>1. PICK x, y : x = Frame(q) /\ y = [Top EXCEPT !.awaits = {q}]
      OBVIOUS
    <3>2. x.query = q /\ y.query = stack[1].query
      BY <1>2, <3>1 DEF IsFrame, Frame
    <3>3. stack' = <<x, y>> \o Tail(stack)
      BY <2>1, <2>4, <3>1
    <3>4. /\ DOMAIN stack' = 1..(Len(stack) + 1) /\ stack'[1] = x /\ stack'[2] = y
          /\ \A i \in DOMAIN stack : i # 1 => stack'[i + 1] = stack[i]
      BY <1>1, <1>2, <3>3, StackPush
    <3>5. \A i \in DOMAIN stack' : i = 1 \/ i = 2 \/ (i - 1 \in DOMAIN stack /\ i - 1 # 1 /\ (i - 1) + 1 = i)
      BY <1>2, <3>4
    <3>6. \A i \in DOMAIN stack' : stack'[i].query = q \/ stack'[i].query \in Active
      <4> TAKE i \in DOMAIN stack'
      <4>1. CASE i = 1 \/ i = 2
        BY <1>2, <1>3, <3>2, <3>4, <4>1
      <4>2. CASE i - 1 \in DOMAIN stack /\ i - 1 # 1 /\ (i - 1) + 1 = i
        BY <1>3, <3>4, <4>2
      <4> QED
        BY <3>5, <4>1, <4>2
    <3> QED
      BY <2>1, <2>2, <3>6 DEF Active
  <2> QED
    BY <2>3, <2>4
<1> QED
  BY <1>5, <1>6, <1>7, <1>8, <1>9 DEF Query

----------------------------------------------------------------------------
(* Solutions                                                                *)

\* What a query answers where the returns are these.
At(q, returns) == IF q \in Bodies THEN BodyType(q, returns) ELSE returns[q]

\* Nothing that is answered, finished or not, goes beyond them.
Below(returns) ==
    /\ \A q \in DOMAIN memo : Covered(memo[q], At(q, returns))
    /\ \A q \in DOMAIN scratch : Covered(scratch[q].answer, At(q, returns))
    /\ \A q \in Returns : Covered(provisional[q], returns[q])

AnsweredNormally ==
    /\ \A q \in DOMAIN memo : IsNormal(memo[q])
    /\ \A q \in DOMAIN scratch : IsNormal(scratch[q].answer)

\* The walks of the program only join, and no signature is served in doubt.
Plain == ~Linearizing /\ Monotone /\ Doubted = {}

Fresh == Linearizing => \A q \in Returns : provisional[q] = Never

Ceiling ==
    /\ AllWritten /\ Fresh
    /\ Plain => AnsweredNormally /\ \A returns : Solves(returns) => Below(returns)

\* A return on a cycle still moves, and is about to be given up as `mixed`.
BudgetSpent ==
    /\ Finished /\ Top.query \in Top.heads
    /\ Union(provisional[Top.query], Result(Top)) # provisional[Top.query]
    /\ iteration[Top.query] >= Budget

\* In a program whose walks only join, every cycle settles before its budget is
\* spent: `mixed` is for those that nest lists.
WithinBudget == Monotone => ~BudgetSpent

LEMMA DelegatesAreCoded ==
    ASSUME HierarchyInvariant, ~Linearizing
    PROVE  DelegatesHaveCode
<1>1. \A q \in Returns : \A r \in Delegate(q) : IsReal(r)
  BY DelegateIsReal
<1> QED
  BY <1>1, KindsDiffer, CodeOfReal DEF IsReal, DelegatesHaveCode

LEMMA AtStands ==
    ASSUME UNCHANGED <<program, tables>>
    PROVE  \A q, returns : IsWritten(q) => At(q, returns)' = At(q, returns)
<1> SUFFICES ASSUME NEW q, NEW returns, IsWritten(q)
             PROVE  At(q, returns)' = At(q, returns)
  OBVIOUS
<1>1. Bodies' = Bodies
  BY DEF Bodies
<1>2. CASE q \in Bodies
  <2>1. AreCalls(CallsOf(q))
    BY <1>2, DeclaredIsReal, KindsDiffer DEF IsWritten
  <2>2. BodyType(q, returns)' = BodyType(q, returns)
    BY <2>1, CodeOfReal, BodyStands
  <2> QED
    BY <1>1, <1>2, <2>2 DEF At
<1>3. CASE q \notin Bodies
  BY <1>1, <1>3 DEF At
<1> QED
  BY <1>2, <1>3

\* What an active query was answered does not go beyond them either.
LEMMA AnswersBelow ==
    ASSUME Standing, Sound, stack # << >>, NEW returns, Below(returns)
    PROVE  \A p \in DOMAIN Top.answers : Covered(Top.answers[p], At(p, returns))
<1>1. Top = stack[1]
  BY StackTop DEF Standing, EngineInvariant, Shape, Top
<1> TAKE p \in DOMAIN Top.answers
<1>2. Fits(p, Top.answers[p], Top.heads)
  BY <1>1, FrameBacks DEF Standing
<1>3. CASE p \in DOMAIN memo /\ Top.answers[p] = memo[p]
  BY <1>3 DEF Below
<1>4. CASE p \in DOMAIN scratch /\ Top.answers[p] = scratch[p].answer
  BY <1>4 DEF Below
<1>5. CASE p \in Returns /\ Top.answers[p] = provisional[p]
  BY <1>5, KindsDiffer DEF Below, At
<1> QED
  BY <1>2, <1>3, <1>4, <1>5 DEF Fits


\* What the top makes of its answers: no more than the returns make of it, and
\* with `mixed` alone.
LEMMA ResultBelow ==
    ASSUME Standing, Sound, Finished, Plain, IsWritten(Top.query)
    PROVE  /\ IsNormal(Result(Top))
           /\ \A returns : Solves(returns) /\ Below(returns)
                  => Covered(Result(Top), At(Top.query, returns))
<1>0. stack # << >> /\ Asks(Top) = {} /\ ~Mismatch(Top) /\ EngineInvariant /\ HierarchyInvariant
  BY DEF Finished, Working, Standing
<1>1. Top = stack[1] /\ stack[1].awaits = {} /\ 1 \in DOMAIN stack
  BY <1>0, FinishedAwaitsNothing, StackTop DEF EngineInvariant, Shape
<1>2. PICK q, answers : q = Top.query /\ answers = Top.answers
  OBVIOUS
<1>3. Proceeds(q, Top.mode) /\ Top.awaits = {} /\ IsWritten(q)
  BY <1>1, <1>2 DEF Sound
<1>4. \A returns : Below(returns) => \A p \in DOMAIN answers : Covered(answers[p], At(p, returns))
  BY <1>0, <1>2, AnswersBelow
<1>5. ASSUME NEW b \in Bodies, IsWritten(b), AsksNext(b, answers) = {},
             NEW returns, Solves(returns), Below(returns)
      PROVE  Covered(BodyType(b, answers), BodyType(b, returns))
  <2>1. IsPlainBody(b)
    BY <1>5, WrittenIsPlain DEF Plain
  <2>2. AsksNext(b, returns) = {} /\ DOMAIN returns = Returns
    BY <1>5, <2>1, TotalAsksNothing DEF Solves, IsPlainBody
  <2>3. \A p \in DOMAIN answers \cap DOMAIN returns : Covered(answers[p], returns[p])
    BY <1>4, <1>5, <2>2, KindsDiffer DEF At
  <2> QED
    BY <1>5, <2>1, <2>2, <2>3, PlainBodyCovers
<1>6. CASE q \in Bodies
  <2>1. Top.query \notin Returns /\ Top.mode = "computing"
    BY <1>2, <1>3, <1>6, KindsDiffer DEF Proceeds
  <2>2. AsksNext(q, answers) = {} /\ Result(Top) = BodyType(q, answers)
    BY <1>0, <1>2, <1>3, <1>6, <2>1 DEF Asks, Result
  <2>3. IsNormal(BodyType(q, answers))
    BY Normals DEF BodyType, ReturnedBy
  <2> QED
    BY <1>2, <1>3, <1>5, <1>6, <2>2, <2>3 DEF At
<1>7. CASE q \notin Bodies /\ Top.mode # "validating"
  <2>1. q \in Returns
    BY <1>3, <1>7 DEF Proceeds, IsReal
  <2>2. Delegate(q) \subseteq DOMAIN answers
    BY <1>0, <1>2, <1>3, <1>7, <2>1 DEF Asks
  <2>3. Result(Top) = ReturnOf(q, answers)
    BY <1>2, <1>7 DEF Result, ReturnOf
  <2>4. IsNormal(ReturnOf(q, answers))
    BY Normals DEF ReturnOf
  <2>5. ASSUME NEW returns, Solves(returns), Below(returns)
        PROVE  Covered(ReturnOf(q, answers), At(q, returns))
    <3>1. \A r \in Delegate(q) : Covered(answers[r], At(r, returns))
      BY <1>4, <2>2, <2>5
    <3>2. \A x \in {answers[r] : r \in Delegate(q)} :
             \E y \in {At(r, returns) : r \in Delegate(q)} : Covered(x, y)
      BY <3>1
    <3>3. Covered(UnionOf({answers[r] : r \in Delegate(q)}), UnionOf({At(r, returns) : r \in Delegate(q)}))
      BY <3>2, UnionCovers
    <3>4. Meaning(q, returns)
          = IF Delegate(q) = {} THEN {Mixed} ELSE UnionOf({At(r, returns) : r \in Delegate(q)})
      BY <1>7 DEF Meaning, At
    <3>5. Covered(ReturnOf(q, answers), Meaning(q, returns))
      BY <3>3, <3>4, CoveredOrder DEF ReturnOf
    <3>6. Covered(Meaning(q, returns), returns[q])
      BY <2>1, <2>5 DEF Solves
    <3> QED
      BY <1>7, <3>5, <3>6, CoveredOrder DEF At
  <2> QED
    BY <1>2, <2>3, <2>4, <2>5
<1>8. CASE q \notin Bodies /\ Top.mode = "validating"
  <2>1. q \in Returns /\ Speaks(q)
    BY <1>3, <1>8 DEF Proceeds, Plain, Doubted
  <2>2. PICK stored, type : stored = records[q].edges /\ type = records[q].returns
    OBVIOUS
  <2>3. PICK b \in Bodies : Delegate(q) = {b} /\ Walked(b, type, stored)
    BY <2>1, <2>2 DEF Speaks
  <2>4. Extends(stored, answers)
    <3>1. DOMAIN stored \subseteq DOMAIN answers
      BY <1>0, <1>2, <1>3, <1>8, <2>2 DEF Asks
    <3>2. \A p \in DOMAIN answers : answers[p] = stored[p]
      BY <1>0, <1>2, <1>8, <2>2 DEF Mismatch
    <3> QED
      BY <3>1, <3>2 DEF Extends
  <2>5. AsksNext(b, answers) = {} /\ BodyType(b, answers) = type
    BY <2>3, <2>4, WalkedExtends
  <2>6. Result(Top) = type
    BY <1>2, <1>8, <2>2 DEF Result
  <2>7. IsNormal(BodyType(b, answers))
    BY Normals DEF BodyType, ReturnedBy
  <2>8. IsWritten(b)
    BY <1>0, <2>1, <2>3, DelegateIsWritten DEF Plain
  <2>9. ASSUME NEW returns, Solves(returns), Below(returns)
        PROVE  Covered(type, At(q, returns))
    <3>1. Covered(type, BodyType(b, returns))
      BY <1>5, <2>5, <2>8, <2>9
    <3>2. {IF r \in Bodies THEN BodyType(r, returns) ELSE returns[r] : r \in Delegate(q)}
          = {BodyType(b, returns)}
      BY <2>3
    <3>3. Meaning(q, returns) = UnionOf({BodyType(b, returns)})
      BY <1>8, <2>3, <3>2 DEF Meaning
    <3>4. UNION {BodyType(b, returns)} = BodyType(b, returns)
      OBVIOUS
    <3>5. Covered(type, Meaning(q, returns))
      BY <3>1, <3>3, <3>4 DEF UnionOf, Covered
    <3>6. Covered(Meaning(q, returns), returns[q])
      BY <2>1, <2>9 DEF Solves
    <3> QED
      BY <1>8, <3>5, <3>6, CoveredOrder DEF At
  <2> QED
    BY <1>2, <2>5, <2>6, <2>7, <2>9
<1> QED
  BY <1>6, <1>7, <1>8

\* And of what it joins, as long as its budget lasts.
LEMMA MadeBelow ==
    ASSUME Standing, Sound, Plain, AllWritten, ~BudgetSpent, Query,
           NEW q, NEW value, Made(q, value)
    PROVE  /\ IsNormal(value)
           /\ \A returns : Solves(returns) /\ Below(returns) => Covered(value, At(q, returns))
<1>1. Finished /\ q = Top.query /\ (value = Result(Top) \/ (q \in Top.heads /\ value = Ascended))
  BY DEF Made
<1>2. stack # << >> /\ EngineInvariant
  BY QueriesOnly DEF Standing
<1>3. Top = stack[1] /\ 1 \in DOMAIN stack
  BY <1>2, StackTop DEF EngineInvariant, Shape, Top
<1>4. IsWritten(q)
  BY <1>1, <1>3 DEF AllWritten, Active
<1>5. PICK made : made = Result(Top)
  OBVIOUS
<1>6. /\ IsNormal(made)
      /\ \A returns : Solves(returns) /\ Below(returns) => Covered(made, At(q, returns))
  BY <1>1, <1>4, <1>5, ResultBelow
<1>7. CASE value = made
  BY <1>6, <1>7
<1>8. CASE q \in Top.heads /\ value = Ascended
  <2>1. q \in Returns
    BY <1>2, <1>3, <1>8 DEF EngineInvariant, HeadsBelow
  <2>2. value = Union(provisional[q], made)
    BY <1>1, <1>5, <1>8 DEF Ascended, Ascend, BudgetSpent
  <2>3. \A returns : Below(returns) => Covered(provisional[q], At(q, returns))
    BY <2>1, KindsDiffer DEF Below, At
  <2>4. \A returns : Solves(returns) /\ Below(returns) => Covered(value, At(q, returns))
    BY <1>6, <2>2, <2>3, JoinIsCovered
  <2> QED
    BY <2>2, <2>4, Normals
<1> QED
  BY <1>1, <1>5, <1>7, <1>8


----------------------------------------------------------------------------
(* Nothing that is answered goes beyond a solution                          *)

LEMMA WrittenKeeps ==
    ASSUME Standing, Sound, AllWritten, Query
    PROVE  AllWritten'
<1>1. /\ stack # << >> /\ UNCHANGED <<program, hierarchy>> /\ EngineInvariant
      /\ Top.query \in Active
  <2>1. stack # << >> /\ UNCHANGED <<program, hierarchy>> /\ EngineInvariant
    BY QueriesOnly DEF Standing
  <2> QED
    BY <2>1, StackTop DEF EngineInvariant, Shape, Top, Active
<1>2. \A q \in DOMAIN memo' \cup DOMAIN scratch' :
         q \in DOMAIN memo \cup DOMAIN scratch \cup Active
  BY <1>1, AnswersMove DEF Made
<1>3. \A q \in Active' : IsWritten(q)
  BY <1>1, ActiveMoves, AsksAreWritten DEF AllWritten
<1>4. \A q \in DOMAIN memo' \cup DOMAIN scratch' \cup Active' : IsWritten(q)
  BY <1>2, <1>3 DEF AllWritten
<1> QED
  BY <1>1, <1>4, WrittenStands DEF AllWritten

LEMMA PlainStands ==
    ASSUME UNCHANGED <<program, hierarchy, records>>
    PROVE  Plain' <=> Plain
<1>1. Linearizing' <=> Linearizing
  BY TablesAreThere
<1>2. Doubted' = Doubted
  BY DoubtStands DEF hierarchy
<1> QED
  BY <1>1, <1>2, WrittenStands DEF Plain

\* The queries of one step move no answer beyond a solution.
LEMMA QueryStaysBelow ==
    ASSUME Standing, Sound, Ceiling, ~BudgetSpent, Query, Plain
    PROVE  (AnsweredNormally /\ \A returns : Solves(returns) => Below(returns))'
<1>1. /\ UNCHANGED <<program, hierarchy, records>> /\ UNCHANGED <<program, tables>>
      /\ EngineInvariant /\ AllWritten /\ DOMAIN provisional = Returns
  BY QueriesOnly DEF hierarchy, Standing, Ceiling
<1>2. AnsweredNormally /\ \A returns : Solves(returns) => Below(returns)
  BY DEF Ceiling
<1>3. \A q, value : Made(q, value) =>
          /\ IsNormal(value)
          /\ \A returns : Solves(returns) /\ Below(returns) => Covered(value, At(q, returns))
  BY <1>1, MadeBelow
<1>4. AnsweredNormally'
  <2>1. \A q \in DOMAIN memo' : IsNormal(memo'[q])
    BY <1>1, <1>2, <1>3, AnswersMove DEF AnsweredNormally
  <2>2. \A q \in DOMAIN scratch' : IsNormal(scratch'[q].answer)
    BY <1>1, <1>2, <1>3, AnswersMove DEF AnsweredNormally
  <2> QED
    BY <2>1, <2>2 DEF AnsweredNormally, IsNormal
<1>5. ASSUME NEW returns, Solves(returns)' PROVE Below(returns)'
  <2>1. DelegatesHaveCode
    BY DelegatesAreCoded DEF Standing, Plain
  <2>2. Solves(returns) /\ Below(returns)
    BY <1>1, <1>2, <1>5, <2>1, SolvesStands
  <2>3. Returns' = Returns
    BY DEF Returns
  <2>4. \A q \in DOMAIN memo' : Covered(memo'[q], At(q, returns))
    BY <1>1, <1>3, <2>2, AnswersMove DEF Below
  <2>5. \A q \in DOMAIN scratch' : Covered(scratch'[q].answer, At(q, returns))
    BY <1>1, <1>3, <2>2, AnswersMove DEF Below
  <2>6. \A q \in Returns : Covered(provisional'[q], returns[q])
    <3> TAKE q \in Returns
    <3>1. CASE provisional'[q] = provisional[q]
      BY <2>2, <3>1 DEF Below
    <3>2. CASE provisional'[q] = Never
      BY <3>2, CoveredOrder
    <3>3. CASE Made(q, provisional'[q])
      BY <1>3, <2>2, <3>3, KindsDiffer DEF At
    <3> QED
      BY <1>1, <3>1, <3>2, <3>3, AnswersMove
  <2>7. \A q \in DOMAIN memo' \cup DOMAIN scratch' : At(q, returns)' = At(q, returns)
    <3>1. \A q \in DOMAIN memo' \cup DOMAIN scratch' : IsWritten(q)
      BY <1>1, WrittenKeeps, WrittenStands DEF AllWritten
    <3> QED
      BY <1>1, <3>1, AtStands
  <2> QED
    BY <2>3, <2>4, <2>5, <2>6, <2>7 DEF Below, Covered
<1> QED
  BY <1>4, <1>5

\* Nor do the steps that leave the answers alone.
LEMMA BelowStands ==
    ASSUME Standing, Ceiling, Plain',
           UNCHANGED <<program, hierarchy, records, memo, scratch, provisional>>
    PROVE  (AnsweredNormally /\ \A returns : Solves(returns) => Below(returns))'
<1>1. Plain /\ UNCHANGED <<program, tables>> /\ Returns' = Returns
  BY PlainStands DEF hierarchy, Returns
<1>2. AnsweredNormally /\ \A returns : Solves(returns) => Below(returns)
  BY <1>1 DEF Ceiling
<1>3. DelegatesHaveCode
  BY <1>1, DelegatesAreCoded DEF Standing, Plain
<1>4. \A returns : Solves(returns)' <=> Solves(returns)
  BY <1>1, <1>3, SolvesStands
<1>5. \A returns : Below(returns) => Below(returns)'
  <2>1. \A p \in DOMAIN memo \cup DOMAIN scratch : \A returns :
           At(p, returns)' = At(p, returns)
    BY <1>1, AtStands DEF Ceiling, AllWritten
  <2> QED
    BY <1>1, <2>1 DEF Below, Covered
<1>6. AnsweredNormally'
  BY <1>2 DEF AnsweredNormally, IsNormal
<1> QED
  BY <1>2, <1>4, <1>5, <1>6

\* Before anything is asked, nothing is answered.
LEMMA NothingBeyond ==
    ASSUME DOMAIN memo = {}, DOMAIN scratch = {}, \A q \in Returns : provisional[q] = Never
    PROVE  AnsweredNormally /\ \A returns : Below(returns)
BY CoveredOrder DEF AnsweredNormally, Below

LEMMA CeilingAtFirst == Init => Ceiling
<1> SUFFICES ASSUME Init PROVE Ceiling
  OBVIOUS
<1>1. /\ DOMAIN stack = {} /\ DOMAIN memo = {} /\ DOMAIN scratch = {}
      /\ \A q \in Returns : provisional[q] = Never
  BY EmptyStack DEF Init
<1>2. AllWritten
  BY <1>1 DEF AllWritten, Active
<1> QED
  BY <1>1, <1>2, NothingBeyond DEF Ceiling, Fresh

LEMMA CeilingKeeps ==
    ASSUME Standing, Sound, Ceiling, WithinBudget, [Next]_vars
    PROVE  Ceiling'
<1>0. Returns' = Returns
  BY DEF Returns
<1>1. ASSUME DOMAIN stack' = {}, DOMAIN memo' = {}, DOMAIN scratch' = {},
             \A q \in Returns : provisional'[q] = Never
      PROVE  Ceiling'
  <2>1. AllWritten'
    BY <1>1 DEF AllWritten, Active
  <2>2. Fresh'
    BY <1>0, <1>1 DEF Fresh, Never
  <2>3. (AnsweredNormally /\ \A returns : Below(returns))'
    BY <1>0, <1>1, CoveredOrder DEF AnsweredNormally, Below, IsNormal, Covered, Never
  <2> QED
    BY <2>1, <2>2, <2>3 DEF Ceiling
<1>2. CASE Linearize
  <2>1. DOMAIN stack = {} /\ DOMAIN memo = {} /\ DOMAIN scratch = {} /\ Linearizing
    BY <1>2, NothingYet
  <2>2. \A q \in Returns : provisional[q] = Never
    BY <2>1 DEF Ceiling, Fresh
  <2>3. UNCHANGED <<stack, memo, scratch, provisional>>
    BY <1>2 DEF Linearize, engine
  <2> QED
    BY <1>1, <2>1, <2>2, <2>3
<1>3. CASE NextRun
  <2>1. stack = << >> /\ memo' = << >>
        /\ provisional' = [q \in Returns |-> Never] /\ UNCHANGED <<stack, scratch>>
    BY <1>3 DEF NextRun, AllAnswered
  <2>2. DOMAIN scratch = {}
    BY <2>1, NothingActive DEF Standing
  <2> QED
    BY <1>1, <2>1, <2>2, EmptyStack
<1>4. CASE \E b \in DeclaredBodies : Demand(b)
  <2>1. PICK b \in DeclaredBodies : Demand(b)
    BY <1>4
  <2>2. /\ stack' = <<Frame(Warmed(b))>> /\ ~Linearizing
        /\ UNCHANGED <<program, hierarchy, records, memo, scratch, provisional>>
        /\ UNCHANGED <<program, tables>>
    BY <2>1 DEF Demand, saved, hierarchy
  <2>3. PICK q, x : q = Warmed(b) /\ x = Frame(q)
    OBVIOUS
  <2>4. DOMAIN stack' = {1} /\ stack'[1] = x /\ x.query = q
    BY <2>2, <2>3, OneFrame DEF Frame
  <2>5. IsWritten(q)
    BY <2>3, DeclaredIsReal, KindsDiffer DEF Warmed, IsWritten
  <2>6. Active' = {q}
    BY <2>4 DEF Active
  <2>7. AllWritten'
    BY <2>2, <2>5, <2>6, WrittenStands DEF Ceiling, AllWritten
  <2>8. Fresh'
    BY <2>2, TablesAreThere DEF Fresh
  <2>9. Plain' => (AnsweredNormally /\ \A returns : Solves(returns) => Below(returns))'
    BY <2>2, BelowStands
  <2> QED
    BY <2>7, <2>8, <2>9 DEF Ceiling
<1>5. CASE Query
  <2>1. UNCHANGED <<program, hierarchy, records>> /\ stack # << >>
    BY <1>5, QueriesOnly
  <2>2. AllWritten'
    BY <1>5, WrittenKeeps DEF Ceiling
  <2>3. ~Linearizing
    BY <2>1 DEF Standing, Ready
  <2>4. Fresh'
    BY <2>1, <2>3, TablesAreThere DEF Fresh
  <2>5. Plain => ~BudgetSpent
    BY DEF WithinBudget, Plain
  <2>6. Plain' => (AnsweredNormally /\ \A returns : Solves(returns) => Below(returns))'
    BY <1>5, <2>1, <2>5, PlainStands, QueryStaysBelow
  <2> QED
    BY <2>2, <2>4, <2>6 DEF Ceiling
<1>6. CASE UNCHANGED vars
  <2>1. /\ UNCHANGED <<program, hierarchy, records, stack, memo, scratch, provisional>>
        /\ UNCHANGED <<program, tables>>
    BY <1>6 DEF vars, saved, engine, hierarchy
  <2>2. AllWritten'
    BY <2>1, WrittenStands DEF Ceiling, AllWritten, Active
  <2>3. Fresh'
    BY <1>0, <2>1, TablesAreThere DEF Ceiling, Fresh, Never
  <2>4. Plain' => (AnsweredNormally /\ \A returns : Solves(returns) => Below(returns))'
    BY <2>1, BelowStands
  <2> QED
    BY <2>2, <2>3, <2>4 DEF Ceiling
<1> QED
  BY <1>2, <1>3, <1>4, <1>5, <1>6 DEF Next


\* The finished answers, `mixed` for whatever was not asked, are such a solution.
LEMMA AnswersSolve ==
    ASSUME Standing, Sound, Plain
    PROVE  \E returns : Solves(returns) /\ \A q \in DOMAIN memo \cap Returns : returns[q] = memo[q]
<1> DEFINE all == [q \in Returns |-> IF q \in DOMAIN memo THEN memo[q] ELSE {Mixed}]
<1>1. /\ DOMAIN all = Returns /\ \A q \in DOMAIN memo \cap Returns : all[q] = memo[q]
      /\ \A q \in Returns \ DOMAIN memo : all[q] = {Mixed}
  OBVIOUS
<1> HIDE DEF all
<1>2. ASSUME NEW q \in Returns PROVE Covered(Meaning(q, all), all[q])
  <2>1. CASE q \in DOMAIN memo
    <3>1. Open(q, memo) = {} /\ Covered(Meaning(q, memo), memo[q])
      BY <2>1, CoverFromMemo DEF Sound, Plain
    <3>2. q \notin Bodies /\ \A r \in Delegate(q) : IsWritten(r) /\ IsReal(r)
      BY KindsDiffer, DelegateIsWritten DEF Standing, Plain
    <3>3. \A r \in Delegate(q) : r \in Bodies => IsPlainBody(r)
      BY <3>2, WrittenIsPlain DEF Plain
    <3>4. \A r \in Delegate(q) :
             (IF r \in Bodies THEN AsksNext(r, all) ELSE {r} \ DOMAIN all) = {}
      <4> TAKE r \in Delegate(q)
      <4>1. CASE r \in Bodies
        <5>1. AsksNext(r, all) = {}
          BY <1>1, <3>3, <4>1, TotalAsksNothing DEF IsPlainBody
        <5> QED
          BY <4>1, <5>1
      <4>2. CASE r \notin Bodies
        <5>1. r \in DOMAIN all
          BY <1>1, <3>2, <4>2 DEF IsReal
        <5> QED
          BY <4>2, <5>1
      <4> QED
        BY <4>1, <4>2
    <3>5. Open(q, all) = {}
      BY <3>2, <3>4 DEF Open
    <3>6. \A p \in DOMAIN all \cap DOMAIN memo : Covered(all[p], memo[p])
      BY <1>1, CoveredOrder
    <3>7. Covered(Meaning(q, all), Meaning(q, memo))
      BY <3>1, <3>3, <3>5, <3>6, MeaningCovers
    <3> QED
      BY <1>1, <2>1, <3>1, <3>7, CoveredOrder
  <2>2. CASE q \notin DOMAIN memo
    BY <1>1, <2>2 DEF Covered
  <2> QED
    BY <2>1, <2>2
<1> QED
  BY <1>1, <1>2 DEF Solves

\* What is answered goes beyond no solution.
AnswersAreMinimal ==
    ~Linearizing /\ Monotone =>
        \A returns : Solves(returns) => \A q \in DOMAIN memo : Covered(memo[q], At(q, returns))

(***************************************************************************)
(* `inferred_body_types` and `ascend`: in a program whose walks only join, *)
(* and where no iteration runs out of its budget, no finished answer says  *)
(* more than any returns that cover what they mean under each other.  With *)
(* VouchedAnswersCover the finished answers are the least such returns, so *)
(* that neither the body a run starts from, nor the order of the calls,    *)
(* nor what was served from stored signatures shows in them.               *)
(***************************************************************************)
THEOREM AnswersGoNoFurther ==
    Spec /\ []WithinBudget => [](Vouched => AnswersAreMinimal)
<1> DEFINE Inv == Standing /\ DepthOneInvariant /\ Sound /\ Ceiling
<1>1. Init => Inv
  BY SoundAtFirst, CeilingAtFirst
<1>2. Inv /\ WithinBudget /\ [Next]_vars => Inv'
  BY StandingKeeps, SoundKeeps, CeilingKeeps
<1>3. Inv => (Vouched => AnswersAreMinimal)
  BY DEF Ceiling, Plain, Vouched, AnswersAreMinimal, Below
<1> QED
  BY <1>1, <1>2, <1>3, PTL DEF Spec

----------------------------------------------------------------------------
(* The least solution, round by round                                       *)

\* One more round of what the returns mean under each other.
RoundOn(before) == [q \in Returns |-> Meaning(q, before)]

\* The rounds come to an end within the bound that `Least` gives them.
Settles ==
    /\ IsFiniteSet(Returns)
    /\ \E i \in 0..(Cardinality(Returns) - 1) : Approximations[i] = Approximations[i + 1]

RoundsTo(rounds, n) ==
    rounds = [i \in 0..n |-> IF i = 0 THEN [q \in Returns |-> Never] ELSE RoundOn(rounds[i - 1])]

LEMMA RoundsExist ==
    ASSUME NEW n \in Nat
    PROVE  \E rounds : RoundsTo(rounds, n)
<1> DEFINE Bad == {m \in 0..n : ~\E t : RoundsTo(t, m)}
           bottom == [q \in Returns |-> Never]
           Round(i, before) == IF i = 0 THEN bottom ELSE RoundOn(before)
<1>0. \A t, m : RoundsTo(t, m) <=> t = [i \in 0..m |-> Round(i, t[i - 1])]
  BY DEF RoundsTo
<1>1. \A u : Round(0, u) = bottom
  OBVIOUS
<1> HIDE DEF Round, bottom
<1>2. ASSUME Bad # {} PROVE FALSE
  <2>1. PICK m \in Bad : \A j \in Bad : m <= j
    <3>1. Bad \subseteq Nat
      OBVIOUS
    <3> HIDE DEF Bad
    <3> QED
      BY <1>2, <3>1, LeastNumber
  <2>2. m \in 0..n /\ ~\E t : RoundsTo(t, m)
    OBVIOUS
  <2>3. CASE m = 0
    <3> DEFINE t == [i \in 0..0 |-> bottom]
    <3>1. t = [i \in 0..0 |-> Round(i, t[i - 1])]
      BY <1>1
    <3> HIDE DEF t
    <3> QED
      BY <1>0, <2>2, <2>3, <3>1
  <2>4. CASE m # 0
    <3>1. m - 1 \in 0..n /\ m - 1 \notin Bad
      BY <2>1, <2>2, <2>4
    <3>2. PICK s : s = [i \in 0..(m - 1) |-> Round(i, s[i - 1])]
      BY <1>0, <3>1
    <3> DEFINE t == [i \in 0..m |-> IF i = m THEN Round(m, s[m - 1]) ELSE s[i]]
    <3>3. \A i \in 0..m : t[i] = Round(i, t[i - 1])
      <4> TAKE i \in 0..m
      <4>1. CASE i = 0
        <5>1. t[i] = s[0] /\ 0 \in 0..(m - 1)
          BY <2>2, <2>4, <4>1
        <5>2. s[0] = Round(0, s[0 - 1])
          BY <3>2, <5>1
        <5> QED
          BY <1>1, <4>1, <5>1, <5>2
      <4>2. CASE i # 0 /\ i # m
        <5>1. i \in 0..(m - 1) /\ t[i] = s[i] /\ i - 1 \in 0..m /\ t[i - 1] = s[i - 1]
          BY <2>2, <4>2
        <5>2. s[i] = Round(i, s[i - 1])
          BY <3>2, <5>1
        <5> HIDE DEF t
        <5> QED
          BY <5>1, <5>2
      <4>3. CASE i # 0 /\ i = m
        <5>1. t[i] = Round(m, s[m - 1]) /\ t[i - 1] = s[m - 1]
          BY <2>2, <4>3
        <5> HIDE DEF t
        <5> QED
          BY <4>3, <5>1
      <4> QED
        BY <4>1, <4>2, <4>3
    <3>4. t = [i \in 0..m |-> t[i]]
      OBVIOUS
    <3> HIDE DEF t
    <3>5. t = [i \in 0..m |-> Round(i, t[i - 1])]
      BY <3>3, <3>4
    <3> QED
      BY <1>0, <2>2, <3>5
  <2> QED
    BY <2>3, <2>4
<1>3. n \in 0..n /\ n \notin Bad
  BY <1>2
<1> QED
  BY <1>3

LEMMA RoundsOfReturns ==
    ASSUME IsFiniteSet(Returns)
    PROVE  /\ Cardinality(Returns) \in Nat
           /\ Approximations[0] = [q \in Returns |-> Never]
           /\ \A i \in 1..Cardinality(Returns) : Approximations[i] = RoundOn(Approximations[i - 1])
<1>1. Cardinality(Returns) \in Nat
  BY FS_CardinalityType
<1>2. Approximations = CHOOSE rounds : RoundsTo(rounds, Cardinality(Returns))
  BY DEF Approximations, RoundsTo, RoundOn
<1>3. PICK rounds : rounds = Approximations
  OBVIOUS
<1>4. RoundsTo(rounds, Cardinality(Returns))
  BY <1>1, <1>2, <1>3, RoundsExist
<1>5. rounds[0] = [q \in Returns |-> Never]
  BY <1>1, <1>4 DEF RoundsTo
<1>6. \A i \in 1..Cardinality(Returns) : rounds[i] = RoundOn(rounds[i - 1])
  <2> TAKE i \in 1..Cardinality(Returns)
  <2>1. i \in 0..Cardinality(Returns) /\ i # 0
    BY <1>1
  <2> QED
    BY <1>4, <2>1 DEF RoundsTo
<1> QED
  BY <1>1, <1>3, <1>5, <1>6


\* No round goes beyond what is answered.
LEMMA RoundsStayBelow ==
    ASSUME Standing, Sound, Plain, IsFiniteSet(Returns)
    PROVE  \A i \in 0..Cardinality(Returns) :
              /\ DOMAIN Approximations[i] = Returns
              /\ \A q \in Returns : IsNormal(Approximations[i][q])
              /\ \A q \in DOMAIN memo \cap Returns : Covered(Approximations[i][q], memo[q])
<1> DEFINE n == Cardinality(Returns)
           Fine(round) == /\ DOMAIN round = Returns
                          /\ \A q \in Returns : IsNormal(round[q])
                          /\ \A q \in DOMAIN memo \cap Returns : Covered(round[q], memo[q])
<1>1. PICK rounds : rounds = Approximations
  OBVIOUS
<1>2. /\ n \in Nat /\ rounds[0] = [q \in Returns |-> Never]
      /\ \A i \in 1..n : rounds[i] = RoundOn(rounds[i - 1])
  BY <1>1, RoundsOfReturns
<1>3. Fine(rounds[0])
  BY <1>2, Normals, CoveredOrder
<1>4. ASSUME NEW before, Fine(before) PROVE Fine(RoundOn(before))
  <2>1. DOMAIN RoundOn(before) = Returns /\ \A q \in Returns : RoundOn(before)[q] = Meaning(q, before)
    BY DEF RoundOn
  <2>2. \A q \in Returns : IsNormal(Meaning(q, before))
    BY Normals, KindsDiffer DEF Meaning
  <2>3. ASSUME NEW q \in DOMAIN memo \cap Returns
        PROVE  Covered(Meaning(q, before), memo[q])
    <3>1. Open(q, memo) = {} /\ Covered(Meaning(q, memo), memo[q])
      BY CoverFromMemo DEF Sound, Plain
    <3>2. q \notin Bodies /\ \A r \in Delegate(q) : IsWritten(r) /\ IsReal(r)
      BY KindsDiffer, DelegateIsWritten DEF Standing, Plain
    <3>3. \A r \in Delegate(q) : r \in Bodies => IsPlainBody(r)
      BY <3>2, WrittenIsPlain DEF Plain
    <3>4. \A r \in Delegate(q) :
             (IF r \in Bodies THEN AsksNext(r, before) ELSE {r} \ DOMAIN before) = {}
      <4> TAKE r \in Delegate(q)
      <4>1. CASE r \in Bodies
        <5>1. AsksNext(r, before) = {}
          BY <1>4, <3>3, <4>1, TotalAsksNothing DEF IsPlainBody
        <5> QED
          BY <4>1, <5>1
      <4>2. CASE r \notin Bodies
        <5>1. r \in DOMAIN before
          BY <1>4, <3>2, <4>2 DEF IsReal
        <5> QED
          BY <4>2, <5>1
      <4> QED
        BY <4>1, <4>2
    <3>5. Open(q, before) = {}
      BY <3>2, <3>4 DEF Open
    <3>6. \A p \in DOMAIN before \cap DOMAIN memo : Covered(before[p], memo[p])
      BY <1>4
    <3>7. Covered(Meaning(q, before), Meaning(q, memo))
      BY <3>1, <3>3, <3>5, <3>6, MeaningCovers
    <3> QED
      BY <3>1, <3>7, CoveredOrder
  <2> QED
    BY <2>1, <2>2, <2>3
<1> HIDE DEF Fine, n
<1> DEFINE Bad == {i \in 0..n : ~Fine(rounds[i])}
<1>5. ASSUME Bad # {} PROVE FALSE
  <2>1. PICK m \in Bad : \A j \in Bad : m <= j
    <3>1. Bad \subseteq Nat
      OBVIOUS
    <3> HIDE DEF Bad
    <3> QED
      BY <1>5, <3>1, LeastNumber
  <2>2. m \in 0..n /\ ~Fine(rounds[m])
    OBVIOUS
  <2>3. m \in 1..n
    BY <1>2, <1>3, <2>2
  <2>4. m - 1 \in 0..n /\ m - 1 \notin Bad
    BY <1>2, <2>1, <2>3
  <2>5. Fine(rounds[m - 1])
    BY <2>4
  <2>6. rounds[m] = RoundOn(rounds[m - 1])
    BY <1>2, <2>3
  <2> QED
    BY <1>4, <2>2, <2>5, <2>6
<1>6. \A i \in 0..n : Fine(rounds[i])
  BY <1>5
<1> QED
  BY <1>1, <1>6 DEF Fine, n

\* The round that another one leaves as it is solves the program, and what is
\* answered is what it says.
LEMMA AnswersAreItsMeaning ==
    ASSUME Standing, Sound, Ceiling, Plain, Settles
    PROVE  \A q \in DOMAIN memo : memo[q] = Meaning(q, Least)
<1> DEFINE n == Cardinality(Returns)
<1>1. PICK rounds : rounds = Approximations
  OBVIOUS
<1>2. IsFiniteSet(Returns) /\ \E i \in 0..(n - 1) : rounds[i] = rounds[i + 1]
  BY <1>1 DEF Settles
<1>3. /\ n \in Nat /\ \A i \in 1..n : rounds[i] = RoundOn(rounds[i - 1])
  BY <1>1, <1>2, RoundsOfReturns
<1>4. PICK i : i = CHOOSE j \in 0..(n - 1) : rounds[j] = rounds[j + 1]
  OBVIOUS
<1>5. i \in 0..(n - 1) /\ rounds[i] = rounds[i + 1]
  BY <1>2, <1>4
<1>6. PICK least : least = Least /\ least = rounds[i]
  BY <1>1, <1>4 DEF Least
<1>7. i \in 0..n /\ i + 1 \in 1..n /\ (i + 1) - 1 = i
  BY <1>3, <1>5
<1>8. least = RoundOn(least)
  <2>1. rounds[i + 1] = RoundOn(rounds[(i + 1) - 1])
    BY <1>3, <1>7
  <2> QED
    BY <1>5, <1>6, <1>7, <2>1
<1>9. /\ DOMAIN least = Returns /\ \A q \in Returns : IsNormal(least[q])
      /\ \A q \in DOMAIN memo \cap Returns : Covered(least[q], memo[q])
  BY <1>1, <1>2, <1>6, <1>7, RoundsStayBelow
<1>10. \A q \in Returns : least[q] = Meaning(q, least)
  BY <1>8 DEF RoundOn
<1>11. Solves(least)
  BY <1>9, <1>10, CoveredOrder DEF Solves
<1>12. /\ \A q \in DOMAIN memo : Covered(memo[q], At(q, least)) /\ IsNormal(memo[q])
       /\ \A q \in DOMAIN memo : IsWritten(q)
  BY <1>11 DEF Ceiling, Below, AnsweredNormally, AllWritten
<1>13. ASSUME NEW q \in DOMAIN memo, q \in Returns
       PROVE  memo[q] = Meaning(q, least)
  <2>1. At(q, least) = least[q]
    BY <1>13, KindsDiffer DEF At
  <2>2. memo[q] = least[q]
    BY <1>9, <1>12, <1>13, <2>1, CoveredOrder
  <2> QED
    BY <1>10, <1>13, <2>2
<1>14. ASSUME NEW q \in DOMAIN memo, q \in Bodies
       PROVE  memo[q] = Meaning(q, least)
  <2>1. Meaning(q, least) = BodyType(q, least) /\ At(q, least) = BodyType(q, least)
    BY <1>14 DEF Meaning, At
  <2>2. AsksNext(q, memo) = {} /\ BodyType(q, memo) = memo[q]
    BY <1>14, BodiesAreWalked DEF Sound
  <2>3. IsPlainBody(q)
    BY <1>12, <1>14, WrittenIsPlain DEF Plain
  <2>4. AsksNext(q, least) = {}
    BY <1>9, <2>3, TotalAsksNothing DEF IsPlainBody
  <2>5. \A p \in DOMAIN least \cap DOMAIN memo : Covered(least[p], memo[p])
    BY <1>9
  <2>6. Covered(BodyType(q, least), memo[q])
    BY <2>2, <2>3, <2>4, <2>5, PlainBodyCovers
  <2>7. IsNormal(BodyType(q, least))
    BY Normals DEF BodyType, ReturnedBy
  <2>8. Covered(memo[q], BodyType(q, least)) /\ IsNormal(memo[q])
    BY <1>12, <2>1
  <2>9. memo[q] = BodyType(q, least)
    BY <2>6, <2>7, <2>8, CoveredOrder
  <2> QED
    BY <2>1, <2>9
<1>15. \A q \in DOMAIN memo : q \in Returns \/ q \in Bodies
  BY <1>12 DEF IsWritten
<1> QED
  BY <1>6, <1>13, <1>14, <1>15

(***************************************************************************)
(* The least solution, where the rounds of `Least` come to an end: that is *)
(* what every query of a run is answered, from whichever body it starts,   *)
(* and whatever was served from the signatures of the run before.          *)
(***************************************************************************)
THEOREM AnswersSettleAtLeast ==
    Spec /\ []WithinBudget => [](Vouched /\ Settles => AnswersAreLeast)
<1> DEFINE Inv == Standing /\ DepthOneInvariant /\ Sound /\ Ceiling
<1>1. Init => Inv
  BY SoundAtFirst, CeilingAtFirst
<1>2. Inv /\ WithinBudget /\ [Next]_vars => Inv'
  BY StandingKeeps, SoundKeeps, CeilingKeeps
<1>3. Inv => (Vouched /\ Settles => AnswersAreLeast)
  BY AnswersAreItsMeaning DEF AllAnswered, Plain, Vouched, AnswersAreLeast
<1> QED
  BY <1>1, <1>2, <1>3, PTL DEF Spec

(***************************************************************************)
(* Where nobody edits the project, it takes no assumption on what was      *)
(* stored: the first run and every rerun answer the least solution.        *)
(***************************************************************************)
THEOREM UneditedAnswersAreLeast ==
    Spec /\ []WithinBudget => [](~edited /\ Settles => AnswersAreLeast)
<1>1. RunInvariant => (~edited => Vouched)
  BY StoredIsKept DEF Vouched, Doubted
<1> QED
  BY <1>1, AnswersSettleAtLeast, RunsAtFirst, RunsKeep, PTL DEF Spec


----------------------------------------------------------------------------
(* A project that is edited between two runs                                *)

\* Where a record is found to hold, it says what a body that somebody wrote makes
\* of its edges; as the program is now, once its tables are made.
Spoken(q, record) ==
    Final!RecordHolds(record, Final!DefiningFile(q)) =>
        \E b \in DeclaredBodies : Owner(b) = q /\ Final!Walked(b, record.returns, record.edges)

Validated == \A q \in DOMAIN records : Spoken(q, records[q])

LEMMA SpokenStands ==
    ASSUME UNCHANGED program
    PROVE  \A q, record : Spoken(q, record) => Spoken(q, record)'
<1>1. FinalTables' = FinalTables
  BY WalksStand
<1>2. \A b, type, answers : Final!Walked(b, type, answers)' <=> Final!Walked(b, type, answers)
  BY <1>1, Final!WalkedStands, FinalHierarchy, FinalInference
<1>3. /\ \A q : Final!DefiningFile(q)' = Final!DefiningFile(q)
      /\ \A record, file : Final!RecordHolds(record, file)' = Final!RecordHolds(record, file)
  BY <1>1, Final!HoldsStands, FinalHierarchy, FinalInference
<1>4. DeclaredBodies' = DeclaredBodies
  BY DEF DeclaredBodies, IsFunction, ClassKeys, IsClass, Declared
<1>5. \A b : Owner(b)' = Owner(b)
  BY DEF Owner
<1> QED
  BY <1>2, <1>3, <1>4, <1>5 DEF Spoken

\* A body is still written where the text of its file is what it was.
LEMMA DeclaredStays ==
    ASSUME NEW b \in DeclaredBodies, program'[b.key] = program[b.key]
    PROVE  b \in DeclaredBodies' /\ Final!CodeOf(b)' = Final!CodeOf(b)
<1>1. PICK k : k = b.key
  OBVIOUS
<1>2. /\ IsFunction(k)' <=> IsFunction(k)
      /\ IsClass(k)' <=> IsClass(k)
      /\ Declared(k)' = Declared(k)
  BY <1>1 DEF IsFunction, IsClass, Declared
<1>3. Final!CodeOf(b)' = Final!CodeOf(b)
  BY DEF Final!CodeOf, Final!Declared
<1>4. CASE \E f \in Keys : IsFunction(f) /\ b = Body(f, NoKey, NoKey)
  <2>1. k \in Keys /\ IsFunction(k) /\ b = Body(k, NoKey, NoKey)
    BY <1>1, <1>4 DEF Body
  <2>2. b \in {Body(f, NoKey, NoKey) : f \in {g \in Keys : IsFunction(g)}}'
    BY <1>2, <2>1 DEF Body
  <2> QED
    BY <1>3, <2>2 DEF DeclaredBodies
<1>5. CASE \E c \in ClassKeys : \E i \in DOMAIN Declared(c).own : b = Body(c, Declared(c).own[i], NoKey)
  <2>1. k \in ClassKeys /\ \E i \in DOMAIN Declared(k).own : b = Body(k, Declared(k).own[i], NoKey)
    BY <1>1, <1>5 DEF Body
  <2>2. PICK own : own = Declared(k).own
    OBVIOUS
  <2>3. PICK i \in DOMAIN own : b = Body(k, own[i], NoKey)
    BY <2>1, <2>2
  <2>4. k \in ClassKeys' /\ Declared(k).own' = own
    BY <1>2, <2>1, <2>2 DEF ClassKeys
  <2>5. b \in {Body(k, Declared(k).own[j], NoKey) : j \in DOMAIN Declared(k).own}'
    BY <2>3, <2>4 DEF Body
  <2> QED
    BY <1>3, <2>4, <2>5 DEF DeclaredBodies
<1> QED
  BY <1>4, <1>5 DEF DeclaredBodies

\* What is collected of a run says, after any edit that moves nothing unseen, what
\* the body it is of then means, if it is then found to hold.
LEMMA CollectedMoves ==
    ASSUME Standing, Sound, AllAnswered, tables = FinalTables, Final!NothingUnseen,
           NEW q \in DOMAIN Collected, NEW record, record = Collected[q]
    PROVE  Spoken(q, record)'
<1> SUFFICES ASSUME Final!RecordHolds(record, Final!DefiningFile(q))'
             PROVE  \E b \in DeclaredBodies' : Owner(b) = q /\ Final!Walked(b, record.returns, record.edges)'
  BY DEF Spoken, Owner, FunctionReturn, MethodReturn
<1>1. PICK b \in Recorded : Owner(b) = q /\ IsRecordOf(b, record)
  BY CollectedFrom
<1>2. PICK answers, returns, types : /\ answers = record.edges /\ returns = record.returns
                                     /\ types = CallTypes(b, answers)
  OBVIOUS
<1>3. record = RecordOf(b, types) /\ Walked(b, returns, answers) /\ b \in DeclaredBodies
  BY <1>1, <1>2 DEF IsRecordOf, Recorded
<1>4. /\ AreCalls(CallsOf(b)) /\ HasCode(b) /\ AsksNext(b, answers) = {}
      /\ returns = BodyType(b, answers)
  BY <1>3, CodeOfReal DEF Walked
<1>5. PICK calls : calls = CallsOf(b)
  OBVIOUS
<1>6. Final!CallsOf(b) = calls /\ Final!HasCode(b) /\ AreCalls(calls)
  BY <1>4, <1>5, CodeIsFinal DEF Final!HasCode, HasCode, Final!IsList, IsList
<1>7. /\ Final!CallTypes(b, answers) = types /\ Final!AsksNext(b, answers) = {}
      /\ Final!BodyType(b, answers) = returns
  BY <1>2, <1>4, BodyIsFinal
<1>8. PICK file : file = Final!DefiningFile(q)'
  OBVIOUS
<1>9. /\ <<file, program'[file]>> = record.content
      /\ \A k \in DOMAIN record.classes : record.classes[k] = Final!ClassDigest(k)'
      /\ \A k \in DOMAIN record.functions : record.functions[k] = Final!FunctionDigest(k)'
  BY <1>8 DEF Final!RecordHolds, Final!Content
<1>10. file = b.key /\ program'[b.key] = program[b.key]
  <2>1. record.content = <<b.key, program[b.key]>>
    BY <1>3 DEF RecordOf, Content
  <2> QED
    BY <1>9, <2>1
<1>11. b \in DeclaredBodies' /\ Final!CodeOf(b)' = Final!CodeOf(b)
  BY <1>3, <1>10, DeclaredStays
<1>12. /\ \A k \in ConsultedClasses(b, types) : Final!ClassDigest(k)' = Final!ClassDigest(k)
       /\ \A k \in ConsultedFunctions(b) : Final!FunctionDigest(k)' = Final!FunctionDigest(k)
  <2>1. /\ DOMAIN record.classes = ConsultedClasses(b, types)
        /\ \A k \in ConsultedClasses(b, types) : record.classes[k] = ClassDigest(k)
        /\ DOMAIN record.functions = ConsultedFunctions(b)
        /\ \A k \in ConsultedFunctions(b) : record.functions[k] = FunctionDigest(k)
    BY <1>3 DEF RecordOf
  <2> QED
    BY <1>9, <2>1, HoldsAreFinal
<1>13. \A i \in DOMAIN calls : Final!Shown(calls[i], b, types[i - 1])
  <2> SUFFICES ASSUME NEW i \in DOMAIN calls PROVE Final!Shown(calls[i], b, types[i - 1])
    OBVIOUS
  <2>1. PICK call, before : call = calls[i] /\ before = types[i - 1]
    OBVIOUS
  <2>2. CASE call.on = "function"
    <3>1. IsList(call.candidates) /\ Final!IsList(call.candidates)
      BY <1>6, <2>1, <2>2 DEF AreCalls, Final!IsList, IsList
    <3>2. \A j \in DOMAIN call.candidates : call.candidates[j] \in Final!Tried(b)
      BY <1>6, <2>1, <2>2 DEF Final!Tried
    <3>3. b \in Final!Recorded
      BY <1>3, CodeIsFinal DEF Final!Recorded, Recorded, Final!DeclaredBodies, DeclaredBodies,
         Final!ClassKeys, ClassKeys, Final!Body, Body
    <3>4. \A j \in DOMAIN call.candidates :
             Final!IsFunction(call.candidates[j])' => Final!IsFunction(call.candidates[j])
      <4> TAKE j \in DOMAIN call.candidates
      <4>1. PICK k : k = call.candidates[j]
        OBVIOUS
      <4>2. k \in Final!Tried(b)
        BY <3>2, <4>1
      <4>3. Final!IsFunction(k)' => Final!IsFunction(k)
        BY <3>3, <4>2 DEF Final!NothingUnseen
      <4> QED
        BY <4>1, <4>3
    <3>5. ASSUME NEW k \in Keys \cup DOMAIN StubFunctions,
                 k = Final!ResolvedFunction(call.candidates)
          PROVE  Final!FunctionDigest(k)' = Final!FunctionDigest(k)
      <4>1. CASE IsFunction(k) \/ DeclaredFunction(k) # Undeclared
        <5>1. k \in ConsultedFunctions(b)
          BY <1>5, <2>1, <2>2, <3>5, <4>1, CodeIsFinal DEF ConsultedFunctions
        <5> QED
          BY <1>12, <5>1
      <4>2. CASE ~(IsFunction(k) \/ DeclaredFunction(k) # Undeclared)
        <5>1. ~Final!IsFunction(k)
          BY <4>2, CodeIsFinal
        <5>2. k = NoKey \/ \E j \in DOMAIN call.candidates : k = call.candidates[j]
          BY <3>1, <3>5, Final!ResolvedIsTried, FinalHierarchy, FinalInference
        <5>3. ~Final!IsFunction(k)'
          BY <3>4, <5>1, <5>2, HierarchyAssumption DEF Final!IsFunction
        <5> QED
          BY <5>1, <5>3 DEF Final!FunctionDigest, Final!DeclaredFunction
      <4> QED
        BY <4>1, <4>2
    <3>6. Final!Shown(call, b, before)
      BY <2>2, <3>1, <3>4, <3>5 DEF Final!Shown
    <3> QED
      BY <2>1, <3>6
  <2>3. CASE call.on # "function"
    <3>1. call.name \in Names
      BY <1>6, <2>1, <2>3 DEF AreCalls
    <3>2. \A k \in Receivers(call, b, before) : k \in ConsultedClasses(b, types)
      BY <1>5, <2>1, <2>3 DEF ConsultedClasses
    <3>3. Final!Receivers(call, b, before) = Receivers(call, b, before)
      BY CodeIsFinal
    <3>4. Final!Shown(call, b, before)
      BY <1>12, <2>3, <3>1, <3>2, <3>3 DEF Final!Shown
    <3> QED
      BY <2>1, <3>4
  <2> QED
    BY <2>2, <2>3
<1>14. /\ Final!CallsOf(b)' = calls /\ Final!AsksNext(b, answers)' = {}
       /\ Final!BodyType(b, answers)' = returns
  BY <1>6, <1>7, <1>11, <1>13, Final!BodyMoves, FinalHierarchy, FinalInference
<1>15. Final!Walked(b, returns, answers)'
  <2>1. Final!AreCalls(calls)
    <3>1. \A s : IsList(s) <=> Final!IsList(s)
      BY DEF Final!IsList, IsList
    <3>2. Final!IsList(calls)
      BY <1>6, <3>1 DEF AreCalls
    <3>3. ASSUME NEW i \in DOMAIN calls
          PROVE  IF calls[i].on = "function" THEN Final!IsList(calls[i].candidates) ELSE calls[i].name \in Names
      <4>1. CASE calls[i].on = "function"
        <5>1. IsList(calls[i].candidates)
          BY <1>6, <3>3, <4>1 DEF AreCalls
        <5> QED
          BY <3>1, <4>1, <5>1
      <4>2. CASE calls[i].on # "function"
        BY <1>6, <3>3, <4>2 DEF AreCalls
      <4> QED
        BY <4>1, <4>2
    <3> QED
      BY <3>2, <3>3 DEF Final!AreCalls
  <2>2. Final!AreCalls(Final!CallsOf(b))'
    BY <1>14, <2>1 DEF Final!AreCalls
  <2> QED
    BY <1>14, <2>2 DEF Final!Walked
<1> QED
  BY <1>1, <1>2, <1>11, <1>15

LEMMA ValidatedKeeps ==
    ASSUME Standing, Sound, Determined, Validated, [Next]_vars, [NextRun => Final!NothingUnseen]_vars
    PROVE  Validated'
<1>1. CASE NextRun /\ Final!NothingUnseen
  <2>1. records' = Collected /\ AllAnswered
    BY <1>1 DEF NextRun
  <2>2. tables = FinalTables
    BY <2>1, AllTables DEF AllAnswered, Linearizing
  <2> SUFFICES ASSUME NEW q \in DOMAIN records' PROVE Spoken(q, records[q])'
    BY DEF Validated
  <2>3. PICK record : record = records'[q]
    OBVIOUS
  <2>4. q \in DOMAIN Collected /\ record = Collected[q]
    BY <2>1, <2>3
  <2>5. Spoken(q, record)'
    BY <1>1, <2>1, <2>2, <2>4, CollectedMoves
  <2> QED
    BY <2>3, <2>5
<1>2. CASE UNCHANGED <<program, records>>
  <2> SUFFICES ASSUME NEW q \in DOMAIN records' PROVE Spoken(q, records[q])'
    BY DEF Validated
  <2>1. PICK record : record = records'[q]
    OBVIOUS
  <2>2. Spoken(q, record)
    BY <1>2, <2>1 DEF Validated
  <2>3. Spoken(q, record)'
    BY <1>2, <2>2, SpokenStands
  <2> QED
    BY <2>1, <2>3
<1>3. Linearize => UNCHANGED <<program, records>>
  BY DEF Linearize, Walk, BeginWalk, Revisit, Visit, FollowEdge, FinishWalk
<1>4. (\E b \in DeclaredBodies : Demand(b)) \/ Query \/ UNCHANGED vars => UNCHANGED <<program, records>>
  BY DEF Demand, Query, Consult, Enter, GiveUp, Finish, Participate, AscendInside,
         Converge, Iterate, vars, saved
<1> QED
  BY <1>1, <1>2, <1>3, <1>4 DEF Next

\* With the tables made, a record that holds speaks of the body of its return.
LEMMA ValidatedSpeaks ==
    ASSUME RunInvariant, Validated
    PROVE  Vouched
<1> SUFFICES ASSUME ~Linearizing, NEW q \in DOMAIN records \cap Returns, StoredHolds(q)
             PROVE  Speaks(q)
  BY DEF Vouched, Doubted
<1>1. tables = FinalTables
  BY AllTables DEF RunInvariant, Linearizing
<1>2. PICK record : record = records[q]
  OBVIOUS
<1>3. Final!RecordHolds(record, Final!DefiningFile(q))
  BY <1>1, <1>2, HoldsAreFinal DEF StoredHolds
<1>4. PICK b \in DeclaredBodies : Owner(b) = q /\ Final!Walked(b, record.returns, record.edges)
  BY <1>2, <1>3 DEF Validated, Spoken
<1>5. Walked(b, record.returns, record.edges)
  BY <1>1, <1>4, WalkedIsFinal
<1>6. Delegate(q) = {b} /\ b \in Bodies
  BY <1>4, DeclaredIsDefined DEF RunInvariant, Standing
<1> QED
  BY <1>2, <1>5, <1>6 DEF Speaks

(***************************************************************************)
(* `validated_stored_return`, whatever is edited between two runs: content *)
(* and surfaces are all it takes, but for what no record holds.  As long   *)
(* as no edit moves anything of that kind (NothingUnseen: a function that  *)
(* comes under a name a recorded call tried before, or that goes and       *)
(* leaves a stub of its name; a member where there was none; the class a   *)
(* member's placeholders mean, under an unmoved surface), a signature that *)
(* is found to hold says what its body, as it is now, makes of its edges.  *)
(***************************************************************************)
THEOREM ValidationIsSound ==
    Spec /\ [][NextRun => Final!NothingUnseen]_vars => []Vouched
<1> DEFINE Inv == RunInvariant /\ Validated
<1>1. Init => Inv
  BY RunsAtFirst DEF Init, Validated
<1>2. Inv /\ [Next]_vars /\ [NextRun => Final!NothingUnseen]_vars => Inv'
  BY RunsKeep, ValidatedKeeps DEF RunInvariant
<1>3. Inv => Vouched
  BY ValidatedSpeaks
<1> QED
  BY <1>1, <1>2, <1>3, PTL DEF Spec

(***************************************************************************)
(* The doc of cache_equivalence.rs: what a warm run serves is what a full  *)
(* recomputation produces.  Over any runs and any edits that move nothing  *)
(* unseen, the answers of a program whose walks only join are the least    *)
(* solution of the program as it is now.                                   *)
(***************************************************************************)
THEOREM EditedAnswersAreLeast ==
    Spec /\ []WithinBudget /\ [][NextRun => Final!NothingUnseen]_vars => [](Settles => AnswersAreLeast)
BY ValidationIsSound, AnswersSettleAtLeast, PTL

(***************************************************************************)
(* And the answers of any program cover what their code makes of each      *)
(* other, over the same edits.                                             *)
(***************************************************************************)
THEOREM EditedAnswersCover ==
    Spec /\ [][NextRun => Final!NothingUnseen]_vars => []AnswersCover
BY ValidationIsSound, VouchedAnswersCover, PTL

----------------------------------------------------------------------------
(* What a signature is validated by                                         *)

\* A query that is validated asks for the edges of its signature, and no more.
AsksItsEdges(frame) ==
    frame.mode = "validating" =>
        DOMAIN frame.answers \cup frame.awaits \subseteq DOMAIN records[frame.query].edges

Questions == \A i \in DOMAIN stack : AsksItsEdges(stack[i])

LEMMA FirstQuestions == \A q : AsksItsEdges(Frame(q)) /\ Frame(q).query = q
BY EmptyStack DEF AsksItsEdges, Frame

LEMMA QueryKeepsQuestions ==
    ASSUME Standing, Questions, Query
    PROVE  Questions'
<1>1. /\ stack # << >> /\ EngineInvariant /\ records' = records
  BY QueriesOnly DEF Standing
<1>2. /\ Top = stack[1] /\ IsFrame(stack[1]) /\ 1 \in DOMAIN stack
      /\ DOMAIN stack = 1..Len(stack) /\ Len(stack) \in Nat \ {0} /\ IsList(stack)
  BY <1>1, StackTop DEF EngineInvariant, Shape, Top
<1>3. \A i \in DOMAIN stack : AsksItsEdges(stack[i])
  BY DEF Questions
<1>4. SUFFICES \A i \in DOMAIN stack' : AsksItsEdges(stack'[i])
  <2>1. \A f : AsksItsEdges(f)' <=> AsksItsEdges(f)
    BY <1>1 DEF AsksItsEdges
  <2>2. ASSUME NEW i \in DOMAIN stack' PROVE AsksItsEdges(stack[i])'
    <3>1. PICK f : f = stack'[i]
      OBVIOUS
    <3>2. AsksItsEdges(f)'
      BY <1>4, <2>1, <2>2, <3>1
    <3> QED
      BY <3>1, <3>2 DEF AsksItsEdges
  <2> QED
    BY <2>2 DEF Questions
<1>5. ASSUME NEW x, AsksItsEdges(x), stack' = <<x>> \o Tail(stack)
      PROVE  \A i \in DOMAIN stack' : AsksItsEdges(stack'[i])
  <2>1. /\ DOMAIN stack' = DOMAIN stack /\ stack'[1] = x
        /\ \A i \in DOMAIN stack : i # 1 => stack'[i] = stack[i]
    BY <1>1, <1>2, <1>5, StackReplace
  <2> QED
    BY <1>3, <1>5, <2>1
<1>6. CASE Consult
  <2>1. PICK q, answer, heads : q \in Asks(Top) /\ Answered(q, answer, heads)
    BY <1>6 DEF Consult
  <2>2. PICK x : x = [Top EXCEPT !.answers = With(@, q, answer), !.heads = @ \cup heads,
                                 !.awaits = {}]
    OBVIOUS
  <2>3. /\ stack' = <<x>> \o Tail(stack) /\ x.query = Top.query /\ x.mode = Top.mode
        /\ x.answers = With(Top.answers, q, answer) /\ x.awaits = {}
    BY <1>2, <2>1, <2>2 DEF Answered, IsFrame
  <2>4. DOMAIN x.answers = DOMAIN Top.answers \cup {q}
    BY <2>3 DEF With
  <2>5. Top.mode = "validating" => q \in DOMAIN records[Top.query].edges
    BY <1>2, <1>3, <2>1 DEF Asks, AsksItsEdges
  <2>6. AsksItsEdges(x)
    BY <1>2, <1>3, <2>3, <2>4, <2>5 DEF AsksItsEdges
  <2> QED
    BY <1>5, <2>3, <2>6
<1>7. CASE GiveUp
  <2>1. PICK x : x = [Top EXCEPT !.mode = "computing", !.answers = << >>]
    OBVIOUS
  <2>2. stack' = <<x>> \o Tail(stack) /\ x.mode = "computing"
    BY <1>2, <1>7, <2>1 DEF GiveUp, IsFrame
  <2> QED
    BY <1>5, <2>2 DEF AsksItsEdges
<1>8. CASE Iterate
  <2>1. PICK x : x = Frame(Top.query)
    OBVIOUS
  <2>2. stack' = <<x>> \o Tail(stack)
    BY <1>8, <2>1 DEF Iterate
  <2> QED
    BY <1>5, <2>1, <2>2, FirstQuestions
<1>9. CASE Finish \/ Participate \/ AscendInside \/ Converge
  <2>1. stack' = Tail(stack)
    BY <1>9 DEF Finish, Participate, AscendInside, Converge
  <2>2. \A i \in DOMAIN stack' : i + 1 \in DOMAIN stack /\ stack'[i] = stack[i + 1]
    BY <1>1, <1>2, <2>1, StackPop
  <2> QED
    BY <1>3, <2>2
<1>10. CASE Enter
  <2>1. PICK q \in Asks(Top) :
          /\ q \notin DOMAIN memo \cup DOMAIN scratch \cup (Active \cap Returns)
          /\ stack' = IF q \in Active THEN stack
                      ELSE <<Frame(q), [Top EXCEPT !.awaits = {q}]>> \o Tail(stack)
    BY <1>10 DEF Enter
  <2>2. CASE q \in Active
    BY <1>3, <2>1, <2>2
  <2>3. CASE q \notin Active
    <3>1. PICK x, y : x = Frame(q) /\ y = [Top EXCEPT !.awaits = {q}]
      OBVIOUS
    <3>2. /\ y.query = Top.query /\ y.mode = Top.mode
          /\ y.answers = Top.answers /\ y.awaits = {q}
      BY <1>2, <3>1 DEF IsFrame
    <3>3. stack' = <<x, y>> \o Tail(stack)
      BY <2>1, <2>3, <3>1
    <3>4. /\ DOMAIN stack' = 1..(Len(stack) + 1) /\ stack'[1] = x /\ stack'[2] = y
          /\ \A i \in DOMAIN stack : i # 1 => stack'[i + 1] = stack[i]
      BY <1>1, <1>2, <3>3, StackPush
    <3>5. \A i \in DOMAIN stack' : i = 1 \/ i = 2 \/ (i - 1 \in DOMAIN stack /\ i - 1 # 1 /\ (i - 1) + 1 = i)
      BY <1>2, <3>4
    <3>6. AsksItsEdges(x)
      BY <3>1, FirstQuestions
    <3>7. Top.mode = "validating" => q \in DOMAIN records[Top.query].edges
      BY <1>2, <1>3, <2>1 DEF Asks, AsksItsEdges
    <3>8. AsksItsEdges(y)
      BY <1>2, <1>3, <3>2, <3>7 DEF AsksItsEdges
    <3> QED
      BY <1>3, <3>4, <3>5, <3>6, <3>8
  <2> QED
    BY <2>2, <2>3
<1> QED
  BY <1>6, <1>7, <1>8, <1>9, <1>10 DEF Query

LEMMA QuestionsKeep ==
    ASSUME Standing, Questions, [Next]_vars
    PROVE  Questions'
<1>1. CASE Linearize
  <2>1. DOMAIN stack' = {}
    BY <1>1, NothingYet DEF Linearize, engine
  <2> QED
    BY <2>1 DEF Questions
<1>2. CASE NextRun
  <2>1. DOMAIN stack' = {}
    BY <1>2, EmptyStack DEF NextRun, AllAnswered
  <2> QED
    BY <2>1 DEF Questions
<1>3. CASE \E b \in DeclaredBodies : Demand(b)
  <2>1. PICK b \in DeclaredBodies : Demand(b)
    BY <1>3
  <2>2. stack' = <<Frame(Warmed(b))>> /\ records' = records
    BY <2>1 DEF Demand, saved
  <2>3. PICK x : x = Frame(Warmed(b))
    OBVIOUS
  <2>4. DOMAIN stack' = {1} /\ stack'[1] = x
    BY <2>2, <2>3, OneFrame
  <2>5. AsksItsEdges(x)
    BY <2>3, FirstQuestions
  <2> QED
    BY <2>2, <2>4, <2>5 DEF Questions, AsksItsEdges
<1>4. CASE UNCHANGED vars
  BY <1>4 DEF Questions, AsksItsEdges, vars, saved, engine
<1> QED
  BY <1>1, <1>2, <1>3, <1>4, QueryKeepsQuestions DEF Next


----------------------------------------------------------------------------
(* Why a signature is given up                                              *)

LEMMA SolvesIsFinal ==
    ASSUME tables = FinalTables, DelegatesHaveCode
    PROVE  /\ Final!DelegatesHaveCode
           /\ \A returns : Final!Solves(returns) <=> Solves(returns)
<1>1. Final!Returns = Returns /\ Final!Bodies = Bodies
  BY DEF Final!Returns, Returns, Final!FunctionReturn, FunctionReturn, Final!MethodReturn, MethodReturn,
         Final!Bodies, Bodies, Final!Body, Body
<1>2. \A q : Final!Delegate(q) = Delegate(q)
  BY CodeIsFinal
<1>3. \A b : Final!HasCode(b) <=> HasCode(b)
  BY CodeIsFinal DEF Final!HasCode, HasCode, Final!IsList, IsList
<1>4. Final!DelegatesHaveCode
  BY <1>1, <1>2, <1>3 DEF DelegatesHaveCode, Final!DelegatesHaveCode
<1>5. ASSUME NEW q \in Returns, NEW returns
      PROVE  Final!Meaning(q, returns) = Meaning(q, returns)
  <2> DEFINE Of(r) == IF r \in Bodies THEN BodyType(r, returns) ELSE returns[r]
             FinalOf(r) == IF r \in Bodies THEN Final!BodyType(r, returns) ELSE returns[r]
  <2>1. \A r \in Delegate(q) : FinalOf(r) = Of(r)
    <3> TAKE r \in Delegate(q)
    <3>1. r \in Bodies => Final!BodyType(r, returns) = BodyType(r, returns)
      BY BodyIsFinal DEF DelegatesHaveCode
    <3> QED
      BY <3>1
  <2>2. q \notin Bodies
    BY KindsDiffer
  <2>3. \A types : Final!UnionOf(types) = UnionOf(types)
    BY DEF Final!UnionOf, UnionOf
  <2>4. Meaning(q, returns) = IF Delegate(q) = {} THEN {Mixed} ELSE UnionOf({Of(r) : r \in Delegate(q)})
    BY <2>2 DEF Meaning
  <2>5. Final!Meaning(q, returns)
        = IF Delegate(q) = {} THEN {Mixed} ELSE UnionOf({FinalOf(r) : r \in Delegate(q)})
    BY <1>1, <1>2, <2>2, <2>3 DEF Final!Meaning
  <2> HIDE DEF Of, FinalOf
  <2>6. {FinalOf(r) : r \in Delegate(q)} = {Of(r) : r \in Delegate(q)}
    BY <2>1
  <2> QED
    BY <2>4, <2>5, <2>6
<1>6. \A s, t : Final!Covered(s, t) <=> Covered(s, t)
  BY DEF Final!Covered, Covered
<1>7. \A returns : Final!Solves(returns) <=> Solves(returns)
  BY <1>1, <1>5, <1>6 DEF Final!Solves, Solves
<1> QED
  BY <1>4, <1>7

\* What a solution says, and no solution less.
Lowest(q, value, returns) ==
    /\ IsNormal(value) /\ value = returns[q]
    /\ \A others : Final!Solves(others) => Covered(value, others[q])

\* The edges stored of a program that nobody edited since are what its returns
\* at least are.
EdgesAreLowest ==
    run > 1 /\ ~edited /\ Monotone =>
        /\ Final!DelegatesHaveCode
        /\ \E returns :
              /\ Final!Solves(returns)
              /\ \A q \in DOMAIN records : \A p \in DOMAIN records[q].edges :
                    Lowest(p, records[q].edges[p], returns)

LEMMA FinalSolvesStands ==
    ASSUME UNCHANGED program, Final!DelegatesHaveCode
    PROVE  /\ Final!DelegatesHaveCode'
           /\ \A returns : Final!Solves(returns)' <=> Final!Solves(returns)
           /\ \A q, value, returns : Lowest(q, value, returns)' <=> Lowest(q, value, returns)
<1>1. FinalTables' = FinalTables
  BY WalksStand
<1>2. Final!DelegatesHaveCode'
  BY <1>1, Final!CodeIsThere, FinalHierarchy, FinalInference
<1>3. \A returns : Final!Solves(returns)' <=> Final!Solves(returns)
  BY <1>1, Final!SolvesStands, FinalHierarchy, FinalInference
<1> QED
  BY <1>2, <1>3 DEF Lowest, IsNormal, Covered

\* What is stored of a run is what it answered, and that goes beyond no solution.
LEMMA CollectedIsLowest ==
    ASSUME Standing, Sound, Determined, Ceiling, Plain, AllAnswered
    PROVE  /\ Final!DelegatesHaveCode
           /\ \E returns :
                 /\ Final!Solves(returns)
                 /\ \A q \in DOMAIN Collected : \A p \in DOMAIN Collected[q].edges :
                       p \in Returns => Lowest(p, Collected[q].edges[p], returns)
<1>1. tables = FinalTables /\ DelegatesHaveCode
  BY AllTables, DelegatesAreCoded DEF Plain, Linearizing, Standing
<1>2. Final!DelegatesHaveCode /\ \A returns : Final!Solves(returns) <=> Solves(returns)
  BY <1>1, SolvesIsFinal
<1>3. PICK returns : Solves(returns) /\ \A q \in DOMAIN memo \cap Returns : returns[q] = memo[q]
  BY AnswersSolve
<1>4. ASSUME NEW q \in DOMAIN Collected, NEW p \in DOMAIN Collected[q].edges, p \in Returns
      PROVE  Lowest(p, Collected[q].edges[p], returns)
  <2>1. PICK value : value = Collected[q].edges[p]
    OBVIOUS
  <2>2. Extends(Collected[q].edges, memo)
    BY CollectedIsKept
  <2>3. p \in DOMAIN memo /\ memo[p] = value
    BY <2>1, <2>2 DEF Extends
  <2>4. IsNormal(value) /\ value = returns[p]
    BY <1>3, <1>4, <2>3 DEF Ceiling, AnsweredNormally
  <2>5. \A others : Solves(others) => Covered(value, others[p])
    BY <1>4, <2>3, KindsDiffer DEF Ceiling, Below, At
  <2> QED
    BY <1>2, <2>1, <2>4, <2>5 DEF Lowest
<1> QED
  BY <1>2, <1>3, <1>4

LEMMA LowestKeeps ==
    ASSUME Standing, Sound, Determined, Ceiling, Vouched, EdgesAreLowest, [Next]_vars
    PROVE  EdgesAreLowest'
<1>1. CASE NextRun
  <2> SUFFICES ASSUME ~edited', Monotone'
               PROVE  (/\ Final!DelegatesHaveCode
                       /\ \E returns :
                             /\ Final!Solves(returns)
                             /\ \A q \in DOMAIN records : \A p \in DOMAIN records[q].edges :
                                   Lowest(p, records[q].edges[p], returns))'
    BY DEF EdgesAreLowest
  <2>1. program' = program /\ records' = Collected /\ AllAnswered
    BY <1>1 DEF NextRun
  <2>2. Plain
    BY <2>1, WrittenStands DEF Plain, AllAnswered, Vouched
  <2>3. PICK stored : stored = Collected
    OBVIOUS
  <2>4. /\ Final!DelegatesHaveCode
        /\ \E returns :
              /\ Final!Solves(returns)
              /\ \A q \in DOMAIN stored : \A p \in DOMAIN stored[q].edges :
                    p \in Returns => Lowest(p, stored[q].edges[p], returns)
    BY <2>1, <2>2, <2>3, CollectedIsLowest
  <2>5. PICK returns :
              /\ Final!Solves(returns)
              /\ \A q \in DOMAIN stored : \A p \in DOMAIN stored[q].edges :
                    p \in Returns => Lowest(p, stored[q].edges[p], returns)
    BY <2>4
  <2>6. \A q \in DOMAIN stored : DOMAIN stored[q].edges \subseteq Returns
    <3>1. EdgesAreReturns' /\ Returns' = Returns /\ records' = stored
      BY <1>1, <2>1, <2>3, CollectedEdges DEF Returns
    <3> QED
      BY <3>1 DEF EdgesAreReturns
  <2>7. /\ Final!DelegatesHaveCode' /\ Final!Solves(returns)'
        /\ \A q \in DOMAIN stored : \A p \in DOMAIN stored[q].edges :
              Lowest(p, stored[q].edges[p], returns)'
    BY <2>1, <2>4, <2>5, <2>6, FinalSolvesStands
  <2>8. \A q \in DOMAIN records' : \A p \in DOMAIN records'[q].edges :
              Lowest(p, records[q].edges[p], returns)'
    <3> TAKE q \in DOMAIN records'
    <3> TAKE p \in DOMAIN records'[q].edges
    <3>1. PICK value : value = stored[q].edges[p]
      OBVIOUS
    <3>2. Lowest(p, value, returns)' /\ value = records'[q].edges[p]
      BY <2>1, <2>3, <2>7, <3>1
    <3> QED
      BY <3>2
  <2> QED
    BY <2>7, <2>8
<1>2. CASE UNCHANGED <<program, run, records, edited>>
  <2> SUFFICES ASSUME run' > 1, ~edited', Monotone'
               PROVE  (/\ Final!DelegatesHaveCode
                       /\ \E returns :
                             /\ Final!Solves(returns)
                             /\ \A q \in DOMAIN records : \A p \in DOMAIN records[q].edges :
                                   Lowest(p, records[q].edges[p], returns))'
    BY DEF EdgesAreLowest
  <2>1. Monotone
    BY <1>2, WrittenStands
  <2>2. /\ Final!DelegatesHaveCode
        /\ \E returns :
              /\ Final!Solves(returns)
              /\ \A q \in DOMAIN records : \A p \in DOMAIN records[q].edges :
                    Lowest(p, records[q].edges[p], returns)
    BY <1>2, <2>1 DEF EdgesAreLowest
  <2>3. PICK returns :
              /\ Final!Solves(returns)
              /\ \A q \in DOMAIN records : \A p \in DOMAIN records[q].edges :
                    Lowest(p, records[q].edges[p], returns)
    BY <2>2
  <2>4. Final!DelegatesHaveCode' /\ Final!Solves(returns)'
    BY <1>2, <2>2, <2>3, FinalSolvesStands
  <2>5. \A q \in DOMAIN records' : \A p \in DOMAIN records'[q].edges :
              Lowest(p, records[q].edges[p], returns)'
    <3> TAKE q \in DOMAIN records'
    <3> TAKE p \in DOMAIN records'[q].edges
    <3>1. PICK value : value = records[q].edges[p]
      OBVIOUS
    <3>2. Lowest(p, value, returns) /\ value = records'[q].edges[p]
      BY <1>2, <2>3, <3>1
    <3>3. Lowest(p, value, returns)'
      BY <1>2, <2>2, <3>2, FinalSolvesStands
    <3> QED
      BY <3>2, <3>3
  <2> QED
    BY <2>4, <2>5
<1>3. [Next]_vars => NextRun \/ UNCHANGED <<program, run, records, edited>>
  <2>1. Linearize => UNCHANGED <<program, run, records, edited>>
    BY DEF Linearize, Walk, BeginWalk, Revisit, Visit, FollowEdge, FinishWalk
  <2>2. (\E b \in DeclaredBodies : Demand(b)) \/ Query \/ UNCHANGED vars
        => UNCHANGED <<program, run, records, edited>>
    BY DEF Demand, Query, Consult, Enter, GiveUp, Finish, Participate, AscendInside,
           Converge, Iterate, vars, saved
  <2> QED
    BY <2>1, <2>2 DEF Next
<1> QED
  BY <1>1, <1>2, <1>3


\* What an edge has come to now, it came to then.
LEMMA EdgesStand ==
    ASSUME RunInvariant, Ceiling, EdgesAreLowest, Questions, run > 1, ~edited, Monotone,
           stack # << >>, Mismatch(Top), Top.heads = {}
    PROVE  \E q \in DOMAIN Top.answers : Top.answers[q] = Never
<1>1. /\ Standing /\ Sound /\ Determined /\ EngineInvariant /\ ~Linearizing
  BY DEF RunInvariant, Standing, Ready
<1>2. Top = stack[1] /\ 1 \in DOMAIN stack
  BY <1>1, StackTop DEF EngineInvariant, Shape, Top
<1>3. Plain /\ tables = FinalTables /\ DelegatesHaveCode
  <2>1. Doubted = {}
    BY <1>1, StoredIsKept DEF Doubted
  <2>2. tables = FinalTables
    BY <1>1, AllTables DEF Linearizing
  <2> QED
    BY <1>1, <2>1, <2>2, DelegatesAreCoded DEF Plain, Standing
<1>4. \A returns : Final!Solves(returns) <=> Solves(returns)
  BY <1>3, SolvesIsFinal
<1>5. PICK stored : stored = records[Top.query].edges
  OBVIOUS
<1>6. /\ Top.mode = "validating" /\ Top.query \in DOMAIN records
      /\ DOMAIN Top.answers \subseteq DOMAIN stored /\ DOMAIN stored \subseteq Returns
  <2>1. Top.mode = "validating"
    BY DEF Mismatch
  <2>2. Top.query \in DOMAIN records
    BY <1>1, <1>2, <2>1 DEF Sound, Proceeds
  <2> QED
    BY <1>1, <1>2, <1>5, <2>1, <2>2 DEF Questions, AsksItsEdges, Sound, EdgesAreReturns
<1>7. ASSUME NEW q \in DOMAIN Top.answers, Top.answers[q] # stored[q]
      PROVE  FALSE
  <2>1. Fits(q, Top.answers[q], {})
    BY <1>1, <1>2, FrameBacks
  <2>2. \A p \in DOMAIN scratch : scratch[p].heads # {}
    BY <1>1 DEF EngineInvariant, ScratchCarried
  <2>3. q \in DOMAIN memo /\ Top.answers[q] = memo[q] /\ q \in Returns
    BY <1>6, <2>1, <2>2 DEF Fits
  <2>4. PICK value : value = stored[q]
    OBVIOUS
  <2>5. PICK returns : /\ Final!Solves(returns)
                       /\ \A r \in DOMAIN records : \A p \in DOMAIN records[r].edges :
                             Lowest(p, records[r].edges[p], returns)
    BY DEF EdgesAreLowest
  <2>6. Lowest(q, value, returns)
    BY <1>5, <1>6, <2>4, <2>5
  <2>7. Covered(memo[q], value)
    <3>1. Covered(memo[q], At(q, returns))
      BY <1>3, <1>4, <2>3, <2>5 DEF Ceiling, Below
    <3> QED
      BY <2>3, <2>6, <3>1, KindsDiffer DEF Lowest, At
  <2>8. Covered(value, memo[q])
    <3>1. PICK others : Solves(others) /\ \A p \in DOMAIN memo \cap Returns : others[p] = memo[p]
      BY <1>1, <1>3, AnswersSolve
    <3>2. Covered(value, others[q])
      BY <1>4, <2>6, <3>1 DEF Lowest
    <3> QED
      BY <2>3, <3>1, <3>2
  <2>9. IsNormal(memo[q]) /\ IsNormal(value)
    BY <1>3, <2>3, <2>6 DEF Ceiling, AnsweredNormally, Lowest
  <2>10. memo[q] = value
    BY <2>7, <2>8, <2>9, CoveredOrder
  <2> QED
    BY <1>7, <2>3, <2>4, <2>10
<1> QED
  BY <1>5, <1>7 DEF Mismatch

(***************************************************************************)
(* `validated_stored_return`, when nobody edited the project between two   *)
(* runs: every stored signature holds, and one is computed again only for  *)
(* an edge that is `never` or rests on a cycle that has not settled.  For  *)
(* programs whose walks only join, as long as no iteration runs out of its *)
(* budget and no signature is served in doubt: an edge then is the least   *)
(* the program allows, in whatever order both runs asked.                  *)
(***************************************************************************)
THEOREM UneditedEdgesHold ==
    Spec /\ []WithinBudget /\ []Vouched => [](Monotone => UneditedSignaturesHold)
<1> DEFINE Inv == RunInvariant /\ Ceiling /\ EdgesAreLowest /\ Questions
<1>1. Init => Inv
  <2> SUFFICES ASSUME Init PROVE Inv
    OBVIOUS
  <2>1. EdgesAreLowest /\ Questions
    BY EmptyStack DEF Init, EdgesAreLowest, Questions
  <2> QED
    BY <2>1, RunsAtFirst, CeilingAtFirst
<1>2. Inv /\ WithinBudget /\ Vouched /\ [Next]_vars => Inv'
  BY RunsKeep, CeilingKeeps, LowestKeeps, QuestionsKeep DEF RunInvariant
<1>3. Inv => (Monotone => UneditedSignaturesHold)
  BY EdgesStand, StoredIsKept DEF UneditedSignaturesHold
<1> QED
  BY <1>1, <1>2, <1>3, PTL DEF Spec

(***************************************************************************)
(* And with nothing assumed of what is stored, over edits that move        *)
(* nothing unseen: whatever was edited earlier, the rerun of such a        *)
(* project serves what the run before it persisted.                        *)
(***************************************************************************)
THEOREM EditedEdgesHold ==
    Spec /\ []WithinBudget /\ [][NextRun => Final!NothingUnseen]_vars => [](Monotone => UneditedSignaturesHold)
BY ValidationIsSound, UneditedEdgesHold, PTL

=============================================================================
