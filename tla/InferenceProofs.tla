-------------------------- MODULE InferenceProofs --------------------------
(***************************************************************************)
(* What the proof system checks of the fixpoint of Inference, for any      *)
(* program, any edits and any budget: the queries that are active, and the *)
(* answers of an iteration that rest on them.                              *)
(***************************************************************************)
EXTENDS Inference, HierarchyProofs, SequenceTheorems, TLAPS

IsFrame(f) == {"query", "mode", "answers", "heads", "awaits"} \subseteq DOMAIN f

IsAnswer(a) == {"answer", "heads"} \subseteq DOMAIN a

Shape ==
    /\ IsList(stack) /\ \A i \in DOMAIN stack : IsFrame(stack[i])
    /\ \A q \in DOMAIN scratch : IsAnswer(scratch[q])

\* A query is in one place only.
OnePlace ==
    /\ \A i, j \in DOMAIN stack : stack[i].query = stack[j].query => i = j
    /\ \A i \in DOMAIN stack : stack[i].query \notin DOMAIN memo \cup DOMAIN scratch
    /\ DOMAIN memo \cap DOMAIN scratch = {}

\* A query awaits the one it entered, which it takes before anything else.
Awaiting ==
    \A i \in DOMAIN stack :
        IF i = 1 THEN stack[1].awaits = {}
                      \/ \E q \in DOMAIN memo \cup DOMAIN scratch : stack[1].awaits = {q}
        ELSE stack[i].awaits = {stack[i - 1].query}

\* A query rests on itself or on queries that wait for it.
HeadsBelow ==
    \A i \in DOMAIN stack : \A h \in stack[i].heads :
        h \in Returns /\ \E j \in DOMAIN stack : i <= j /\ stack[j].query = h

\* The i-th active query rests on h, or is about to take an answer that does.
Carries(i, h) ==
    \/ h \in stack[i].heads
    \/ i = 1 /\ \E p \in DOMAIN scratch : stack[1].awaits = {p} /\ h \in scratch[p].heads

\* What an answer of this iteration rests on is active, and a query from it
\* upwards knows that it will rest on it too.
ScratchCarried ==
    \A q \in DOMAIN scratch :
        /\ scratch[q].heads # {}
        /\ \A h \in scratch[q].heads :
              /\ h \in Returns
              /\ \E i, j \in DOMAIN stack : i <= j /\ stack[j].query = h /\ Carries(i, h)

EngineInvariant == Shape /\ OnePlace /\ Awaiting /\ HeadsBelow /\ ScratchCarried

----------------------------------------------------------------------------
(* Stacks                                                                   *)

LEMMA OwnStack ==
    ASSUME NEW S, NEW t \in Seq(S)
    PROVE  IsList(t)
<1> DEFINE n == Len(t)
           R == {t[i] : i \in DOMAIN t}
<1>1. n \in Nat /\ t \in [1..n -> S] /\ DOMAIN t = 1..n
  BY LenProperties
<1>2. t \in [1..n -> R]
  BY <1>1
<1> HIDE DEF n, R
<1>3. t \in Seq(R)
  BY <1>1, <1>2, SeqDef
<1> QED
  BY <1>3 DEF IsList, R

LEMMA StackTop ==
    ASSUME NEW s, IsList(s), s # << >>
    PROVE  /\ Len(s) \in Nat \ {0} /\ DOMAIN s = 1..Len(s) /\ Head(s) = s[1]
           /\ 1 \in DOMAIN s
BY LenProperties, HeadTailProperties DEF IsList

LEMMA StackPop ==
    ASSUME NEW s, IsList(s), s # << >>
    PROVE  /\ IsList(Tail(s))
           /\ DOMAIN Tail(s) = 1..(Len(s) - 1)
           /\ \A i \in 1..(Len(s) - 1) : Tail(s)[i] = s[i + 1]
<1> DEFINE S == {s[i] : i \in DOMAIN s}
           t == Tail(s)
<1>1. /\ t \in Seq(S) /\ Len(t) = Len(s) - 1 /\ DOMAIN t = 1..Len(t)
      /\ \A i \in 1..Len(t) : t[i] = s[i + 1]
  BY LenProperties, HeadTailProperties DEF IsList
<1> QED
  BY <1>1, OwnStack

LEMMA StackReplace ==
    ASSUME NEW s, IsList(s), s # << >>, NEW x
    PROVE  /\ IsList(<<x>> \o Tail(s))
           /\ DOMAIN (<<x>> \o Tail(s)) = DOMAIN s
           /\ (<<x>> \o Tail(s))[1] = x
           /\ \A i \in DOMAIN s : i # 1 => (<<x>> \o Tail(s))[i] = s[i]
           /\ <<x>> \o Tail(s) # << >>
<1> DEFINE S == {s[i] : i \in DOMAIN s} \cup {x}
           r == <<x>> \o Tail(s)
<1>1. s \in Seq(S) /\ <<x>> \in Seq(S) /\ Len(<<x>>) = 1 /\ <<x>>[1] = x
  BY SeqDef DEF IsList
<1>2. /\ Tail(s) \in Seq(S) /\ Len(Tail(s)) = Len(s) - 1 /\ Len(s) \in Nat \ {0}
      /\ \A i \in 1..(Len(s) - 1) : Tail(s)[i] = s[i + 1]
      /\ DOMAIN s = 1..Len(s)
  BY <1>1, LenProperties, HeadTailProperties
<1>3. /\ r \in Seq(S) /\ Len(r) = Len(s)
      /\ \A i \in 1..Len(r) : r[i] = IF i <= 1 THEN <<x>>[i] ELSE Tail(s)[i - 1]
  BY <1>1, <1>2, ConcatProperties
<1>4. DOMAIN r = 1..Len(s) /\ r[1] = x /\ \A i \in 2..Len(s) : r[i] = s[i]
  BY <1>1, <1>2, <1>3, LenProperties
<1>5. IsList(r)
  BY <1>3, OwnStack
<1>6. r # << >>
  <2> HIDE DEF r
  <2> QED
    BY <1>2, <1>3, EmptySeq
<1> QED
  BY <1>2, <1>4, <1>5, <1>6

LEMMA StackPush ==
    ASSUME NEW s, IsList(s), s # << >>, NEW x, NEW y
    PROVE  /\ IsList(<<x, y>> \o Tail(s))
           /\ DOMAIN (<<x, y>> \o Tail(s)) = 1..(Len(s) + 1)
           /\ (<<x, y>> \o Tail(s))[1] = x
           /\ (<<x, y>> \o Tail(s))[2] = y
           /\ \A i \in DOMAIN s : i # 1 => (<<x, y>> \o Tail(s))[i + 1] = s[i]
<1> DEFINE S == {s[i] : i \in DOMAIN s} \cup {x, y}
           two == <<x, y>>
           r == two \o Tail(s)
<1>1. s \in Seq(S) /\ two \in Seq(S) /\ Len(two) = 2 /\ two[1] = x /\ two[2] = y
  BY SeqDef DEF IsList
<1>2. /\ Tail(s) \in Seq(S) /\ Len(Tail(s)) = Len(s) - 1 /\ Len(s) \in Nat \ {0}
      /\ \A i \in 1..(Len(s) - 1) : Tail(s)[i] = s[i + 1]
      /\ DOMAIN s = 1..Len(s)
  BY <1>1, LenProperties, HeadTailProperties
<1> HIDE DEF two
<1>3. /\ r \in Seq(S) /\ Len(r) = Len(s) + 1
      /\ \A i \in 1..Len(r) : r[i] = IF i <= 2 THEN two[i] ELSE Tail(s)[i - 2]
  <2> DEFINE rest == Tail(s)
  <2>1. rest \in Seq(S) /\ Len(rest) = Len(s) - 1 /\ Len(s) \in Nat
    BY <1>2
  <2> HIDE DEF rest, S
  <2>2. /\ two \o rest \in Seq(S) /\ Len(two \o rest) = Len(two) + Len(rest)
        /\ \A i \in 1..(Len(two) + Len(rest)) :
              (two \o rest)[i] = IF i <= Len(two) THEN two[i] ELSE rest[i - Len(two)]
    BY <1>1, <2>1, ConcatProperties
  <2> QED
    BY <1>1, <2>1, <2>2 DEF rest
<1>4. /\ DOMAIN r = 1..(Len(s) + 1) /\ r[1] = x /\ r[2] = y
      /\ \A i \in 2..Len(s) : r[i + 1] = s[i]
  BY <1>1, <1>2, <1>3, LenProperties
<1>5. IsList(r)
  BY <1>3, OwnStack
<1> QED
  BY <1>2, <1>4, <1>5 DEF two

LEMMA EmptyStack == IsList(<< >>) /\ DOMAIN << >> = {}
<1>1. << >> \in Seq({}) /\ Len(<< >>) = 0
  BY EmptySeq
<1>2. DOMAIN << >> = 1..0
  BY <1>1, LenProperties
<1>3. IsList(<< >>)
  BY <1>1, OwnStack
<1> QED
  BY <1>2, <1>3

LEMMA OneFrame ==
    ASSUME NEW x
    PROVE  IsList(<<x>>) /\ DOMAIN <<x>> = {1} /\ <<x>>[1] = x
<1>1. <<x>> \in Seq({x}) /\ Len(<<x>>) = 1 /\ <<x>>[1] = x
  BY SeqDef
<1>2. DOMAIN <<x>> = 1..1
  BY <1>1, LenProperties
<1>3. IsList(<<x>>)
  BY <1>1, OwnStack
<1> QED
  BY <1>1, <1>2, <1>3

LEMMA Recomputing ==
    ASSUME NEW f, IsFrame(f)
    PROVE  LET x == [f EXCEPT !.mode = "computing", !.answers = << >>]
           IN  /\ IsFrame(x) /\ x.query = f.query /\ x.heads = f.heads
               /\ x.awaits = f.awaits
BY DEF IsFrame

----------------------------------------------------------------------------
(* What the actions do to the stack                                         *)

\* A query that asks for nothing awaits nothing.
LEMMA FinishedAwaitsNothing ==
    ASSUME EngineInvariant, stack # << >>, Asks(Top) = {}
    PROVE  stack[1].awaits = {} /\ Top = stack[1]
BY StackTop DEF EngineInvariant, Shape, Asks, Top

\* The query on top leaves: what waited for it is next, and takes its answer.
LEMMA Leaves ==
    ASSUME EngineInvariant, stack # << >>, stack' = Tail(stack),
           stack[1].query \in DOMAIN memo' \cup DOMAIN scratch',
           \A i \in DOMAIN stack : i # 1 =>
               stack[i].query \notin DOMAIN memo' \cup DOMAIN scratch',
           DOMAIN memo' \cap DOMAIN scratch' = {},
           \A q \in DOMAIN scratch' : IsAnswer(scratch'[q])
    PROVE  Shape' /\ OnePlace' /\ Awaiting' /\ HeadsBelow'
<1>1. /\ IsList(stack') /\ DOMAIN stack' = 1..(Len(stack) - 1) /\ Len(stack) \in Nat \ {0}
      /\ \A i \in 1..(Len(stack) - 1) : stack'[i] = stack[i + 1]
      /\ DOMAIN stack = 1..Len(stack)
  BY StackPop, StackTop DEF EngineInvariant, Shape
<1>2. Shape'
  BY <1>1 DEF EngineInvariant, Shape
<1>3. OnePlace'
  BY <1>1 DEF EngineInvariant, OnePlace
<1>4. Awaiting'
  <2> SUFFICES ASSUME NEW i \in DOMAIN stack'
               PROVE  IF i = 1 THEN stack'[1].awaits = {}
                      \/ \E q \in DOMAIN memo' \cup DOMAIN scratch' : stack'[1].awaits = {q}
                      ELSE stack'[i].awaits = {stack'[i - 1].query}
    BY DEF Awaiting
  <2>1. i + 1 \in DOMAIN stack /\ i + 1 # 1 /\ stack'[i] = stack[i + 1]
        /\ stack[i + 1].awaits = {stack[i].query}
    BY <1>1 DEF EngineInvariant, Awaiting
  <2> QED
    BY <1>1, <2>1
<1>5. HeadsBelow'
  <2> SUFFICES ASSUME NEW i \in DOMAIN stack', NEW h \in stack'[i].heads
               PROVE  h \in Returns /\ \E j \in DOMAIN stack' : i <= j /\ stack'[j].query = h
    BY DEF HeadsBelow
  <2>1. i + 1 \in DOMAIN stack /\ h \in stack[i + 1].heads
    BY <1>1
  <2>2. PICK j \in DOMAIN stack : i + 1 <= j /\ stack[j].query = h /\ h \in Returns
    BY <2>1 DEF EngineInvariant, HeadsBelow
  <2>3. j - 1 \in DOMAIN stack' /\ i <= j - 1 /\ stack'[j - 1] = stack[j]
    BY <1>1, <2>2
  <2> QED
    BY <2>2, <2>3
<1> QED
  BY <1>2, <1>3, <1>4, <1>5

\* What was carried below the top is so still.
LEMMA CarriedBelow ==
    ASSUME EngineInvariant, stack # << >>, stack' = Tail(stack),
           NEW i \in DOMAIN stack, NEW j \in DOMAIN stack, i <= j, i # 1,
           NEW h, Carries(i, h), stack[j].query = h
    PROVE  \E k, l \in DOMAIN stack' : k <= l /\ stack'[l].query = h /\ Carries(k, h)'
<1>1. /\ DOMAIN stack' = 1..(Len(stack) - 1) /\ Len(stack) \in Nat \ {0}
      /\ \A k \in 1..(Len(stack) - 1) : stack'[k] = stack[k + 1]
      /\ DOMAIN stack = 1..Len(stack)
  BY StackPop, StackTop DEF EngineInvariant, Shape
<1>2. /\ i - 1 \in DOMAIN stack' /\ stack'[i - 1] = stack[i]
      /\ j - 1 \in DOMAIN stack' /\ stack'[j - 1] = stack[j] /\ i - 1 <= j - 1
  BY <1>1
<1> QED
  BY <1>2 DEF Carries

\* What the query that leaves rests on is carried by its answer.
LEMMA CarriedUp ==
    ASSUME EngineInvariant, stack # << >>, stack' = Tail(stack),
           stack[1].query \in DOMAIN scratch',
           NEW h \in scratch'[stack[1].query].heads,
           NEW j \in DOMAIN stack, stack[j].query = h, h # stack[1].query
    PROVE  \E k, l \in DOMAIN stack' : k <= l /\ stack'[l].query = h /\ Carries(k, h)'
<1>1. /\ DOMAIN stack' = 1..(Len(stack) - 1) /\ Len(stack) \in Nat \ {0}
      /\ \A k \in 1..(Len(stack) - 1) : stack'[k] = stack[k + 1]
      /\ DOMAIN stack = 1..Len(stack)
  BY StackPop, StackTop DEF EngineInvariant, Shape
<1>2. /\ j - 1 \in DOMAIN stack' /\ stack'[j - 1] = stack[j] /\ 1 <= j - 1
      /\ 1 \in DOMAIN stack' /\ stack'[1] = stack[2] /\ 2 \in DOMAIN stack
  BY <1>1
<1>3. stack'[1].awaits = {stack[1].query}
  BY <1>1, <1>2 DEF EngineInvariant, Awaiting
<1> QED
  BY <1>2, <1>3 DEF Carries

----------------------------------------------------------------------------
(* Steps                                                                    *)

LEMMA FinishKeeps ==
    ASSUME EngineInvariant, Finish
    PROVE  EngineInvariant'
<1>1. /\ stack # << >> /\ Asks(Top) = {} /\ ~Mismatch(Top) /\ Top.heads = {} /\ stack' = Tail(stack)
      /\ scratch' = scratch /\ memo' = With(memo, Top.query, Result(Top))
  BY DEF Finish, Finished, Working
<1>2. stack[1].awaits = {} /\ Top = stack[1] /\ 1 \in DOMAIN stack
  BY <1>1, FinishedAwaitsNothing, StackTop DEF EngineInvariant, Shape
<1>3. DOMAIN memo' = DOMAIN memo \cup {stack[1].query}
  BY <1>1, <1>2 DEF With
<1>4. Shape' /\ OnePlace' /\ Awaiting' /\ HeadsBelow'
  <2>1. \A i \in DOMAIN stack : i # 1 =>
            stack[i].query \notin DOMAIN memo' \cup DOMAIN scratch'
    BY <1>1, <1>2, <1>3 DEF EngineInvariant, OnePlace
  <2>2. DOMAIN memo' \cap DOMAIN scratch' = {}
    BY <1>1, <1>2, <1>3 DEF EngineInvariant, OnePlace
  <2> QED
    BY <1>1, <1>3, <2>1, <2>2, Leaves DEF EngineInvariant, Shape
<1>5. ScratchCarried'
  <2> SUFFICES ASSUME NEW q \in DOMAIN scratch, NEW h \in scratch[q].heads
               PROVE  /\ h \in Returns
                      /\ \E k, l \in DOMAIN stack' :
                            k <= l /\ stack'[l].query = h /\ Carries(k, h)'
    BY <1>1 DEF EngineInvariant, ScratchCarried
  <2>1. PICK i \in DOMAIN stack, j \in DOMAIN stack :
            i <= j /\ stack[j].query = h /\ Carries(i, h) /\ h \in Returns
    BY DEF EngineInvariant, ScratchCarried
  <2>2. i # 1
    BY <1>1, <1>2, <2>1 DEF Carries
  <2> QED
    BY <1>1, <2>1, <2>2, CarriedBelow
<1> QED
  BY <1>4, <1>5 DEF EngineInvariant

LEMMA ParticipateKeeps ==
    ASSUME EngineInvariant, Participate
    PROVE  EngineInvariant'
<1>1. /\ stack # << >> /\ Asks(Top) = {} /\ ~Mismatch(Top) /\ Top.heads # {} /\ Top.query \notin Top.heads
      /\ stack' = Tail(stack) /\ memo' = memo
      /\ scratch' = With(scratch, Top.query, [answer |-> Result(Top), heads |-> Top.heads])
  BY DEF Participate, Finished, Working
<1>2. stack[1].awaits = {} /\ Top = stack[1] /\ 1 \in DOMAIN stack
  BY <1>1, FinishedAwaitsNothing, StackTop DEF EngineInvariant, Shape
<1>3. /\ DOMAIN scratch' = DOMAIN scratch \cup {stack[1].query}
      /\ scratch'[stack[1].query] = [answer |-> Result(Top), heads |-> stack[1].heads]
      /\ \A q \in DOMAIN scratch : q # stack[1].query => scratch'[q] = scratch[q]
  BY <1>1, <1>2 DEF With
<1>4. Shape' /\ OnePlace' /\ Awaiting' /\ HeadsBelow'
  <2>1. \A i \in DOMAIN stack : i # 1 =>
            stack[i].query \notin DOMAIN memo' \cup DOMAIN scratch'
    BY <1>1, <1>2, <1>3 DEF EngineInvariant, OnePlace
  <2>2. DOMAIN memo' \cap DOMAIN scratch' = {}
    BY <1>1, <1>2, <1>3 DEF EngineInvariant, OnePlace
  <2>3. \A q \in DOMAIN scratch' : IsAnswer(scratch'[q])
    BY <1>3 DEF EngineInvariant, Shape, IsAnswer
  <2> QED
    BY <1>1, <1>3, <2>1, <2>2, <2>3, Leaves
<1>5. \A h \in stack[1].heads :
        /\ h \in Returns
        /\ \E k, l \in DOMAIN stack' : k <= l /\ stack'[l].query = h /\ Carries(k, h)'
  <2> TAKE h \in stack[1].heads
  <2>1. PICK j \in DOMAIN stack : stack[j].query = h /\ h \in Returns
    BY <1>2 DEF EngineInvariant, HeadsBelow
  <2>2. h # stack[1].query /\ h \in scratch'[stack[1].query].heads
    BY <1>1, <1>2, <1>3
  <2> QED
    BY <1>1, <1>3, <2>1, <2>2, CarriedUp
<1>6. ScratchCarried'
  <2> SUFFICES ASSUME NEW q \in DOMAIN scratch'
               PROVE  /\ scratch'[q].heads # {}
                      /\ \A h \in scratch'[q].heads :
                           /\ h \in Returns
                           /\ \E k, l \in DOMAIN stack' :
                                k <= l /\ stack'[l].query = h /\ Carries(k, h)'
    BY DEF ScratchCarried
  <2>1. CASE q = stack[1].query
    BY <1>1, <1>2, <1>3, <1>5, <2>1
  <2>2. CASE q # stack[1].query
    <3>1. q \in DOMAIN scratch /\ scratch'[q] = scratch[q] /\ scratch[q].heads # {}
      BY <1>3, <2>2 DEF EngineInvariant, ScratchCarried
    <3> SUFFICES ASSUME NEW h \in scratch[q].heads
                 PROVE  /\ h \in Returns
                        /\ \E k, l \in DOMAIN stack' :
                              k <= l /\ stack'[l].query = h /\ Carries(k, h)'
      BY <3>1
    <3>2. PICK i \in DOMAIN stack, j \in DOMAIN stack :
              i <= j /\ stack[j].query = h /\ Carries(i, h) /\ h \in Returns
      BY <3>1 DEF EngineInvariant, ScratchCarried
    <3>3. CASE i = 1
      BY <1>2, <1>5, <3>2, <3>3 DEF Carries
    <3>4. CASE i # 1
      BY <1>1, <3>2, <3>4, CarriedBelow
    <3> QED
      BY <3>3, <3>4
  <2> QED
    BY <2>1, <2>2
<1> QED
  BY <1>4, <1>6 DEF EngineInvariant

LEMMA AscendInsideKeeps ==
    ASSUME EngineInvariant, AscendInside
    PROVE  EngineInvariant'
<1> DEFINE top == stack[1].query
           outer == stack[1].heads \ {stack[1].query}
           inner == [q \in DOMAIN scratch |->
                       IF top \in scratch[q].heads
                       THEN [scratch[q] EXCEPT !.heads = (@ \ {top}) \cup outer]
                       ELSE scratch[q]]
<1>1. /\ stack # << >> /\ Asks(Top) = {} /\ ~Mismatch(Top) /\ Top.query \in Top.heads /\ Outer # {}
      /\ stack' = Tail(stack) /\ memo' = memo
  BY DEF AscendInside, Finished, Working
<1>2. stack[1].awaits = {} /\ Top = stack[1] /\ 1 \in DOMAIN stack
  BY <1>1, FinishedAwaitsNothing, StackTop DEF EngineInvariant, Shape
<1>3. scratch' = With(inner, top, [answer |-> Ascended, heads |-> outer])
  BY <1>2 DEF AscendInside, Outer
<1>4. /\ DOMAIN scratch' = DOMAIN scratch \cup {top}
      /\ scratch'[top] = [answer |-> Ascended, heads |-> outer]
      /\ \A q \in DOMAIN scratch : q # top => scratch'[q] = inner[q]
  BY <1>3 DEF With
<1>5. \A q \in DOMAIN scratch : IsAnswer(scratch[q]) /\ IsAnswer(inner[q])
      /\ inner[q].heads = IF top \in scratch[q].heads
                          THEN (scratch[q].heads \ {top}) \cup outer ELSE scratch[q].heads
  BY DEF EngineInvariant, Shape, IsAnswer
<1> HIDE DEF inner
<1>6. Shape' /\ OnePlace' /\ Awaiting' /\ HeadsBelow'
  <2>1. \A i \in DOMAIN stack : i # 1 =>
            stack[i].query \notin DOMAIN memo' \cup DOMAIN scratch'
    BY <1>1, <1>2, <1>4 DEF EngineInvariant, OnePlace
  <2>2. DOMAIN memo' \cap DOMAIN scratch' = {}
    BY <1>1, <1>2, <1>4 DEF EngineInvariant, OnePlace
  <2>3. \A q \in DOMAIN scratch' : IsAnswer(scratch'[q])
    <3>1. IsAnswer(scratch'[top])
      BY <1>4 DEF IsAnswer
    <3>2. \A q \in DOMAIN scratch : q # top => IsAnswer(scratch'[q])
      BY <1>4, <1>5
    <3> QED
      BY <1>4, <3>1, <3>2
  <2> QED
    BY <1>1, <1>4, <2>1, <2>2, <2>3, Leaves
<1>7. \A h \in outer :
        /\ h \in Returns
        /\ \E k, l \in DOMAIN stack' : k <= l /\ stack'[l].query = h /\ Carries(k, h)'
  <2> TAKE h \in outer
  <2>1. PICK j \in DOMAIN stack : stack[j].query = h /\ h \in Returns
    BY <1>2 DEF EngineInvariant, HeadsBelow
  <2>2. h # stack[1].query /\ h \in scratch'[stack[1].query].heads
    BY <1>4
  <2> QED
    BY <1>1, <1>4, <2>1, <2>2, CarriedUp
<1>8. ScratchCarried'
  <2> SUFFICES ASSUME NEW q \in DOMAIN scratch'
               PROVE  /\ scratch'[q].heads # {}
                      /\ \A h \in scratch'[q].heads :
                           /\ h \in Returns
                           /\ \E k, l \in DOMAIN stack' :
                                k <= l /\ stack'[l].query = h /\ Carries(k, h)'
    BY DEF ScratchCarried
  <2>0. outer # {}
    BY <1>1, <1>2 DEF Outer
  <2>1. CASE q = top
    <3>1. scratch'[q].heads = outer
      BY <1>4, <2>1
    <3> QED
      BY <1>7, <2>0, <3>1
  <2>2. CASE q # top
    <3>1. q \in DOMAIN scratch /\ scratch[q].heads # {}
          /\ scratch'[q].heads = IF top \in scratch[q].heads
                                 THEN (scratch[q].heads \ {top}) \cup outer ELSE scratch[q].heads
      BY <1>4, <1>5, <2>2 DEF EngineInvariant, ScratchCarried
    <3>2. ASSUME NEW h \in scratch[q].heads, h # top
          PROVE  /\ h \in Returns
                 /\ \E k, l \in DOMAIN stack' :
                       k <= l /\ stack'[l].query = h /\ Carries(k, h)'
      <4>1. PICK i \in DOMAIN stack, j \in DOMAIN stack :
                i <= j /\ stack[j].query = h /\ Carries(i, h) /\ h \in Returns
        BY <3>1 DEF EngineInvariant, ScratchCarried
      <4>2. CASE i = 1
        BY <1>2, <1>7, <3>2, <4>1, <4>2 DEF Carries
      <4>3. CASE i # 1
        BY <1>1, <4>1, <4>3, CarriedBelow
      <4> QED
        BY <4>2, <4>3
    <3>3. CASE top \in scratch[q].heads
      BY <1>7, <2>0, <3>1, <3>2, <3>3
    <3>4. CASE top \notin scratch[q].heads
      BY <3>1, <3>2, <3>4
    <3> QED
      BY <3>3, <3>4
  <2> QED
    BY <2>1, <2>2
<1> QED
  BY <1>6, <1>8 DEF EngineInvariant

LEMMA ConvergeKeeps ==
    ASSUME EngineInvariant, Converge
    PROVE  EngineInvariant'
<1> DEFINE top == stack[1].query
<1>1. /\ stack # << >> /\ Asks(Top) = {} /\ ~Mismatch(Top) /\ Top.heads = {Top.query}
      /\ stack' = Tail(stack) /\ scratch' = Left
      /\ DOMAIN memo' = DOMAIN memo \cup Resting \cup {Top.query}
  BY DEF Converge, Cycle, Outermost, Finished, Working
<1>2. stack[1].awaits = {} /\ Top = stack[1] /\ 1 \in DOMAIN stack
  BY <1>1, FinishedAwaitsNothing, StackTop DEF EngineInvariant, Shape
<1>3. /\ Resting = {q \in DOMAIN scratch : top \in scratch[q].heads}
      /\ DOMAIN scratch' = DOMAIN scratch \ Resting
      /\ \A q \in DOMAIN scratch' : scratch'[q] = scratch[q]
  BY <1>1, <1>2 DEF Resting, Left
<1>4. Shape' /\ OnePlace' /\ Awaiting' /\ HeadsBelow'
  <2>1. \A i \in DOMAIN stack : i # 1 =>
            stack[i].query \notin DOMAIN memo' \cup DOMAIN scratch'
    BY <1>1, <1>2, <1>3 DEF EngineInvariant, OnePlace
  <2>2. DOMAIN memo' \cap DOMAIN scratch' = {}
    BY <1>1, <1>2, <1>3 DEF EngineInvariant, OnePlace
  <2>3. \A q \in DOMAIN scratch' : IsAnswer(scratch'[q])
    BY <1>3 DEF EngineInvariant, Shape, IsAnswer
  <2> QED
    BY <1>1, <1>2, <1>3, <2>1, <2>2, <2>3, Leaves
<1>5. ScratchCarried'
  <2> SUFFICES ASSUME NEW q \in DOMAIN scratch'
               PROVE  /\ scratch'[q].heads # {}
                      /\ \A h \in scratch'[q].heads :
                           /\ h \in Returns
                           /\ \E k, l \in DOMAIN stack' :
                                k <= l /\ stack'[l].query = h /\ Carries(k, h)'
    BY DEF ScratchCarried
  <2>1. /\ q \in DOMAIN scratch /\ scratch'[q] = scratch[q] /\ scratch[q].heads # {}
        /\ top \notin scratch[q].heads
    BY <1>3 DEF EngineInvariant, ScratchCarried
  <2> SUFFICES ASSUME NEW h \in scratch[q].heads
               PROVE  /\ h \in Returns
                      /\ \E k, l \in DOMAIN stack' :
                            k <= l /\ stack'[l].query = h /\ Carries(k, h)'
    BY <2>1
  <2>2. PICK i \in DOMAIN stack, j \in DOMAIN stack :
            i <= j /\ stack[j].query = h /\ Carries(i, h) /\ h \in Returns
    BY <2>1 DEF EngineInvariant, ScratchCarried
  <2>3. i # 1
    BY <1>1, <1>2, <2>1, <2>2 DEF Carries
  <2> QED
    BY <1>1, <2>2, <2>3, CarriedBelow
<1> QED
  BY <1>4, <1>5 DEF EngineInvariant

\* The query on top goes on: nothing below it moves.
LEMMA Stays ==
    ASSUME EngineInvariant, stack # << >>,
           NEW x, IsFrame(x), x.query = stack[1].query,
           stack' = <<x>> \o Tail(stack), memo' = memo,
           DOMAIN scratch' \subseteq DOMAIN scratch,
           \A q \in DOMAIN scratch' : scratch'[q] = scratch[q],
           x.awaits = {} \/ (x.awaits = stack[1].awaits /\ scratch' = scratch),
           \A h \in x.heads : h \in Returns /\ \E j \in DOMAIN stack : stack[j].query = h,
           \A q \in DOMAIN scratch' : \A h :
               h \in scratch'[q].heads /\ Carries(1, h) =>
                   \/ h \in x.heads
                   \/ /\ x.awaits = stack[1].awaits /\ x.heads = stack[1].heads
                      /\ scratch' = scratch
    PROVE  EngineInvariant'
<1>1. /\ IsList(stack') /\ DOMAIN stack' = DOMAIN stack
      /\ stack'[1] = x /\ \A i \in DOMAIN stack : i # 1 => stack'[i] = stack[i]
      /\ DOMAIN stack = 1..Len(stack) /\ Len(stack) \in Nat \ {0}
  BY StackReplace, StackTop DEF EngineInvariant, Shape
<1>2. \A i \in DOMAIN stack : stack'[i].query = stack[i].query
  BY <1>1
<1>3. Shape'
  BY <1>1 DEF EngineInvariant, Shape, IsAnswer
<1>4. OnePlace'
  BY <1>1, <1>2 DEF EngineInvariant, OnePlace
<1>5. Awaiting'
  <2>0. stack'[1].awaits = {}
        \/ \E q \in DOMAIN memo' \cup DOMAIN scratch' : stack'[1].awaits = {q}
    BY <1>1 DEF EngineInvariant, Awaiting
  <2> SUFFICES ASSUME NEW i \in DOMAIN stack, i # 1
               PROVE  stack'[i].awaits = {stack'[i - 1].query}
    BY <1>1, <2>0 DEF Awaiting
  <2>1. i - 1 \in DOMAIN stack /\ stack[i].awaits = {stack[i - 1].query}
    BY <1>1 DEF EngineInvariant, Awaiting
  <2> QED
    BY <1>1, <1>2, <2>1
<1>6. HeadsBelow'
  <2> SUFFICES ASSUME NEW i \in DOMAIN stack, NEW h \in stack'[i].heads
               PROVE  h \in Returns /\ \E j \in DOMAIN stack : i <= j /\ stack'[j].query = h
    BY <1>1 DEF HeadsBelow
  <2>1. CASE i = 1
    <3>1. h \in x.heads
      BY <1>1, <2>1
    <3>2. PICK j \in DOMAIN stack : stack[j].query = h /\ h \in Returns
      BY <3>1
    <3>3. i <= j /\ stack'[j].query = h
      BY <1>1, <1>2, <2>1, <3>2
    <3> QED
      BY <3>2, <3>3
  <2>2. CASE i # 1
    <3>1. h \in stack[i].heads
      BY <1>1, <2>2
    <3>2. PICK j \in DOMAIN stack : i <= j /\ stack[j].query = h /\ h \in Returns
      BY <3>1 DEF EngineInvariant, HeadsBelow
    <3>3. stack'[j].query = h
      BY <1>2, <3>2
    <3> QED
      BY <3>2, <3>3
  <2> QED
    BY <2>1, <2>2
<1>7. ScratchCarried'
  <2> SUFFICES ASSUME NEW q \in DOMAIN scratch'
               PROVE  /\ scratch'[q].heads # {}
                      /\ \A h \in scratch'[q].heads :
                           /\ h \in Returns
                           /\ \E k, l \in DOMAIN stack' :
                                k <= l /\ stack'[l].query = h /\ Carries(k, h)'
    BY DEF ScratchCarried
  <2>1. q \in DOMAIN scratch /\ scratch'[q] = scratch[q] /\ scratch[q].heads # {}
    BY DEF EngineInvariant, ScratchCarried
  <2> SUFFICES ASSUME NEW h \in scratch[q].heads
               PROVE  /\ h \in Returns
                      /\ \E k, l \in DOMAIN stack' :
                            k <= l /\ stack'[l].query = h /\ Carries(k, h)'
    BY <2>1
  <2>2. PICK i \in DOMAIN stack, j \in DOMAIN stack :
            i <= j /\ stack[j].query = h /\ Carries(i, h) /\ h \in Returns
    BY <2>1 DEF EngineInvariant, ScratchCarried
  <2>3. Carries(i, h)'
    <3>1. CASE i = 1
      <4>1. \/ h \in x.heads
            \/ /\ x.awaits = stack[1].awaits /\ x.heads = stack[1].heads
               /\ scratch' = scratch
        BY <2>1, <2>2, <3>1
      <4>2. CASE h \in x.heads
        BY <1>1, <3>1, <4>2 DEF Carries
      <4>3. CASE /\ x.awaits = stack[1].awaits /\ x.heads = stack[1].heads
                 /\ scratch' = scratch
        BY <1>1, <2>2, <3>1, <4>3 DEF Carries
      <4> QED
        BY <4>1, <4>2, <4>3
    <3>2. CASE i # 1
      <4>1. h \in stack[i].heads /\ stack'[i] = stack[i]
        BY <1>1, <2>2, <3>2 DEF Carries
      <4> QED
        BY <4>1 DEF Carries
    <3> QED
      BY <3>1, <3>2
  <2> QED
    BY <1>1, <1>2, <2>2, <2>3
<1> QED
  BY <1>3, <1>4, <1>5, <1>6, <1>7 DEF EngineInvariant

LEMMA IterateKeeps ==
    ASSUME EngineInvariant, Iterate
    PROVE  EngineInvariant'
<1>1. /\ stack # << >> /\ Asks(Top) = {} /\ ~Mismatch(Top) /\ Top.heads = {Top.query}
      /\ stack' = <<Frame(Top.query)>> \o Tail(stack) /\ scratch' = Left /\ memo' = memo
  BY DEF Iterate, Outermost, Finished, Working
<1>2. stack[1].awaits = {} /\ Top = stack[1] /\ 1 \in DOMAIN stack
  BY <1>1, FinishedAwaitsNothing, StackTop DEF EngineInvariant, Shape
<1>3. /\ DOMAIN scratch' \subseteq DOMAIN scratch
      /\ \A q \in DOMAIN scratch' : scratch'[q] = scratch[q]
                                    /\ stack[1].query \notin scratch'[q].heads
  BY <1>1, <1>2 DEF Resting, Left
<1> DEFINE x == Frame(stack[1].query)
<1>4. IsFrame(x) /\ x.query = stack[1].query /\ x.awaits = {} /\ x.heads = {}
  BY DEF Frame, IsFrame
<1>5. \A q \in DOMAIN scratch' : \A h : ~(h \in scratch'[q].heads /\ Carries(1, h))
  BY <1>1, <1>2, <1>3 DEF Carries
<1>6. stack' = <<x>> \o Tail(stack)
  BY <1>1, <1>2
<1> HIDE DEF x
<1> QED
  BY <1>1, <1>3, <1>4, <1>5, <1>6, Stays

LEMMA GiveUpKeeps ==
    ASSUME EngineInvariant, GiveUp
    PROVE  EngineInvariant'
<1>1. /\ stack # << >> /\ memo' = memo /\ scratch' = scratch
      /\ stack' = <<[Top EXCEPT !.mode = "computing", !.answers = << >>]>> \o Tail(stack)
  BY DEF GiveUp
<1>2. Top = stack[1] /\ 1 \in DOMAIN stack /\ IsFrame(stack[1])
  BY <1>1, StackTop DEF EngineInvariant, Shape, Top
<1> DEFINE x == [stack[1] EXCEPT !.mode = "computing", !.answers = << >>]
<1>3. /\ IsFrame(x) /\ x.query = stack[1].query /\ x.heads = stack[1].heads
      /\ x.awaits = stack[1].awaits
  BY <1>2, Recomputing
<1>4. stack' = <<x>> \o Tail(stack)
  BY <1>1, <1>2
<1> HIDE DEF x
<1>5. \A h \in x.heads : h \in Returns /\ \E j \in DOMAIN stack : stack[j].query = h
  BY <1>2, <1>3 DEF EngineInvariant, HeadsBelow
<1>6. \A q \in DOMAIN scratch' : \A h :
        h \in scratch'[q].heads /\ Carries(1, h) =>
            \/ h \in x.heads
            \/ /\ x.awaits = stack[1].awaits /\ x.heads = stack[1].heads
               /\ scratch' = scratch
  BY <1>1, <1>3
<1> QED
  BY <1>1, <1>3, <1>4, <1>5, <1>6, Stays

LEMMA ConsultKeeps ==
    ASSUME EngineInvariant, Consult
    PROVE  EngineInvariant'
<1>1. /\ stack # << >> /\ memo' = memo /\ scratch' = scratch
  BY DEF Consult, Working
<1>2. Top = stack[1] /\ 1 \in DOMAIN stack /\ IsFrame(stack[1])
  BY <1>1, StackTop DEF EngineInvariant, Shape, Top
<1>3. PICK q \in Asks(Top) :
        \/ q \in DOMAIN memo /\ Answered(q, memo[q], {})
        \/ q \in DOMAIN scratch /\ Answered(q, scratch[q].answer, scratch[q].heads)
        \/ /\ q \notin DOMAIN memo \cup DOMAIN scratch
           /\ q \in Active \cap Returns
           /\ Answered(q, provisional[q], {q})
  BY DEF Consult
<1>4. stack[1].awaits # {} => stack[1].awaits = {q}
  BY <1>2, <1>3 DEF EngineInvariant, Awaiting, Asks
<1>5. ASSUME NEW answer, NEW heads, Answered(q, answer, heads),
             \A h \in heads : h \in Returns /\ \E j \in DOMAIN stack : stack[j].query = h,
             q \in DOMAIN scratch => heads = scratch[q].heads
      PROVE  EngineInvariant'
  <2> DEFINE x == [stack[1] EXCEPT !.answers = With(@, q, answer), !.heads = @ \cup heads,
                                   !.awaits = {}]
  <2>1. IsFrame(x) /\ x.query = stack[1].query /\ x.awaits = {} /\ x.heads = stack[1].heads \cup heads
    <3> DEFINE given == With(stack[1].answers, q, answer)
               both == stack[1].heads \cup heads
    <3>1. x = [stack[1] EXCEPT !.answers = given, !.heads = both, !.awaits = {}]
      OBVIOUS
    <3> HIDE DEF given, both, x
    <3>2. IsFrame(x) /\ x.query = stack[1].query /\ x.heads = both /\ x.awaits = {}
      BY <1>2, <3>1 DEF IsFrame
    <3> QED
      BY <3>2 DEF both
  <2>2. stack' = <<x>> \o Tail(stack)
    BY <1>2, <1>5 DEF Answered
  <2>3. \A h \in x.heads : h \in Returns /\ \E j \in DOMAIN stack : stack[j].query = h
    BY <1>2, <1>5, <2>1 DEF EngineInvariant, HeadsBelow
  <2>4. \A p \in DOMAIN scratch' : \A h : h \in scratch'[p].heads /\ Carries(1, h) => h \in x.heads
    BY <1>4, <1>5, <2>1 DEF Carries
  <2> HIDE DEF x
  <2> QED
    BY <1>1, <2>1, <2>2, <2>3, <2>4, Stays
<1>6. CASE q \in DOMAIN memo /\ Answered(q, memo[q], {})
  <2>1. q \notin DOMAIN scratch
    BY <1>6 DEF EngineInvariant, OnePlace
  <2> QED
    BY <1>5, <1>6, <2>1
<1>7. CASE q \in DOMAIN scratch /\ Answered(q, scratch[q].answer, scratch[q].heads)
  <2>1. \A h \in scratch[q].heads : h \in Returns /\ \E j \in DOMAIN stack : stack[j].query = h
    BY <1>7 DEF EngineInvariant, ScratchCarried
  <2> QED
    BY <1>5, <1>7, <2>1
<1>8. CASE /\ q \notin DOMAIN memo \cup DOMAIN scratch
           /\ q \in Active \cap Returns
           /\ Answered(q, provisional[q], {q})
  <2>1. \A h \in {q} : h \in Returns /\ \E j \in DOMAIN stack : stack[j].query = h
    BY <1>8 DEF Active
  <2> QED
    BY <1>5, <1>8, <2>1
<1> QED
  BY <1>3, <1>6, <1>7, <1>8

LEMMA EnterKeeps ==
    ASSUME EngineInvariant, Enter
    PROVE  EngineInvariant'
<1>1. /\ stack # << >> /\ memo' = memo /\ scratch' = scratch
  BY DEF Enter, Working
<1>2. Top = stack[1] /\ 1 \in DOMAIN stack /\ IsFrame(stack[1])
  BY <1>1, StackTop DEF EngineInvariant, Shape, Top
<1>3. PICK q \in Asks(Top) :
        /\ q \notin DOMAIN memo \cup DOMAIN scratch \cup (Active \cap Returns)
        /\ stack' = IF q \in Active THEN stack
                    ELSE <<Frame(q), [Top EXCEPT !.awaits = {q}]>> \o Tail(stack)
  BY DEF Enter
<1>4. CASE q \in Active
  <2>1. stack' = stack
    BY <1>3, <1>4
  <2> QED
    BY <1>1, <2>1 DEF EngineInvariant, Shape, OnePlace, Awaiting, HeadsBelow, ScratchCarried, Carries
<1>5. CASE q \notin Active
  <2> DEFINE x == Frame(q)
             y == [stack[1] EXCEPT !.awaits = {q}]
  <2>1. stack' = <<x, y>> \o Tail(stack)
    BY <1>2, <1>3, <1>5
  <2>2. /\ IsFrame(x) /\ x.query = q /\ x.heads = {} /\ x.awaits = {}
        /\ IsFrame(y) /\ y.query = stack[1].query /\ y.heads = stack[1].heads /\ y.awaits = {q}
    BY <1>2 DEF Frame, IsFrame
  <2>3. stack[1].awaits = {}
    BY <1>2, <1>3 DEF EngineInvariant, Awaiting, Asks
  <2>4. \A i \in DOMAIN stack : stack[i].query # q
    BY <1>5 DEF Active
  <2> HIDE DEF x, y
  <2>5. /\ IsList(stack') /\ DOMAIN stack' = 1..(Len(stack) + 1)
        /\ stack'[1] = x /\ stack'[2] = y
        /\ \A i \in DOMAIN stack : i # 1 => stack'[i + 1] = stack[i]
        /\ DOMAIN stack = 1..Len(stack) /\ Len(stack) \in Nat \ {0}
    BY <1>1, <2>1, StackPush, StackTop DEF EngineInvariant, Shape
  <2>6. \A i \in DOMAIN stack : /\ i + 1 \in DOMAIN stack'
                                /\ stack'[i + 1].query = stack[i].query
                                /\ stack'[i + 1].heads = stack[i].heads
                                /\ IsFrame(stack'[i + 1])
    BY <2>2, <2>5 DEF EngineInvariant, Shape
  <2>7. \A i \in DOMAIN stack' : i # 1 => i - 1 \in DOMAIN stack /\ stack'[i] = stack'[(i - 1) + 1]
    BY <2>5
  <2>8. Shape'
    BY <1>1, <2>2, <2>5, <2>6, <2>7 DEF EngineInvariant, Shape
  <2>9. OnePlace'
    <3>1. \A i \in DOMAIN stack' : i # 1 => stack'[i].query = stack[i - 1].query
      BY <2>6, <2>7
    <3>2. \A i, j \in DOMAIN stack' : stack'[i].query = stack'[j].query => i = j
      <4> SUFFICES ASSUME NEW i \in DOMAIN stack', NEW j \in DOMAIN stack',
                          stack'[i].query = stack'[j].query
                   PROVE  i = j
        OBVIOUS
      <4>1. CASE i = 1 /\ j = 1
        BY <4>1
      <4>2. CASE i # 1 /\ j # 1
        <5>1. i - 1 = j - 1
          BY <2>7, <3>1, <4>2 DEF EngineInvariant, OnePlace
        <5> QED
          BY <2>5, <5>1
      <4>3. CASE i = 1 /\ j # 1
        BY <2>2, <2>4, <2>5, <2>7, <3>1, <4>3
      <4>4. CASE i # 1 /\ j = 1
        BY <2>2, <2>4, <2>5, <2>7, <3>1, <4>4
      <4> QED
        BY <4>1, <4>2, <4>3, <4>4
    <3>3. \A i \in DOMAIN stack' : stack'[i].query \notin DOMAIN memo \cup DOMAIN scratch
      <4> SUFFICES ASSUME NEW i \in DOMAIN stack'
                   PROVE  stack'[i].query \notin DOMAIN memo \cup DOMAIN scratch
        OBVIOUS
      <4>1. CASE i = 1
        BY <1>3, <2>2, <2>5, <4>1
      <4>2. CASE i # 1
        <5>1. i - 1 \in DOMAIN stack /\ stack'[i].query = stack[i - 1].query
          BY <2>7, <3>1, <4>2
        <5> QED
          BY <5>1 DEF EngineInvariant, OnePlace
      <4> QED
        BY <4>1, <4>2
    <3> QED
      BY <1>1, <3>2, <3>3 DEF EngineInvariant, OnePlace
  <2>10. Awaiting'
    <3> SUFFICES ASSUME NEW i \in DOMAIN stack'
                 PROVE  IF i = 1 THEN stack'[1].awaits = {}
                        ELSE stack'[i].awaits = {stack'[i - 1].query}
      BY DEF Awaiting
    <3>1. CASE i = 1
      BY <2>2, <2>5, <3>1
    <3>2. CASE i = 2
      BY <2>2, <2>5, <3>2
    <3>3. CASE i \notin {1, 2}
      <4>1. /\ i - 1 \in DOMAIN stack /\ i - 1 # 1 /\ stack'[i] = stack[i - 1]
            /\ i - 2 \in DOMAIN stack /\ (i - 2) + 1 = i - 1 /\ (i - 1) - 1 = i - 2
        BY <2>5, <3>3
      <4>2. stack[i - 1].awaits = {stack[i - 2].query}
        BY <4>1 DEF EngineInvariant, Awaiting
      <4>3. stack'[i - 1].query = stack[i - 2].query
        BY <2>6, <4>1
      <4> QED
        BY <3>3, <4>1, <4>2, <4>3
    <3> QED
      BY <3>1, <3>2, <3>3
  <2>11. HeadsBelow'
    <3> SUFFICES ASSUME NEW i \in DOMAIN stack', NEW h \in stack'[i].heads
                 PROVE  h \in Returns /\ \E j \in DOMAIN stack' : i <= j /\ stack'[j].query = h
      BY DEF HeadsBelow
    <3>1. i # 1
      BY <2>2, <2>5
    <3>2. i - 1 \in DOMAIN stack /\ h \in stack[i - 1].heads
      BY <2>6, <2>7, <3>1
    <3>3. PICK j \in DOMAIN stack : i - 1 <= j /\ stack[j].query = h /\ h \in Returns
      BY <3>2 DEF EngineInvariant, HeadsBelow
    <3>4. j + 1 \in DOMAIN stack' /\ i <= j + 1 /\ stack'[j + 1].query = h
      BY <2>5, <2>6, <3>3
    <3> QED
      BY <3>3, <3>4
  <2>12. ScratchCarried'
    <3> SUFFICES ASSUME NEW p \in DOMAIN scratch
                 PROVE  /\ scratch[p].heads # {}
                        /\ \A h \in scratch[p].heads :
                             /\ h \in Returns
                             /\ \E k, l \in DOMAIN stack' :
                                  k <= l /\ stack'[l].query = h /\ Carries(k, h)'
      BY <1>1 DEF ScratchCarried
    <3>1. scratch[p].heads # {}
      BY DEF EngineInvariant, ScratchCarried
    <3> SUFFICES ASSUME NEW h \in scratch[p].heads
                 PROVE  /\ h \in Returns
                        /\ \E k, l \in DOMAIN stack' :
                             k <= l /\ stack'[l].query = h /\ Carries(k, h)'
      BY <3>1
    <3>2. PICK i \in DOMAIN stack, j \in DOMAIN stack :
              i <= j /\ stack[j].query = h /\ Carries(i, h) /\ h \in Returns
      BY DEF EngineInvariant, ScratchCarried
    <3>3. h \in stack[i].heads
      BY <2>3, <3>2 DEF Carries
    <3>4. /\ i + 1 \in DOMAIN stack' /\ j + 1 \in DOMAIN stack' /\ i + 1 <= j + 1
          /\ stack'[j + 1].query = h /\ h \in stack'[i + 1].heads
      BY <2>5, <2>6, <3>2, <3>3
    <3>5. Carries(i + 1, h)'
      BY <3>4 DEF Carries
    <3> QED
      BY <3>2, <3>4, <3>5
  <2> QED
    BY <2>8, <2>9, <2>10, <2>11, <2>12 DEF EngineInvariant
<1> QED
  BY <1>4, <1>5

\* Between two demands nothing is left of an iteration.
LEMMA NothingActive ==
    ASSUME EngineInvariant, stack = << >>
    PROVE  DOMAIN scratch = {}
<1>1. DOMAIN stack = {}
  BY DEF Shape
<1> QED
  BY <1>1 DEF EngineInvariant, ScratchCarried

LEMMA DemandKeeps ==
    ASSUME EngineInvariant, NEW b, Demand(b)
    PROVE  EngineInvariant'
<1>1. /\ stack = << >> /\ stack' = <<Frame(Warmed(b))>> /\ memo' = memo /\ scratch' = scratch
      /\ Warmed(b) \notin DOMAIN memo
  BY DEF Demand, Warmed
<1>2. DOMAIN scratch' = {}
  BY <1>1, NothingActive
<1> DEFINE x == Frame(Warmed(b))
<1>3. IsFrame(x) /\ x.query = Warmed(b) /\ x.heads = {} /\ x.awaits = {}
  BY DEF Frame, IsFrame
<1>4. stack' = <<x>>
  BY <1>1
<1> HIDE DEF x
<1>5. IsList(stack') /\ DOMAIN stack' = {1} /\ stack'[1] = x
  BY <1>4, OneFrame
<1>6. Shape'
  BY <1>2, <1>3, <1>5 DEF Shape
<1>7. OnePlace'
  BY <1>1, <1>2, <1>3, <1>5 DEF OnePlace
<1>8. Awaiting' /\ HeadsBelow' /\ ScratchCarried'
  BY <1>2, <1>3, <1>5 DEF Awaiting, HeadsBelow, ScratchCarried
<1> QED
  BY <1>6, <1>7, <1>8 DEF EngineInvariant

\* With nothing active and no answer of an iteration, there is nothing to say.
LEMMA Idle ==
    ASSUME stack = << >>, DOMAIN scratch = {}
    PROVE  EngineInvariant
<1>1. DOMAIN stack = {} /\ IsList(stack)
  BY EmptyStack
<1> QED
  BY <1>1 DEF EngineInvariant, Shape, OnePlace, Awaiting, HeadsBelow, ScratchCarried

LEMMA NextRunKeeps ==
    ASSUME EngineInvariant, NextRun
    PROVE  EngineInvariant'
<1>1. stack = << >> /\ stack' = stack /\ scratch' = scratch
  BY DEF NextRun, AllAnswered
<1>2. DOMAIN scratch = {}
  BY <1>1, NothingActive
<1>3. DOMAIN stack' = {} /\ IsList(stack')
  BY <1>1, EmptyStack
<1> QED
  BY <1>1, <1>2, <1>3
  DEF EngineInvariant, Shape, OnePlace, Awaiting, HeadsBelow, ScratchCarried

LEMMA EngineStands ==
    ASSUME EngineInvariant, UNCHANGED engine
    PROVE  EngineInvariant'
BY DEF engine, EngineInvariant, Shape, OnePlace, Awaiting, HeadsBelow, ScratchCarried, Carries

LEMMA EngineKeeps ==
    ASSUME EngineInvariant, [Next]_vars
    PROVE  EngineInvariant'
<1>1. CASE Linearize
  BY <1>1, EngineStands DEF Linearize
<1>2. CASE \E b \in DeclaredBodies : Demand(b)
  BY <1>2, DemandKeeps
<1>3. CASE NextRun
  BY <1>3, NextRunKeeps
<1>4. CASE Query
  BY <1>4, ConsultKeeps, EnterKeeps, GiveUpKeeps, FinishKeeps, ParticipateKeeps,
     AscendInsideKeeps, ConvergeKeeps, IterateKeeps DEF Query
<1>5. CASE UNCHANGED vars
  BY <1>5, EngineStands DEF vars
<1> QED
  BY <1>1, <1>2, <1>3, <1>4, <1>5 DEF Next

\* The active queries are all different, every answer of an iteration rests on
\* active returns, and what is finished is not computed again: whatever order the
\* edges of a signature are asked in, whatever mismatches, however cycles nest.
THEOREM Heads == Spec => []HeadsAreActive
<1>1. Init => EngineInvariant
  <2>1. Init => stack = << >> /\ DOMAIN scratch = {}
    BY DEF Init
  <2> QED
    BY <2>1, Idle
<1>2. EngineInvariant /\ [Next]_vars => EngineInvariant'
  BY EngineKeeps
<1>3. EngineInvariant => HeadsAreActive
  <2> SUFFICES ASSUME EngineInvariant PROVE HeadsAreActive
    OBVIOUS
  <2>1. \A i \in DOMAIN stack : stack[i].heads \subseteq Active \cap Returns
    BY DEF EngineInvariant, HeadsBelow, Active
  <2>2. \A q \in DOMAIN scratch :
            scratch[q].heads # {} /\ scratch[q].heads \subseteq Active \cap Returns
    BY DEF EngineInvariant, ScratchCarried, Active
  <2>3. DOMAIN memo \cap Active = {}
    BY DEF EngineInvariant, OnePlace, Active
  <2> QED
    BY <2>1, <2>2, <2>3 DEF EngineInvariant, OnePlace, HeadsAreActive
<1> QED
  BY <1>1, <1>2, <1>3, PTL DEF Spec

----------------------------------------------------------------------------
(* Along the runs                                                           *)

LEMMA RunsKeepTheHierarchy ==
    ASSUME DepthOneInvariant, [Next]_vars
    PROVE  DepthOneInvariant'
<1>1. CASE Linearize
  BY <1>1, WalkKeepsOrder DEF Linearize
<1>2. CASE \E b \in DeclaredBodies : Demand(b)
  <2>1. UNCHANGED <<program, hierarchy>>
    BY <1>2 DEF Demand, saved
  <2> QED
    BY <2>1, OrderStands
<1>3. CASE Query
  <2>1. UNCHANGED <<program, hierarchy>>
    BY <1>3 DEF Query, Consult, Enter, GiveUp, Finish, Participate, AscendInside, Converge,
                Iterate, saved
  <2> QED
    BY <2>1, OrderStands
<1>4. CASE NextRun
  <2>1. root' = NoKey /\ tables' = [k \in Keys |-> NoTable]
    BY <1>4 DEF NextRun, AllAnswered, Linearizing, walking
  <2>2. \A k \in Keys : ~Linearized(k)'
    BY <2>1 DEF Linearized
  <2> QED
    BY <2>1, <2>2
    DEF DepthOneInvariant, HierarchyInvariant, WalkIsSound, TablesAreSound, OrderOfWalk, TablesInOrder
<1>5. CASE UNCHANGED vars
  <2>1. UNCHANGED <<program, hierarchy>>
    BY <1>5 DEF vars, saved
  <2> QED
    BY <2>1, OrderStands
<1> QED
  BY <1>1, <1>2, <1>3, <1>4, <1>5 DEF Next

(***************************************************************************)
(* `linearize`, over any number of runs and whatever is edited between     *)
(* them: the `self` of a member that came in by a trait is a class-like    *)
(* that uses the trait, an inherited member is found again, under its own  *)
(* name, at the class-like its entry names, and at depth one a member is   *)
(* the class-like's own, else a trait's, else a parent's.                  *)
(***************************************************************************)
THEOREM LinearizationOverRuns ==
    Spec => [](SelfIsTheUser /\ RekeyIsOneHop /\ DepthOnePrecedence)
<1>1. Init => DepthOneInvariant
  BY NoWalkYet DEF Init, HierarchyInit
<1>2. DepthOneInvariant /\ [Next]_vars => DepthOneInvariant'
  BY RunsKeepTheHierarchy
<1>3. DepthOneInvariant => SelfIsTheUser /\ RekeyIsOneHop /\ DepthOnePrecedence
  BY SelfFromInvariant, RekeyFromInvariant, PrecedenceFromInvariant DEF DepthOneInvariant
<1> QED
  BY <1>1, <1>2, <1>3, PTL DEF Spec

----------------------------------------------------------------------------
(* The walk of a body, call by call                                        *)

\* What the walk of a body makes of its i-th call, given the type of the one before.
StepOf(body, answers, i, before) ==
    IF i = 0 THEN Never
    ELSE IF CalleesOf(CallsOf(body)[i], body, before) \subseteq DOMAIN answers
    THEN TypeOfCall(CallsOf(body)[i], body, before, answers)
    ELSE Never

\* `types` are the types of its first n calls.
Types(types, body, answers, n) ==
    types = [i \in 0..n |-> StepOf(body, answers, i, types[i - 1])]

\* The recursion of a walk has a solution.
LEMMA TypesExist ==
    ASSUME NEW body, NEW answers, NEW n \in Nat
    PROVE  \E t : Types(t, body, answers, n)
<1> DEFINE Bad == {m \in 0..n : ~\E t : Types(t, body, answers, m)}
<1>0. \A u : StepOf(body, answers, 0, u) = Never
  BY DEF StepOf
<1>1. ASSUME Bad # {} PROVE FALSE
  <2>1. PICK m \in Bad : \A j \in Bad : m <= j
    <3>1. Bad \subseteq Nat
      OBVIOUS
    <3> HIDE DEF Bad
    <3> QED
      BY <1>1, <3>1, LeastNumber
  <2>2. m \in 0..n /\ ~\E t : Types(t, body, answers, m)
    OBVIOUS
  <2>3. CASE m = 0
    <3> DEFINE t == [i \in 0..0 |-> Never]
    <3>1. t = [i \in 0..0 |-> StepOf(body, answers, i, t[i - 1])]
      BY <1>0
    <3> HIDE DEF t
    <3> QED
      BY <2>2, <2>3, <3>1 DEF Types
  <2>4. CASE m # 0
    <3>1. m - 1 \in 0..n /\ m - 1 \notin Bad
      BY <2>1, <2>2, <2>4
    <3>2. PICK s : s = [i \in 0..(m - 1) |-> StepOf(body, answers, i, s[i - 1])]
      BY <3>1 DEF Types
    <3> DEFINE t == [i \in 0..m |-> IF i = m THEN StepOf(body, answers, m, s[m - 1]) ELSE s[i]]
    <3>3. \A i \in 0..m : t[i] = StepOf(body, answers, i, t[i - 1])
      <4> TAKE i \in 0..m
      <4>1. CASE i = 0
        <5>1. t[i] = s[0] /\ 0 \in 0..(m - 1)
          BY <2>2, <2>4, <4>1
        <5>2. s[0] = StepOf(body, answers, 0, s[0 - 1])
          BY <3>2, <5>1
        <5> QED
          BY <1>0, <4>1, <5>1, <5>2
      <4>2. CASE i # 0 /\ i # m
        <5>1. i \in 0..(m - 1) /\ t[i] = s[i] /\ i - 1 \in 0..m /\ t[i - 1] = s[i - 1]
          BY <2>2, <4>2
        <5>2. s[i] = StepOf(body, answers, i, s[i - 1])
          BY <3>2, <5>1
        <5> HIDE DEF t
        <5> QED
          BY <5>1, <5>2
      <4>3. CASE i # 0 /\ i = m
        <5>1. t[i] = StepOf(body, answers, m, s[m - 1]) /\ t[i - 1] = s[m - 1]
          BY <2>2, <4>3
        <5> HIDE DEF t
        <5> QED
          BY <4>3, <5>1
      <4> QED
        BY <4>1, <4>2, <4>3
    <3>4. t = [i \in 0..m |-> t[i]]
      OBVIOUS
    <3> HIDE DEF t
    <3>5. t = [i \in 0..m |-> StepOf(body, answers, i, t[i - 1])]
      BY <3>3, <3>4
    <3> QED
      BY <2>2, <3>5 DEF Types
  <2> QED
    BY <2>3, <2>4
<1>2. n \in 0..n /\ n \notin Bad
  BY <1>1
<1> QED
  BY <1>2

LEMMA CallTypesAreTypes ==
    ASSUME NEW body, NEW answers, Len(CallsOf(body)) \in Nat
    PROVE  Types(CallTypes(body, answers), body, answers, Len(CallsOf(body)))
<1> DEFINE n == Len(CallsOf(body))
<1>1. \E t : Types(t, body, answers, n)
  BY TypesExist
<1>2. Types(CHOOSE t : Types(t, body, answers, n), body, answers, n)
  BY <1>1
<1>3. CallTypes(body, answers) = CHOOSE t : Types(t, body, answers, n)
  BY DEF CallTypes, StepOf, CallsOf, Types
<1> QED
  BY <1>2, <1>3

Along(s, n) == s = [i \in 0..n |-> s[i]]

LEMMA CallTypesThen ==
    (\A body, answers : Len(CallsOf(body)) \in Nat =>
        Types(CallTypes(body, answers), body, answers, Len(CallsOf(body))))'
<1>1. \A body, answers : Len(CallsOf(body)) \in Nat =>
        Types(CallTypes(body, answers), body, answers, Len(CallsOf(body)))
  BY CallTypesAreTypes
<1> QED
  BY <1>1, PTL

\* Two walks that go the same way from the same start agree.
LEMMA SameWalk ==
    ASSUME NEW n \in Nat, NEW s, NEW t,
           Along(s, n), Along(t, n), s[0] = t[0],
           \A i \in 1..n : s[i - 1] = t[i - 1] => s[i] = t[i]
    PROVE  s = t
<1> DEFINE Bad == {i \in 0..n : s[i] # t[i]}
<1>1. ASSUME Bad # {} PROVE FALSE
  <2>1. PICK m \in Bad : \A j \in Bad : m <= j
    <3>1. Bad \subseteq Nat
      OBVIOUS
    <3> HIDE DEF Bad
    <3> QED
      BY <1>1, <3>1, LeastNumber
  <2>2. m \in 1..n
    OBVIOUS
  <2>3. m - 1 \in 0..n /\ m - 1 \notin Bad
    BY <2>1, <2>2
  <2> QED
    BY <2>2, <2>3
<1> QED
  BY <1>1 DEF Along

LEMMA CodeStands ==
    ASSUME UNCHANGED <<program, tables>>
    PROVE  /\ \A k : IsFunction(k)' = IsFunction(k) /\ DeclaredFunction(k)' = DeclaredFunction(k)
           /\ \A body : CodeOf(body)' = CodeOf(body)
           /\ \A k, name : LookupMember(k, name)' = LookupMember(k, name)
           /\ \A found : DeclaredMember(found)' = DeclaredMember(found)
           /\ \A c : ResolvedFunction(c)' = ResolvedFunction(c)
           /\ \A call, body, before : Receivers(call, body, before)' = Receivers(call, body, before)
           /\ \A call, body, before : CalleesOf(call, body, before)' = CalleesOf(call, body, before)
           /\ \A q : Delegate(q)' = Delegate(q)
<1>1. \A k : IsFunction(k)' = IsFunction(k) /\ IsClass(k)' = IsClass(k) /\ Declared(k)' = Declared(k)
  BY DEF IsFunction, IsClass, Declared
<1>2. \A k : DeclaredFunction(k)' = DeclaredFunction(k)
  BY <1>1 DEF DeclaredFunction
<1>3. \A body : CodeOf(body)' = CodeOf(body)
  BY <1>1 DEF CodeOf
<1>4. \A k, name : LookupMember(k, name)' = LookupMember(k, name)
  BY <1>1 DEF LookupMember, FoundIn
<1>5. \A found : DeclaredMember(found)' = DeclaredMember(found)
  BY <1>1 DEF DeclaredMember
<1>6. \A c : ResolvedFunction(c)' = ResolvedFunction(c)
  BY DEF ResolvedFunction, IsFunction
<1>7. \A call, body, before : Receivers(call, body, before)' = Receivers(call, body, before)
  BY <1>4 DEF Receivers, Resolves, ReceiverKeys, SelfOf, ReceiverOf
<1>8. \A call, body, before : CalleesOf(call, body, before)' = CalleesOf(call, body, before)
  <2> TAKE call, body, before
  <2>1. CASE call.on = "function"
    <3> DEFINE fs == {f \in {ResolvedFunction(call.candidates)} : IsFunction(f) /\ DeclaredFunction(f) = Undeclared}
    <3>1. fs' = fs
      BY <1>1, <1>2, <1>6
    <3> QED BY <2>1, <3>1 DEF CalleesOf
  <2>2. CASE call.on # "function"
    <3> DEFINE cs == {c \in Receivers(call, body, before) :
             DeclaredMember(LookupMember(c, call.name)) = Undeclared}
    <3>1. cs' = cs
      BY <1>4, <1>5, <1>7
    <3> QED BY <2>2, <3>1 DEF CalleesOf
  <2> QED BY <2>1, <2>2
<1>9. \A q : Delegate(q)' = Delegate(q)
  BY <1>1, <1>4 DEF Delegate
<1> QED
  BY <1>1, <1>2, <1>3, <1>4, <1>5, <1>6, <1>7, <1>8, <1>9

\* The lists a program writes down are lists.
HasCode(body) == IsList(CallsOf(body)) /\ Len(CallsOf(body)) \in Nat
                 /\ DOMAIN CallsOf(body) = 1..Len(CallsOf(body))

LEMMA TypesStand ==
    ASSUME UNCHANGED <<program, tables>>, NEW call, NEW body, NEW before, NEW answers
    PROVE  TypeOfCall(call, body, before, answers)' = TypeOfCall(call, body, before, answers)
<1>1. \A k : FunctionCallType(k, answers)' = FunctionCallType(k, answers)
  BY CodeStands DEF FunctionCallType
<1>2. \A k, name, found, receiver :
        MemberType(k, name, found, answers, receiver)' = MemberType(k, name, found, answers, receiver)
  BY CodeStands DEF MemberType, MemberOwner
<1>3. \A name, keys, receiver :
        MethodCallType(name, keys, answers, receiver)' = MethodCallType(name, keys, answers, receiver)
  <2> TAKE name, keys, receiver
  <2>1. {MemberType(k, name, LookupMember(k, name), answers, receiver) : k \in keys}'
        = {MemberType(k, name, LookupMember(k, name), answers, receiver) : k \in keys}
    BY <1>2, CodeStands
  <2> QED
    BY <2>1 DEF MethodCallType
<1> QED
  BY <1>1, <1>3, CodeStands DEF TypeOfCall, ReceiverOf

LEMMA BodyStands ==
    ASSUME UNCHANGED <<program, tables>>, NEW body, NEW answers, HasCode(body)
    PROVE  /\ CallsOf(body)' = CallsOf(body)
           /\ CallTypes(body, answers)' = CallTypes(body, answers)
           /\ AsksNext(body, answers)' = AsksNext(body, answers)
           /\ BodyType(body, answers)' = BodyType(body, answers)
<1> DEFINE n == Len(CallsOf(body))
<1>0. PICK s, t : s = CallTypes(body, answers) /\ t = CallTypes(body, answers)'
  OBVIOUS
<1>1. CallsOf(body)' = CallsOf(body) /\ CodeOf(body)' = CodeOf(body)
  BY CodeStands DEF CallsOf
<1>2. n \in Nat
  BY DEF HasCode
<1>3. Types(s, body, answers, n)
  BY <1>0, <1>2, CallTypesAreTypes
<1>5. Types(t, body, answers, n)'
  BY <1>0, <1>1, <1>2, CallTypesThen
<1>6. \A i, u : StepOf(body, answers, i, u)' = StepOf(body, answers, i, u)
  BY <1>1, CodeStands, TypesStand DEF StepOf
<1>7. /\ s = [i \in 0..n |-> StepOf(body, answers, i, s[i - 1])]
      /\ t = [i \in 0..n |-> StepOf(body, answers, i, t[i - 1])]
  BY <1>1, <1>3, <1>5, <1>6 DEF Types
<1>8. \A u : StepOf(body, answers, 0, u) = Never
  BY DEF StepOf
<1> HIDE DEF n
<1>9. s = t
  <2>1. Along(s, n) /\ Along(t, n)
    BY <1>7 DEF Along
  <2>2. \A i \in 0..n : s[i] = StepOf(body, answers, i, s[i - 1]) /\ t[i] = StepOf(body, answers, i, t[i - 1])
    BY <1>7
  <2>3. s[0] = t[0]
    BY <1>2, <1>8, <2>2
  <2>4. \A i \in 1..n : s[i - 1] = t[i - 1] => s[i] = t[i]
    BY <1>2, <2>2
  <2> QED
    BY <1>2, <2>1, <2>3, <2>4, SameWalk
<1>10. CallTypes(body, answers)' = CallTypes(body, answers)
  BY <1>0, <1>9
<1>11. \A types : Callees(body, types)' = Callees(body, types)
  BY <1>1, CodeStands DEF Callees
<1>12. AsksNext(body, answers)' = AsksNext(body, answers)
  BY <1>10, <1>11 DEF AsksNext
<1>13. \A types : ReturnedBy(body, types)' = ReturnedBy(body, types)
  BY <1>1 DEF ReturnedBy
<1>14. BodyType(body, answers)' = BodyType(body, answers)
  BY <1>10, <1>13 DEF BodyType
<1> QED
  BY <1>1, <1>10, <1>12, <1>14

\* `later` answers what `answers` does, and alike.
Extends(answers, later) ==
    DOMAIN answers \subseteq DOMAIN later /\ \A q \in DOMAIN answers : later[q] = answers[q]

LEMMA NothingOpen ==
    ASSUME NEW body, NEW answers, HasCode(body), AsksNext(body, answers) = {}
    PROVE  \A i \in DOMAIN CallsOf(body) :
               CalleesOf(CallsOf(body)[i], body, CallTypes(body, answers)[i - 1]) \subseteq DOMAIN answers
<1> DEFINE callees == Callees(body, CallTypes(body, answers))
           Bad == {i \in DOMAIN callees : ~(callees[i] \subseteq DOMAIN answers)}
<1>1. /\ DOMAIN callees = DOMAIN CallsOf(body) /\ DOMAIN callees \subseteq Nat
      /\ \A i \in DOMAIN callees : i \in Nat \ {0}
      /\ \A i \in DOMAIN callees : \A j \in 1..(i - 1) : j \in DOMAIN callees
  BY DEF Callees, HasCode
<1>2. FirstOpen(callees, DOMAIN answers) = {}
  BY DEF AsksNext
<1>3. \A i \in DOMAIN callees :
        callees[i] = CalleesOf(CallsOf(body)[i], body, CallTypes(body, answers)[i - 1])
  BY DEF Callees
<1> HIDE DEF callees
<1>4. ASSUME Bad # {} PROVE FALSE
  <2>1. PICK i \in Bad : \A j \in Bad : i <= j
    <3>1. Bad \subseteq Nat
      BY <1>1
    <3> HIDE DEF Bad
    <3> QED
      BY <1>4, <3>1, LeastNumber
  <2>2. i \in DOMAIN callees /\ i \in Nat /\ ~(callees[i] \subseteq DOMAIN answers)
    BY <1>1
  <2>3. \A j \in 1..(i - 1) : callees[j] \subseteq DOMAIN answers
    <3> TAKE j \in 1..(i - 1)
    <3>1. j \in DOMAIN callees /\ j \notin Bad
      BY <1>1, <2>1, <2>2
    <3> QED
      BY <3>1
  <2>4. PICK q \in callees[i] : q \notin DOMAIN answers
    BY <2>2
  <2>5. q \in FirstOpen(callees, DOMAIN answers)
    BY <2>2, <2>3, <2>4 DEF FirstOpen
  <2> QED
    BY <1>2, <2>5
<1> QED
  BY <1>1, <1>3, <1>4

\* A call that has its answers is the same under more of them.
LEMMA CallExtends ==
    ASSUME NEW call, NEW body, NEW before, NEW answers, NEW later, Extends(answers, later),
           CalleesOf(call, body, before) \subseteq DOMAIN answers
    PROVE  TypeOfCall(call, body, before, later) = TypeOfCall(call, body, before, answers)
<1>1. CASE call.on = "function"
  <2> DEFINE k == ResolvedFunction(call.candidates)
  <2>1. CASE IsFunction(k) /\ DeclaredFunction(k) = Undeclared
    <3>1. FunctionReturn(k) \in CalleesOf(call, body, before)
      BY <1>1, <2>1 DEF CalleesOf
    <3>2. later[FunctionReturn(k)] = answers[FunctionReturn(k)]
      BY <3>1 DEF Extends
    <3> QED
      BY <1>1, <3>2 DEF TypeOfCall, FunctionCallType
  <2>2. CASE ~(IsFunction(k) /\ DeclaredFunction(k) = Undeclared)
    BY <1>1, <2>2 DEF TypeOfCall, FunctionCallType
  <2> QED
    BY <2>1, <2>2
<1>2. CASE call.on # "function"
  <2> DEFINE keys == Receivers(call, body, before)
             receiver == ReceiverOf(call, before)
             name == call.name
  <2>1. ASSUME NEW k \in keys
        PROVE  MemberType(k, name, LookupMember(k, name), later, receiver)
               = MemberType(k, name, LookupMember(k, name), answers, receiver)
    <3>1. CASE DeclaredMember(LookupMember(k, name)) = Undeclared
      <4>1. MethodReturn(k, name) \in CalleesOf(call, body, before)
        BY <1>2, <3>1 DEF CalleesOf
      <4>2. later[MethodReturn(k, name)] = answers[MethodReturn(k, name)]
        BY <4>1 DEF Extends
      <4> QED
        BY <4>2 DEF MemberType
    <3>2. CASE DeclaredMember(LookupMember(k, name)) # Undeclared
      BY <3>2 DEF MemberType
    <3> QED
      BY <3>1, <3>2
  <2> HIDE DEF keys, receiver
  <2>2. {MemberType(k, name, LookupMember(k, name), later, receiver) : k \in keys}
        = {MemberType(k, name, LookupMember(k, name), answers, receiver) : k \in keys}
    BY <2>1
  <2>3. MethodCallType(name, keys, later, receiver) = MethodCallType(name, keys, answers, receiver)
    BY <2>2 DEF MethodCallType
  <2> QED
    BY <1>2, <2>3 DEF TypeOfCall, keys, receiver
<1> QED
  BY <1>1, <1>2

\* A body that has asked for all it asks for means the same under more answers.
LEMMA BodyExtends ==
    ASSUME NEW body, NEW answers, NEW later, HasCode(body), Extends(answers, later),
           AsksNext(body, answers) = {}
    PROVE  AsksNext(body, later) = {} /\ BodyType(body, later) = BodyType(body, answers)
<1> DEFINE n == Len(CallsOf(body))
           s == CallTypes(body, answers)
           t == CallTypes(body, later)
           C(i, u) == CalleesOf(CallsOf(body)[i], body, u)
<1>1. n \in Nat /\ DOMAIN CallsOf(body) = 1..n
  BY DEF HasCode
<1>2. Types(s, body, answers, n) /\ Types(t, body, later, n)
  BY <1>1, CallTypesAreTypes
<1>3. \A i \in 1..n : C(i, s[i - 1]) \subseteq DOMAIN answers
  BY <1>1, NothingOpen
<1>4. \A i \in 1..n : StepOf(body, later, i, s[i - 1]) = StepOf(body, answers, i, s[i - 1])
  <2> TAKE i \in 1..n
  <2>1. C(i, s[i - 1]) \subseteq DOMAIN answers /\ C(i, s[i - 1]) \subseteq DOMAIN later
    BY <1>3 DEF Extends
  <2>2. TypeOfCall(CallsOf(body)[i], body, s[i - 1], later) = TypeOfCall(CallsOf(body)[i], body, s[i - 1], answers)
    BY <2>1, CallExtends
  <2> QED
    BY <1>1, <2>1, <2>2 DEF StepOf
<1> HIDE DEF s, t, n
<1>5. s = t
  <2>1. /\ \A i \in 0..n : s[i] = StepOf(body, answers, i, s[i - 1]) /\ t[i] = StepOf(body, later, i, t[i - 1])
        /\ Along(s, n) /\ Along(t, n)
    BY <1>2 DEF Types, Along
  <2>2. s[0] = t[0]
    BY <1>1, <2>1 DEF StepOf
  <2>3. \A i \in 1..n : s[i - 1] = t[i - 1] => s[i] = t[i]
    BY <1>1, <1>4, <2>1
  <2> QED
    BY <1>1, <2>1, <2>2, <2>3, SameWalk
<1>6. AsksNext(body, later) = {}
  <2> DEFINE callees == Callees(body, t)
  <2>1. DOMAIN callees = 1..n /\ \A i \in 1..n : callees[i] = C(i, s[i - 1])
    BY <1>1, <1>5 DEF Callees
  <2>2. \A i \in 1..n : callees[i] \subseteq DOMAIN later
    BY <1>3, <2>1 DEF Extends
  <2> HIDE DEF callees
  <2>3. FirstOpen(callees, DOMAIN later) = {}
    BY <2>1, <2>2 DEF FirstOpen
  <2> QED
    BY <2>3 DEF AsksNext, callees, t
<1>7. BodyType(body, later) = BodyType(body, answers)
  BY <1>5 DEF BodyType, s, t
<1> QED
  BY <1>6, <1>7

----------------------------------------------------------------------------
(***************************************************************************)
(* The answers of a run.  What makes AnswersCover an invariant is          *)
(* what is known of an answer before it is finished.  An active query      *)
(* holds the answers the others still give (FramesFit); an answer of this  *)
(* iteration was made of answers that stand, or of those of a head that is *)
(* known to have moved, which iterates the cycle once more (ScratchRests); *)
(* and what it rests on, one active query rests on (Together), so that it  *)
(* is either settled with a cycle or dropped with it.                      *)
(***************************************************************************)

\* A query a run can get to: a return, or a body somebody wrote.
IsReal(q) == q \in Returns \/ (q \in Bodies /\ AreCalls(CallsOf(q)))

\* What a return is made of, under given answers.
ReturnOf(q, answers) ==
    IF Delegate(q) = {} THEN {Mixed} ELSE UnionOf({answers[p] : p \in Delegate(q)})

\* The answers are all that the query asks for, and the value covers what they
\* mean: what its body was answered, or what its body makes of them.
Backed(q, value, answers) ==
    IF q \in Bodies THEN Walked(q, value, answers)
    ELSE \/ q \in Doubted
         \/ Delegate(q) \subseteq DOMAIN answers /\ Covered(ReturnOf(q, answers), value)
         \/ \E b \in Bodies : \E type :
               Delegate(q) = {b} /\ Walked(b, type, answers) /\ Covered(type, value)

\* What an answer of this iteration rests on, one active query rests on.
Together ==
    \A q \in DOMAIN scratch : \E i \in DOMAIN stack : \A h \in scratch[q].heads : Carries(i, h)

\* An answer an active query holds is still the answer.
Fits(p, value, heads) ==
    \/ p \in DOMAIN memo /\ value = memo[p]
    \/ p \in DOMAIN scratch /\ value = scratch[p].answer /\ scratch[p].heads \subseteq heads
    \/ p \in (heads \cap Returns) \ (DOMAIN memo \cup DOMAIN scratch) /\ value = provisional[p]

FramesFit ==
    \A i \in DOMAIN stack : \A p \in DOMAIN stack[i].answers :
        Fits(p, stack[i].answers[p], stack[i].heads)

\* And one an answer of this iteration was made of, unless the head it came from
\* is known to have moved.
Rests(p, value, heads) ==
    \/ p \in DOMAIN memo /\ value = memo[p]
    \/ /\ p \in DOMAIN scratch /\ scratch[p].heads \subseteq heads
       /\ value = scratch[p].answer \/ p \in moved
    \/ p \in (heads \cap Returns) \ (DOMAIN memo \cup DOMAIN scratch) /\ value = provisional[p]

ScratchRests ==
    \A q \in DOMAIN scratch : \E answers :
        /\ Backed(q, scratch[q].answer, answers)
        /\ \A p \in DOMAIN answers : Rests(p, answers[p], scratch[q].heads)

MemoStands ==
    \A q \in DOMAIN memo : \E answers :
        Backed(q, memo[q], answers) /\ Extends(answers, memo)

\* An active query computes, or takes its answer from a signature that holds.
Proceeds(q, mode) ==
    /\ IsReal(q)
    /\ mode = "computing" \/ (q \in DOMAIN records \cap Returns /\ StoredHolds(q))

EdgesAreReturns == \A q \in DOMAIN records : DOMAIN records[q].edges \subseteq Returns

\* What is known of the answers of a run.
Sound ==
    /\ EdgesAreReturns
    /\ \A i \in DOMAIN stack : Proceeds(stack[i].query, stack[i].mode)
    /\ Together /\ FramesFit /\ ScratchRests /\ MemoStands

\* No query before the tables are there.
Ready == (stack # << >> \/ DOMAIN memo # {}) => ~Linearizing

Standing ==
    /\ run \in Nat \ {0} /\ DOMAIN provisional = Returns
    /\ HierarchyInvariant /\ EngineInvariant /\ Ready

LEMMA CodeOfReal ==
    ASSUME NEW q, AreCalls(CallsOf(q))
    PROVE  HasCode(q)
BY LenProperties DEF AreCalls, IsList, HasCode

LEMMA KindsDiffer == Returns \cap Bodies = {}
BY DEF Returns, Bodies, FunctionReturn, MethodReturn, Body

\* The bodies that returns come down to have calls.
DelegatesHaveCode == \A q \in Returns : \A r \in Delegate(q) : r \in Bodies => HasCode(r)

LEMMA MeaningStands ==
    ASSUME UNCHANGED <<program, tables>>, DelegatesHaveCode, NEW q \in Returns, NEW returns
    PROVE  Meaning(q, returns)' = Meaning(q, returns)
<1> DEFINE Of(r) == IF r \in Bodies THEN BodyType(r, returns) ELSE returns[r]
<1>1. Delegate(q)' = Delegate(q) /\ Bodies' = Bodies /\ q \notin Bodies
  BY CodeStands, KindsDiffer DEF Bodies
<1>2. \A r \in Delegate(q) : Of(r)' = Of(r)
  <2> TAKE r \in Delegate(q)
  <2>1. r \in Bodies => BodyType(r, returns)' = BodyType(r, returns)
    BY BodyStands DEF DelegatesHaveCode
  <2> QED
    BY <1>1, <2>1
<1> HIDE DEF Of
<1>3. {Of(r) : r \in Delegate(q)}' = {Of(r) : r \in Delegate(q)}
  BY <1>1, <1>2
<1>4. Meaning(q, returns) = IF Delegate(q) = {} THEN {Mixed} ELSE UnionOf({Of(r) : r \in Delegate(q)})
  BY <1>1 DEF Meaning, Of
<1>5. Meaning(q, returns)' =
        IF Delegate(q)' = {} THEN {Mixed} ELSE UnionOf({Of(r) : r \in Delegate(q)}')
  BY <1>1 DEF Meaning, Of
<1> QED
  BY <1>1, <1>3, <1>4, <1>5

LEMMA CodeIsThere ==
    ASSUME UNCHANGED <<program, tables>>
    PROVE  DelegatesHaveCode' <=> DelegatesHaveCode
<1>1. Returns' = Returns /\ Bodies' = Bodies
  BY DEF Returns, Bodies
<1>2. \A r : HasCode(r)' <=> HasCode(r)
  BY CodeStands DEF HasCode, CallsOf, IsList
<1> QED
  BY <1>1, <1>2, CodeStands DEF DelegatesHaveCode

\* Returns that cover what they mean under each other.
Solves(returns) ==
    /\ DOMAIN returns = Returns
    /\ \A q \in Returns : Covered(Meaning(q, returns), returns[q])

LEMMA SolvesStands ==
    ASSUME UNCHANGED <<program, tables>>, DelegatesHaveCode
    PROVE  \A returns : Solves(returns)' <=> Solves(returns)
<1> SUFFICES ASSUME NEW returns PROVE Solves(returns)' <=> Solves(returns)
  OBVIOUS
<1>1. Returns' = Returns
  BY DEF Returns
<1>2. \A q \in Returns : Meaning(q, returns)' = Meaning(q, returns)
  BY MeaningStands
<1>3. \A q \in Returns : Covered(Meaning(q, returns), returns[q])'
                         <=> Covered(Meaning(q, returns), returns[q])
  BY <1>2 DEF Covered
<1> QED
  BY <1>1, <1>3 DEF Solves

LEMMA WalkedStands ==
    ASSUME UNCHANGED <<program, tables>>
    PROVE  \A b, type, answers : Walked(b, type, answers)' <=> Walked(b, type, answers)
<1> SUFFICES ASSUME NEW b, NEW type, NEW answers
             PROVE  Walked(b, type, answers)' <=> Walked(b, type, answers)
  OBVIOUS
<1>1. CallsOf(b)' = CallsOf(b)
  BY CodeStands DEF CallsOf
<1>2. AreCalls(CallsOf(b))' = AreCalls(CallsOf(b))
  BY <1>1 DEF AreCalls
<1>3. CASE AreCalls(CallsOf(b))
  <2>1. HasCode(b)
    BY <1>3, CodeOfReal
  <2>2. /\ AsksNext(b, answers)' = AsksNext(b, answers)
        /\ BodyType(b, answers)' = BodyType(b, answers)
    BY <2>1, BodyStands
  <2> QED
    BY <1>2, <2>2 DEF Walked
<1>4. CASE ~AreCalls(CallsOf(b))
  BY <1>2, <1>4 DEF Walked
<1> QED
  BY <1>3, <1>4

LEMMA SpeaksStands ==
    ASSUME UNCHANGED <<program, tables, records>>
    PROVE  \A q : Speaks(q)' <=> Speaks(q)
<1>0. Bodies' = Bodies
  BY DEF Bodies
<1>1. \A b, type, answers : Walked(b, type, answers)' <=> Walked(b, type, answers)
  BY WalkedStands
<1>2. \A q : Delegate(q)' = Delegate(q)
  BY CodeStands
<1> SUFFICES ASSUME NEW q PROVE Speaks(q)' <=> Speaks(q)
  OBVIOUS
<1>3. PICK type, answers : type = records[q].returns /\ answers = records[q].edges
  OBVIOUS
<1>4. Speaks(q) <=> \E b \in Bodies : Delegate(q) = {b} /\ Walked(b, type, answers)
  BY <1>3 DEF Speaks
<1>5. Speaks(q)' <=> \E b \in Bodies : Delegate(q) = {b} /\ Walked(b, type, answers)'
  BY <1>0, <1>2, <1>3 DEF Speaks
<1> QED
  BY <1>1, <1>4, <1>5

\* What must hold of a stored signature, holds as long as the program stands.
LEMMA HoldsStands ==
    ASSUME UNCHANGED <<program, tables>>
    PROVE  /\ \A k : ClassDigest(k)' = ClassDigest(k) /\ FunctionDigest(k)' = FunctionDigest(k)
           /\ \A q : DefiningFile(q)' = DefiningFile(q)
           /\ \A record, file : RecordHolds(record, file)' = RecordHolds(record, file)
<1>1. \A k : IsFunction(k)' = IsFunction(k) /\ IsClass(k)' = IsClass(k) /\ Declared(k)' = Declared(k)
  BY DEF IsFunction, IsClass, Declared
<1>2. \A k : ClassDigest(k)' = ClassDigest(k)
  <2> TAKE k
  <2>1. \A n : DeclaredMember(LookupMember(k, n))' = DeclaredMember(LookupMember(k, n))
    BY CodeStands
  <2>2. AncestorOrder(k)' = AncestorOrder(k)
    BY <1>1 DEF AncestorOrder
  <2> QED
    BY <1>1, <2>1, <2>2 DEF ClassDigest
<1>3. \A k : FunctionDigest(k)' = FunctionDigest(k)
  BY <1>1, CodeStands DEF FunctionDigest
<1>4. \A q : DefiningFile(q)' = DefiningFile(q)
  BY <1>1, CodeStands DEF DefiningFile
<1>5. \A record, file : RecordHolds(record, file)' = RecordHolds(record, file)
  BY <1>2, <1>3 DEF RecordHolds, Content
<1> QED
  BY <1>2, <1>3, <1>4, <1>5

----------------------------------------------------------------------------
(* An edit, and what a record tells of it                                   *)

\* The names that the function calls of a body try.
Tried(body) ==
    UNION {{CallsOf(body)[i].candidates[j] : j \in DOMAIN CallsOf(body)[i].candidates} :
             i \in {i \in DOMAIN CallsOf(body) : CallsOf(body)[i].on = "function"}}

\* A step that moves nothing a record would not show: no function appears under a
\* name a recorded call tried, none goes that a stub stands behind, no class-like
\* comes to answer for a member it did not, and where the surface of one stands, so
\* do the class-likes its members' placeholders mean.
NothingUnseen ==
    /\ \A b \in Recorded : \A k \in Tried(b) : IsFunction(k)' => IsFunction(k)
    /\ \A k \in DOMAIN StubFunctions : IsFunction(k) => IsFunction(k)'
    /\ \A k \in Keys, n \in Names : Resolves(k, n)' => Resolves(k, n)
    /\ \A k \in Keys, n \in Names : ClassDigest(k)' = ClassDigest(k) =>
           MemberOwner(k, LookupMember(k, n))' = MemberOwner(k, LookupMember(k, n))

\* The digests of what a call resolved to stand, and nothing it tried appears.
Shown(call, body, before) ==
    IF call.on = "function"
    THEN /\ IsList(call.candidates)
         /\ \A j \in DOMAIN call.candidates :
               IsFunction(call.candidates[j])' => IsFunction(call.candidates[j])
         /\ \A k \in Keys \cup DOMAIN StubFunctions :
               k = ResolvedFunction(call.candidates) => FunctionDigest(k)' = FunctionDigest(k)
    ELSE /\ call.name \in Names
         /\ \A k \in Receivers(call, body, before) : ClassDigest(k)' = ClassDigest(k)

\* A call resolves to a candidate it tries, or to nothing.
LEMMA ResolvedIsTried ==
    ASSUME NEW c, IsList(c), NEW k, k = ResolvedFunction(c)
    PROVE  k = NoKey \/ \E j \in DOMAIN c : k = c[j]
<1> DEFINE source == {i \in DOMAIN c : IsFunction(c[i])}
           stubs  == {i \in DOMAIN c : c[i] \in DOMAIN StubFunctions}
<1>1. DOMAIN c \subseteq Nat
  BY LenProperties DEF IsList
<1>2. ASSUME NEW s, s \subseteq DOMAIN c, s # {}
      PROVE  (CHOOSE i \in s : \A j \in s : i <= j) \in s
  <2>1. \E i \in s : \A j \in s : i <= j
    BY <1>1, <1>2, LeastNumber
  <2> QED
    BY <2>1
<1>3. CASE source # {}
  BY <1>2, <1>3 DEF ResolvedFunction
<1>4. CASE source = {} /\ stubs # {}
  BY <1>2, <1>4 DEF ResolvedFunction
<1>5. CASE source = {} /\ stubs = {}
  BY <1>5 DEF ResolvedFunction
<1> QED
  BY <1>3, <1>4, <1>5

\* A function that the first candidates resolve to, they still resolve to.
LEMMA ResolvedAlike ==
    ASSUME NEW c, IsList(c), NEW k, k = ResolvedFunction(c),
           \A j \in DOMAIN c : IsFunction(c[j])' => IsFunction(c[j]),
           \A f \in DOMAIN StubFunctions : IsFunction(f) => IsFunction(f)',
           k \in Keys \cup DOMAIN StubFunctions => FunctionDigest(k)' = FunctionDigest(k)
    PROVE  /\ ResolvedFunction(c)' = k /\ IsFunction(k)' = IsFunction(k)
           /\ DeclaredFunction(k)' = DeclaredFunction(k)
<1> DEFINE source == {i \in DOMAIN c : IsFunction(c[i])}
           stubs  == {i \in DOMAIN c : c[i] \in DOMAIN StubFunctions}
           IsFirst(i, s) == i \in s /\ \A j \in s : i <= j
<1>0. DOMAIN c \subseteq Nat
  BY LenProperties DEF IsList
<1>1. source' \subseteq source
  OBVIOUS
<1>2. ASSUME NEW s, s \subseteq Nat, s # {}
      PROVE  IsFirst(CHOOSE i \in s : \A j \in s : i <= j, s)
  BY <1>2, LeastNumber
<1>3. ASSUME NEW s, s \subseteq Nat, NEW i, IsFirst(i, s)
      PROVE  (CHOOSE j \in s : \A l \in s : j <= l) = i
  <2>1. \A j : IsFirst(j, s) => j = i
    BY <1>3
  <2> QED
    BY <1>3, <2>1
<1>4. CASE source # {}
  <2>1. PICK i : i = CHOOSE l \in source : \A j \in source : l <= j
    OBVIOUS
  <2>2. IsFirst(i, source)
    BY <1>0, <1>2, <1>4, <2>1
  <2>3. k = c[i]
    BY <1>4, <2>1 DEF ResolvedFunction
  <2>4. IsFunction(k) /\ k \in Keys /\ i \in DOMAIN c
    BY <2>2, <2>3 DEF IsFunction
  <2>5. FunctionDigest(k)' = FunctionDigest(k)
    BY <2>4
  <2>6. (IsFunction(k)' \/ k \in DOMAIN StubFunctions) /\ DeclaredFunction(k)' = DeclaredFunction(k)
    BY <2>4, <2>5 DEF FunctionDigest
  <2>7. IsFunction(k)'
    BY <2>4, <2>6
  <2>8. IsFirst(i, source')
    BY <1>1, <2>2, <2>3, <2>4, <2>7
  <2>9. source' # {} /\ (CHOOSE i_1 \in source' : \A j \in source' : i_1 <= j) = i
    BY <1>0, <1>3, <2>8
  <2>10. ResolvedFunction(c)' = c[i]
    BY <2>9 DEF ResolvedFunction
  <2> QED
    BY <2>3, <2>4, <2>6, <2>7, <2>10
<1>5. CASE source = {}
  <2>1. source' = {}
    BY <1>1, <1>5
  <2>2. ResolvedFunction(c)' = k
    BY <1>5, <2>1 DEF ResolvedFunction
  <2>3. ~IsFunction(k)
    <3>1. CASE stubs = {}
      <4>1. k = NoKey
        BY <1>5, <3>1 DEF ResolvedFunction
      <4> QED
        BY <4>1, HierarchyAssumption DEF IsFunction
    <3>2. CASE stubs # {}
      <4>1. PICK i : i = CHOOSE l \in stubs : \A j \in stubs : l <= j
        OBVIOUS
      <4>2. i \in stubs
        BY <1>0, <1>2, <3>2, <4>1
      <4>3. k = c[i]
        BY <1>5, <3>2, <4>1 DEF ResolvedFunction
      <4> QED
        BY <1>5, <4>2, <4>3
    <3> QED
      BY <3>1, <3>2
  <2>4. ~IsFunction(k)'
    <3>1. CASE k = NoKey
      BY <3>1, HierarchyAssumption DEF IsFunction
    <3>2. CASE k # NoKey
      <4>1. stubs # {}
        BY <1>5, <3>2 DEF ResolvedFunction
      <4>2. PICK i : i = CHOOSE l \in stubs : \A j \in stubs : l <= j
        OBVIOUS
      <4>3. i \in stubs
        BY <1>0, <1>2, <4>1, <4>2
      <4>4. k = c[i]
        BY <1>5, <4>1, <4>2 DEF ResolvedFunction
      <4> QED
        BY <2>1, <4>3, <4>4
    <3> QED
      BY <3>1, <3>2
  <2>5. PICK type : type = IF k \in DOMAIN StubFunctions THEN StubFunctions[k] ELSE Undeclared
    OBVIOUS
  <2>6. DeclaredFunction(k) = type
    BY <2>3, <2>5 DEF DeclaredFunction
  <2>7. DeclaredFunction(k)' = type
    BY <2>4, <2>5 DEF DeclaredFunction
  <2>8. IsFunction(k)' = IsFunction(k)
    BY <2>3, <2>4 DEF IsFunction
  <2> QED
    BY <2>2, <2>6, <2>7, <2>8
<1> QED
  BY <1>4, <1>5

\* The surface of a class-like tells how each name is answered, and as what declared.
LEMMA DigestTells ==
    ASSUME NEW k, NEW n \in Names, ClassDigest(k)' = ClassDigest(k)
    PROVE  /\ LookupMember(k, n).tier' = LookupMember(k, n).tier
           /\ DeclaredMember(LookupMember(k, n))' = DeclaredMember(LookupMember(k, n))
<1>1. PICK digest : digest = ClassDigest(k) /\ digest = ClassDigest(k)'
  OBVIOUS
<1>2. IsClass(k)' <=> IsClass(k)
  <2>1. IsClass(k) <=> "members" \in DOMAIN digest
    BY <1>1 DEF ClassDigest
  <2>2. IsClass(k)' <=> "members" \in DOMAIN digest
    BY <1>1 DEF ClassDigest
  <2> QED
    BY <2>1, <2>2
<1>3. CASE ~IsClass(k)
  <2>1. LookupMember(k, n)' = LookupMember(k, n) /\ LookupMember(k, n).tier # "source"
    BY <1>2, <1>3 DEF LookupMember
  <2> QED
    BY <2>1 DEF DeclaredMember
<1>4. CASE IsClass(k)
  <2> DEFINE entry == tables[k].members[n]
             type  == DeclaredMember(LookupMember(k, n))
             own   == IF entry = NoEntry THEN {} ELSE {<<entry.owner, type>>}
  <2>1. LookupMember(k, n) = FoundIn(tables[k], n) /\ LookupMember(k, n)' = FoundIn(tables[k], n)'
    BY <1>2, <1>4 DEF LookupMember
  <2>2. /\ ClassDigest(k).members[n] = own /\ ClassDigest(k)'.members[n] = own'
        /\ ClassDigest(k).virtuals = tables[k].virtuals /\ ClassDigest(k)'.virtuals = tables[k].virtuals'
        /\ ClassDigest(k).stubs = tables[k].stubs /\ ClassDigest(k)'.stubs = tables[k].stubs'
    BY <1>2, <1>4 DEF ClassDigest
  <2>3. own' = own /\ tables[k].virtuals' = tables[k].virtuals /\ tables[k].stubs' = tables[k].stubs
    BY <2>2
  <2>4. CASE entry = NoEntry
    <3>1. own = {} /\ entry' = NoEntry
      BY <2>3, <2>4
    <3>2. LookupMember(k, n)' = LookupMember(k, n) /\ LookupMember(k, n).tier # "source"
      BY <2>1, <2>3, <2>4, <3>1 DEF FoundIn, StubDeclares
    <3> QED
      BY <3>2 DEF DeclaredMember
  <2>5. CASE entry # NoEntry
    <3>1. PICK o, d, p, e : o = entry.owner /\ d = type /\ p = entry.owner' /\ e = type'
      OBVIOUS
    <3>2. own = {<<o, d>>} /\ entry' # NoEntry /\ own' = {<<p, e>>}
      BY <2>3, <2>5, <3>1
    <3>3. d = e
      <4> HIDE DEF own
      <4>1. PICK u : u = {<<o, d>>} /\ u = {<<p, e>>}
        BY <2>3, <3>2
      <4>2. <<o, d>> \in u
        BY <4>1
      <4>3. <<o, d>> = <<p, e>>
        BY <4>1, <4>2
      <4> QED
        BY <4>3
    <3>4. LookupMember(k, n).tier = "source" /\ LookupMember(k, n).tier' = "source"
      BY <2>1, <2>5, <3>2 DEF FoundIn
    <3> QED
      BY <3>1, <3>3, <3>4
  <2> QED
    BY <2>4, <2>5
<1> QED
  BY <1>3, <1>4

\* A call whose answers show in a record is what it was, and asks for what it did.
LEMMA CallMoves ==
    ASSUME NothingUnseen, NEW call, NEW body, NEW before, NEW answers, Shown(call, body, before)
    PROVE  /\ CalleesOf(call, body, before)' = CalleesOf(call, body, before)
           /\ TypeOfCall(call, body, before, answers)' = TypeOfCall(call, body, before, answers)
<1>1. CASE call.on = "function"
  <2>1. PICK k : k = ResolvedFunction(call.candidates)
    OBVIOUS
  <2>2. /\ ResolvedFunction(call.candidates)' = k /\ IsFunction(k)' = IsFunction(k)
        /\ DeclaredFunction(k)' = DeclaredFunction(k)
    BY <1>1, <2>1, ResolvedAlike DEF Shown, NothingUnseen
  <2> DEFINE fs == {f \in {k} : IsFunction(f) /\ DeclaredFunction(f) = Undeclared}
  <2>3. fs' = fs
    BY <2>2
  <2>4. /\ CalleesOf(call, body, before) = {FunctionReturn(f) : f \in fs}
        /\ CalleesOf(call, body, before)' = {FunctionReturn(f) : f \in fs'}
    BY <1>1, <2>1, <2>2 DEF CalleesOf
  <2>5. /\ TypeOfCall(call, body, before, answers) = FunctionCallType(k, answers)
        /\ TypeOfCall(call, body, before, answers)' = FunctionCallType(k, answers)'
    BY <1>1, <2>1, <2>2 DEF TypeOfCall
  <2>6. FunctionCallType(k, answers)' = FunctionCallType(k, answers)
    BY <2>2 DEF FunctionCallType
  <2> QED
    BY <2>3, <2>4, <2>5, <2>6
<1>2. CASE call.on # "function"
  <2>1. PICK name, receiver, asked : /\ name = call.name /\ receiver = ReceiverOf(call, before)
                                     /\ asked = ReceiverKeys(receiver, body)
    OBVIOUS
  <2>2. name \in Names /\ \A k \in Receivers(call, body, before) : ClassDigest(k)' = ClassDigest(k)
    BY <1>2, <2>1 DEF Shown
  <2>3. /\ Receivers(call, body, before) = {k \in asked : Resolves(k, name)}
        /\ Receivers(call, body, before)' = {k \in asked : Resolves(k, name)'}
    BY <2>1 DEF Receivers, ReceiverKeys, SelfOf, ReceiverOf
  <2>4. \A k \in Receivers(call, body, before) :
           /\ k \in Keys /\ Resolves(k, name)'
           /\ DeclaredMember(LookupMember(k, name))' = DeclaredMember(LookupMember(k, name))
           /\ MemberOwner(k, LookupMember(k, name))' = MemberOwner(k, LookupMember(k, name))
    <3> TAKE k \in Receivers(call, body, before)
    <3>1. k \in Keys /\ Resolves(k, name) /\ ClassDigest(k)' = ClassDigest(k)
      BY <2>2, <2>3 DEF Resolves
    <3>2. /\ LookupMember(k, name).tier' = LookupMember(k, name).tier
          /\ DeclaredMember(LookupMember(k, name))' = DeclaredMember(LookupMember(k, name))
      BY <2>2, <3>1, DigestTells
    <3>3. MemberOwner(k, LookupMember(k, name))' = MemberOwner(k, LookupMember(k, name))
      BY <2>2, <3>1 DEF NothingUnseen
    <3> QED
      BY <3>1, <3>2, <3>3 DEF Resolves
  <2>5. PICK keys : keys = Receivers(call, body, before)
    OBVIOUS
  <2>6. Receivers(call, body, before)' = keys
    <3>1. \A k \in asked : Resolves(k, name)' <=> Resolves(k, name)
      <4> TAKE k \in asked
      <4>1. Resolves(k, name) => Resolves(k, name)'
        BY <2>3, <2>4
      <4>2. Resolves(k, name)' => Resolves(k, name)
        BY <2>2 DEF NothingUnseen, Resolves
      <4> QED
        BY <4>1, <4>2
    <3> QED
      BY <2>3, <2>5, <3>1
  <2>7. CalleesOf(call, body, before)' = CalleesOf(call, body, before)
    <3>1. /\ CalleesOf(call, body, before) =
                {MethodReturn(k, name) : k \in {c \in keys : DeclaredMember(LookupMember(c, name)) = Undeclared}}
          /\ CalleesOf(call, body, before)' =
                {MethodReturn(k, name) : k \in {c \in keys : DeclaredMember(LookupMember(c, name))' = Undeclared}}
      BY <1>2, <2>1, <2>5, <2>6 DEF CalleesOf
    <3>2. {c \in keys : DeclaredMember(LookupMember(c, name)) = Undeclared}
          = {c \in keys : DeclaredMember(LookupMember(c, name))' = Undeclared}
      BY <2>4, <2>5
    <3> QED
      BY <3>1, <3>2
  <2>8. \A k \in keys : MemberType(k, name, LookupMember(k, name), answers, receiver)'
                        = MemberType(k, name, LookupMember(k, name), answers, receiver)
    BY <2>4, <2>5 DEF MemberType
  <2>9. MethodCallType(name, keys, answers, receiver)' = MethodCallType(name, keys, answers, receiver)
    <3>1. {MemberType(k, name, LookupMember(k, name), answers, receiver) : k \in keys}'
          = {MemberType(k, name, LookupMember(k, name), answers, receiver) : k \in keys}
      BY <2>8
    <3> QED
      BY <3>1 DEF MethodCallType
  <2>10. /\ TypeOfCall(call, body, before, answers) = MethodCallType(name, keys, answers, receiver)
         /\ TypeOfCall(call, body, before, answers)' = MethodCallType(name, keys, answers, receiver)'
    BY <1>2, <2>1, <2>5, <2>6 DEF TypeOfCall, ReceiverOf
  <2> QED
    BY <2>7, <2>9, <2>10
<1> QED
  BY <1>1, <1>2

\* A body whose text stands means what it did, where all that its calls resolved to
\* stands as far as a record tells, and nothing moved that none would.
LEMMA BodyMoves ==
    ASSUME NothingUnseen, NEW body, NEW answers, HasCode(body), CodeOf(body)' = CodeOf(body),
           \A i \in DOMAIN CallsOf(body) :
               Shown(CallsOf(body)[i], body, CallTypes(body, answers)[i - 1])
    PROVE  /\ CallsOf(body)' = CallsOf(body)
           /\ AsksNext(body, answers)' = AsksNext(body, answers)
           /\ BodyType(body, answers)' = BodyType(body, answers)
<1> DEFINE n == Len(CallsOf(body))
<1>0. PICK s, t, calls : /\ s = CallTypes(body, answers) /\ t = CallTypes(body, answers)'
                         /\ calls = CallsOf(body)
  OBVIOUS
<1>1. CallsOf(body)' = calls
  BY <1>0 DEF CallsOf
<1>2. n \in Nat /\ DOMAIN calls = 1..n /\ n = Len(calls)
  BY <1>0 DEF HasCode
<1>3. Types(s, body, answers, n)
  BY <1>0, <1>2, CallTypesAreTypes
<1>4. Types(t, body, answers, n)'
  BY <1>0, <1>1, <1>2, CallTypesThen
<1>5. \A i \in 1..n : /\ CalleesOf(calls[i], body, s[i - 1])' = CalleesOf(calls[i], body, s[i - 1])
                      /\ StepOf(body, answers, i, s[i - 1])' = StepOf(body, answers, i, s[i - 1])
  <2> TAKE i \in 1..n
  <2>1. PICK call, before : call = calls[i] /\ before = s[i - 1]
    OBVIOUS
  <2>2. Shown(call, body, before)
    BY <1>0, <1>2, <2>1
  <2>3. /\ CalleesOf(call, body, before)' = CalleesOf(call, body, before)
        /\ TypeOfCall(call, body, before, answers)' = TypeOfCall(call, body, before, answers)
    BY <2>2, CallMoves
  <2>4. StepOf(body, answers, i, before)' = StepOf(body, answers, i, before)
    BY <1>0, <1>1, <2>1, <2>3 DEF StepOf
  <2> QED
    BY <2>1, <2>3, <2>4
<1>6. /\ s = [i \in 0..n |-> StepOf(body, answers, i, s[i - 1])]
      /\ t = [i \in 0..n |-> StepOf(body, answers, i, t[i - 1])']
  BY <1>0, <1>1, <1>2, <1>3, <1>4 DEF Types
<1>7. \A u : StepOf(body, answers, 0, u) = Never /\ StepOf(body, answers, 0, u)' = Never
  BY DEF StepOf
<1> HIDE DEF n
<1>8. s = t
  <2>1. Along(s, n) /\ Along(t, n)
    BY <1>6 DEF Along
  <2>2. \A i \in 0..n : /\ s[i] = StepOf(body, answers, i, s[i - 1])
                        /\ t[i] = StepOf(body, answers, i, t[i - 1])'
    BY <1>6
  <2>3. s[0] = t[0]
    BY <1>2, <1>7, <2>2
  <2>4. \A i \in 1..n : s[i - 1] = t[i - 1] => s[i] = t[i]
    <3> SUFFICES ASSUME NEW i \in 1..n, s[i - 1] = t[i - 1] PROVE s[i] = t[i]
      OBVIOUS
    <3>1. PICK before : before = s[i - 1]
      OBVIOUS
    <3>2. s[i] = StepOf(body, answers, i, before) /\ t[i] = StepOf(body, answers, i, before)'
      BY <1>2, <2>2, <3>1
    <3> QED
      BY <1>5, <3>1, <3>2
  <2> QED
    BY <1>2, <2>1, <2>3, <2>4, SameWalk
<1>9. Callees(body, s)' = Callees(body, s)
  BY <1>0, <1>1, <1>2, <1>5 DEF Callees
<1>10. AsksNext(body, answers)' = AsksNext(body, answers)
  BY <1>0, <1>8, <1>9 DEF AsksNext
<1>11. ReturnedBy(body, s)' = ReturnedBy(body, s)
  BY <1>0, <1>1 DEF ReturnedBy
<1>12. BodyType(body, answers)' = BodyType(body, answers)
  BY <1>0, <1>8, <1>11 DEF BodyType
<1> QED
  BY <1>0, <1>1, <1>10, <1>12

----------------------------------------------------------------------------
(* What stands with a program                                               *)

LEMMA DoubtStands ==
    ASSUME UNCHANGED <<program, tables, records>>
    PROVE  Doubted' = Doubted /\ \A q : StoredHolds(q)' = StoredHolds(q)
<1>1. Returns' = Returns
  BY DEF Returns
<1>2. \A q : StoredHolds(q)' = StoredHolds(q)
  BY HoldsStands DEF StoredHolds
<1>3. \A q : q \in Doubted' <=> q \in Doubted
  BY <1>1, <1>2, SpeaksStands DEF Doubted
<1>4. Doubted' \subseteq DOMAIN records /\ Doubted \subseteq DOMAIN records
  BY DEF Doubted
<1> QED
  BY <1>2, <1>3, <1>4

LEMMA BackedStands ==
    ASSUME UNCHANGED <<program, tables, records>>
    PROVE  \A q, value, answers : Backed(q, value, answers) => Backed(q, value, answers)'
<1> SUFFICES ASSUME NEW q, NEW value, NEW answers, Backed(q, value, answers)
             PROVE  Backed(q, value, answers)'
  OBVIOUS
<1>0. Bodies' = Bodies
  BY DEF Bodies
<1>1. CASE q \in Bodies
  <2>1. Walked(q, value, answers)'
    BY <1>1, WalkedStands DEF Backed
  <2> QED
    BY <1>0, <1>1, <2>1 DEF Backed
<1>2. Delegate(q)' = Delegate(q)
  BY CodeStands
<1>3. CASE q \notin Bodies /\ Delegate(q) \subseteq DOMAIN answers
                          /\ Covered(ReturnOf(q, answers), value)
  <2>1. ReturnOf(q, answers)' = ReturnOf(q, answers)
    BY <1>2 DEF ReturnOf
  <2>2. (Delegate(q) \subseteq DOMAIN answers /\ Covered(ReturnOf(q, answers), value))'
    BY <1>2, <1>3, <2>1 DEF Covered
  <2> QED
    BY <1>0, <1>3, <2>2 DEF Backed
<1>4. CASE q \notin Bodies /\ \E b \in Bodies : \E type :
               Delegate(q) = {b} /\ Walked(b, type, answers) /\ Covered(type, value)
  <2>1. PICK b \in Bodies : \E type :
               Delegate(q) = {b} /\ Walked(b, type, answers) /\ Covered(type, value)
    BY <1>4
  <2>2. PICK type : Delegate(q) = {b} /\ Walked(b, type, answers) /\ Covered(type, value)
    BY <2>1
  <2>3. (Delegate(q) = {b} /\ Walked(b, type, answers) /\ Covered(type, value))'
    BY <1>2, <2>2, WalkedStands DEF Covered
  <2> QED
    BY <1>0, <1>4, <2>3 DEF Backed
<1>5. CASE q \notin Bodies /\ q \in Doubted
  BY <1>0, <1>5, DoubtStands DEF Backed
<1> QED
  BY <1>1, <1>3, <1>4, <1>5 DEF Backed

\* What a body asked for and was answered, it is answered by the finished answers.
LEMMA WalkedExtends ==
    ASSUME NEW r, NEW type, NEW answers, Walked(r, type, answers),
           NEW later, Extends(answers, later)
    PROVE  AsksNext(r, later) = {} /\ BodyType(r, later) = type /\ Walked(r, type, later)
<1>1. AreCalls(CallsOf(r)) /\ AsksNext(r, answers) = {} /\ type = BodyType(r, answers)
  BY DEF Walked
<1>2. HasCode(r)
  BY <1>1, CodeOfReal
<1>3. AsksNext(r, later) = {} /\ BodyType(r, later) = type
  BY <1>1, <1>2, BodyExtends
<1> QED
  BY <1>1, <1>3 DEF Walked

\* A finished body is exactly what its walk makes of the finished answers.
LEMMA BodiesAreWalked ==
    ASSUME MemoStands, NEW r \in DOMAIN memo, r \in Bodies
    PROVE  /\ Walked(r, memo[r], memo)
           /\ AsksNext(r, memo) = {} /\ BodyType(r, memo) = memo[r]
<1>1. PICK answers : Backed(r, memo[r], answers) /\ Extends(answers, memo)
  BY DEF MemoStands
<1> QED
  BY <1>1, WalkedExtends DEF Backed

\* What a finished answer means, it means under all the finished answers.
LEMMA CoverFromMemo ==
    ASSUME MemoStands, NEW q \in DOMAIN memo \ Doubted
    PROVE  Open(q, memo) = {} /\ Covered(Meaning(q, memo), memo[q])
<1>1. ASSUME NEW r, NEW type, NEW answers, Walked(r, type, answers), Extends(answers, memo)
      PROVE  AsksNext(r, memo) = {} /\ BodyType(r, memo) = type
  BY <1>1, WalkedExtends
<1>2. ASSUME NEW r \in DOMAIN memo, r \in Bodies
      PROVE  AsksNext(r, memo) = {} /\ BodyType(r, memo) = memo[r]
  BY <1>2, BodiesAreWalked
<1>3. CASE q \in Bodies
  BY <1>2, <1>3 DEF Open, Meaning, Covered
<1>4. ASSUME NEW answers, Extends(answers, memo), q \notin Bodies,
             Delegate(q) \subseteq DOMAIN answers, Covered(ReturnOf(q, answers), memo[q])
      PROVE  Open(q, memo) = {} /\ Covered(Meaning(q, memo), memo[q])
  <2>3. \A r \in Delegate(q) : r \in DOMAIN memo /\ memo[r] = answers[r]
    BY <1>4 DEF Extends
  <2>4. \A r \in Delegate(q) : (IF r \in Bodies THEN BodyType(r, memo) ELSE memo[r]) = answers[r]
    BY <1>2, <2>3
  <2>5. {IF r \in Bodies THEN BodyType(r, memo) ELSE memo[r] : r \in Delegate(q)}
        = {answers[r] : r \in Delegate(q)}
    BY <2>4
  <2>6. Meaning(q, memo) = ReturnOf(q, answers)
    BY <1>4, <2>5 DEF Meaning, ReturnOf
  <2>7. \A r \in Delegate(q) : (IF r \in Bodies THEN AsksNext(r, memo) ELSE {r} \ DOMAIN memo) = {}
    BY <1>2, <2>3
  <2>8. Open(q, memo) = {}
    BY <1>4, <2>7 DEF Open
  <2> QED
    BY <1>4, <2>6, <2>8
<1>5. ASSUME NEW b \in Bodies, NEW type, NEW answers, Extends(answers, memo), q \notin Bodies,
             Delegate(q) = {b}, Walked(b, type, answers), Covered(type, memo[q])
      PROVE  Open(q, memo) = {} /\ Covered(Meaning(q, memo), memo[q])
  <2>1. AsksNext(b, memo) = {} /\ BodyType(b, memo) = type
    BY <1>1, <1>5
  <2>2. \A r \in Delegate(q) : (IF r \in Bodies THEN AsksNext(r, memo) ELSE {r} \ DOMAIN memo) = {}
    BY <1>5, <2>1
  <2>3. Open(q, memo) = {}
    BY <1>5, <2>2 DEF Open
  <2>4. {IF r \in Bodies THEN BodyType(r, memo) ELSE memo[r] : r \in Delegate(q)} = {type}
    BY <1>5, <2>1
  <2>5. Meaning(q, memo) = UnionOf({type})
    BY <1>5, <2>4 DEF Meaning
  <2>6. UNION {type} = type
    OBVIOUS
  <2>7. Covered(UnionOf({type}), memo[q])
    BY <1>5, <2>6 DEF UnionOf, Covered
  <2> QED
    BY <2>3, <2>5, <2>7
<1>6. CASE q \notin Bodies
  <2>1. PICK answers : Backed(q, memo[q], answers) /\ Extends(answers, memo)
    BY DEF MemoStands
  <2>2. CASE Delegate(q) \subseteq DOMAIN answers /\ Covered(ReturnOf(q, answers), memo[q])
    BY <1>4, <1>6, <2>1, <2>2
  <2>3. CASE \E b \in Bodies : \E type :
               Delegate(q) = {b} /\ Walked(b, type, answers) /\ Covered(type, memo[q])
    <3>1. PICK b \in Bodies : \E type :
               Delegate(q) = {b} /\ Walked(b, type, answers) /\ Covered(type, memo[q])
      BY <2>3
    <3>2. PICK type : Delegate(q) = {b} /\ Walked(b, type, answers) /\ Covered(type, memo[q])
      BY <3>1
    <3> QED
      BY <1>5, <1>6, <2>1, <3>2
  <2> QED
    BY <1>6, <2>1, <2>2, <2>3 DEF Backed
<1> QED
  BY <1>3, <1>6

\* The budget is no exception: what is computed is joined, or `mixed` says it.
LEMMA AscendCovers ==
    ASSUME NEW last, NEW computed
    PROVE  Covered(computed, Ascend(last, computed))
<1>1. CASE Union(last, computed) = last
  BY <1>1 DEF Ascend, Union, Covered
<1>2. CASE Union(last, computed) # last
  BY <1>2 DEF Ascend, Union, Covered
<1> QED
  BY <1>1, <1>2

LEMMA CoveredThrough ==
    ASSUME NEW q, NEW answers, NEW value, q \notin Bodies, Delegate(q) \subseteq DOMAIN answers,
           Covered(ReturnOf(q, answers), value)
    PROVE  Backed(q, value, answers)
BY DEF Backed

\* A query that asks for nothing more has what its result is made of.
LEMMA ResultIsBacked ==
    ASSUME EngineInvariant, Sound, stack # << >>, Asks(Top) = {}, ~Mismatch(Top)
    PROVE  /\ Backed(Top.query, Result(Top), Top.answers)
           /\ Top.query \in Returns =>
                 Backed(Top.query, Ascend(provisional[Top.query], Result(Top)), Top.answers)
<1>1. Top = stack[1] /\ stack[1].awaits = {} /\ 1 \in DOMAIN stack
  BY FinishedAwaitsNothing, StackTop DEF EngineInvariant, Shape
<1>2. Proceeds(Top.query, Top.mode) /\ Top.awaits = {}
  BY <1>1 DEF Sound
<1>3. CASE Top.query \in Bodies
  <2>1. /\ Top.query \notin Returns /\ AreCalls(CallsOf(Top.query))
        /\ Top.mode = "computing"
    BY <1>2, <1>3, KindsDiffer DEF Proceeds, IsReal
  <2>2. AsksNext(Top.query, Top.answers) = {} /\ Result(Top) = BodyType(Top.query, Top.answers)
    BY <1>2, <1>3, <2>1 DEF Asks, Result
  <2> QED
    BY <1>3, <2>1, <2>2 DEF Backed, Walked
<1>4. CASE Top.query \notin Bodies /\ Top.mode # "validating"
  <2>1. Top.query \in Returns
    BY <1>2, <1>4 DEF Proceeds, IsReal
  <2>2. Delegate(Top.query) \subseteq DOMAIN Top.answers
    BY <1>2, <1>4, <2>1 DEF Asks
  <2>3. Result(Top) = ReturnOf(Top.query, Top.answers)
    BY <1>4 DEF Result, ReturnOf
  <2>4. Covered(Result(Top), Result(Top))
    BY DEF Covered
  <2> QED
    BY <1>4, <2>2, <2>3, <2>4, AscendCovers, CoveredThrough
<1>5. CASE Top.query \notin Bodies /\ Top.mode = "validating" /\ Top.query \notin Doubted
  <2>1. Top.query \in Returns /\ Speaks(Top.query)
    BY <1>2, <1>5 DEF Proceeds, Doubted
  <2>2. PICK stored, returns :
            stored = records[Top.query].edges /\ returns = records[Top.query].returns
    OBVIOUS
  <2>3. PICK b \in Bodies : Delegate(Top.query) = {b} /\ Walked(b, returns, stored)
    BY <2>1, <2>2 DEF Speaks
  <2>4. Extends(stored, Top.answers)
    <3>1. DOMAIN stored \subseteq DOMAIN Top.answers
      BY <1>2, <1>5, <2>2 DEF Asks
    <3>2. \A q \in DOMAIN Top.answers : Top.answers[q] = stored[q]
      BY <1>5, <2>2 DEF Mismatch
    <3> QED
      BY <3>1, <3>2 DEF Extends
  <2>5. Walked(b, returns, Top.answers)
    <3>1. AreCalls(CallsOf(b)) /\ AsksNext(b, stored) = {} /\ returns = BodyType(b, stored)
      BY <2>3 DEF Walked
    <3>2. HasCode(b)
      BY <3>1, CodeOfReal
    <3>3. AsksNext(b, Top.answers) = {} /\ BodyType(b, Top.answers) = BodyType(b, stored)
      BY <2>4, <3>1, <3>2, BodyExtends
    <3> QED
      BY <3>1, <3>3 DEF Walked
  <2>6. Result(Top) = returns
    BY <1>5, <2>2 DEF Result
  <2>7. /\ Covered(returns, returns)
        /\ Covered(returns, Ascend(provisional[Top.query], returns))
    BY AscendCovers DEF Covered
  <2> QED
    BY <1>5, <2>3, <2>5, <2>6, <2>7 DEF Backed
<1>6. CASE Top.query \notin Bodies /\ Top.query \in Doubted
  BY <1>6 DEF Backed
<1> QED
  BY <1>3, <1>4, <1>5, <1>6

LEMMA EntryIsReal ==
    ASSUME HierarchyInvariant, ~Linearizing, NEW k \in Keys, NEW n \in Names,
           LookupMember(k, n).tier = "source"
    PROVE  LET entry == LookupMember(k, n).entry
           IN  /\ entry.owner \in Keys /\ IsClass(entry.owner)
               /\ \E i \in DOMAIN Declared(entry.owner).own :
                     Declared(entry.owner).own[i] = entry.method
               /\ entry.anchor \in Keys \cup {NoKey}
<1>1. IsClass(k)
  BY DEF LookupMember
<1>2. Linearized(k)
  BY <1>1 DEF Linearizing, ClassKeys
<1>3. /\ tables[k].members[n] # NoEntry
      /\ LookupMember(k, n).entry = tables[k].members[n]
  BY <1>1 DEF LookupMember, FoundIn
<1>4. EntryIsSound(tables[k].members[n], n, k, tables[k].ancestry)
  BY <1>2 DEF HierarchyInvariant, TablesAreSound, EntriesAreSound
<1> QED
  BY <1>3, <1>4 DEF EntryIsSound, DeclaresItself, IsClass

\* A method that is written down is one a class-like names, and has its calls.
LEMMA MethodIsReal ==
    ASSUME NEW k \in Keys, IsClass(k), NEW i \in DOMAIN Declared(k).own,
           NEW class \in Keys \cup {NoKey}
    PROVE  /\ Declared(k).own[i] \in Names
           /\ IsReal(Body(k, Declared(k).own[i], class))
<1> DEFINE m == Declared(k).own[i]
<1>1. Declared(k).own \in Seq(Names) /\ AreCalls(Declared(k).code[m].calls)
  BY HierarchyAssumption, InferenceAssumption DEF IsClass, Declared
<1>2. m \in Names
  BY <1>1, ElementOfSeq, LenProperties
<1>3. m # NoKey
  BY <1>2, HierarchyAssumption
<1> HIDE DEF m
<1>4. CallsOf(Body(k, m, class)) = Declared(k).code[m].calls
  BY <1>3 DEF CallsOf, CodeOf, Body
<1>5. Body(k, m, class) \in Bodies
  BY <1>2 DEF Bodies
<1> QED
  BY <1>1, <1>2, <1>4, <1>5 DEF IsReal, m

LEMMA FunctionIsReal ==
    ASSUME NEW k, IsFunction(k)
    PROVE  IsReal(Body(k, NoKey, NoKey)) /\ FunctionReturn(k) \in Returns
<1>1. k \in Keys /\ AreCalls(FunctionOf[program[k]].calls)
  BY InferenceAssumption DEF IsFunction
<1>2. CallsOf(Body(k, NoKey, NoKey)) = FunctionOf[program[k]].calls
  BY DEF CallsOf, CodeOf, Body
<1>3. Body(k, NoKey, NoKey) \in Bodies /\ FunctionReturn(k) \in Returns
  BY <1>1 DEF Bodies, Returns
<1> QED
  BY <1>1, <1>2, <1>3 DEF IsReal

LEMMA DelegateIsReal ==
    ASSUME HierarchyInvariant, ~Linearizing, NEW q \in Returns, NEW r \in Delegate(q)
    PROVE  IsReal(r)
<1>1. CASE q.kind = "function"
  BY <1>1, FunctionIsReal DEF Delegate
<1>2. CASE q.kind # "function"
  <2>1. PICK k \in Keys, n \in Names : q = MethodReturn(k, n)
    BY <1>2 DEF Returns, FunctionReturn
  <2>2. q.key = k /\ q.name = n
    BY <2>1 DEF MethodReturn
  <2> DEFINE found == LookupMember(k, n)
  <2>3. found.tier = "source"
    BY <1>2, <2>2 DEF Delegate
  <2>4. /\ found.entry.owner \in Keys /\ IsClass(found.entry.owner)
        /\ found.entry.anchor \in Keys \cup {NoKey}
    BY <2>3, EntryIsReal
  <2>5. PICK i \in DOMAIN Declared(found.entry.owner).own :
            Declared(found.entry.owner).own[i] = found.entry.method
    BY <2>3, EntryIsReal
  <2> HIDE DEF found
  <2>6. r = IF found.entry.origin = "inherited" THEN MethodReturn(found.entry.owner, n)
            ELSE BodyOf(found.entry)
    BY <1>2, <2>2, <2>3 DEF Delegate, found
  <2>7. IsReal(BodyOf(found.entry))
    BY <2>4, <2>5, MethodIsReal DEF BodyOf
  <2>8. MethodReturn(found.entry.owner, n) \in Returns
    BY <2>4 DEF Returns
  <2> QED
    BY <2>6, <2>7, <2>8 DEF IsReal
<1> QED
  BY <1>1, <1>2

LEMMA CalleesAreReturns ==
    ASSUME NEW q, AreCalls(CallsOf(q)), NEW i \in DOMAIN CallsOf(q), NEW before
    PROVE  CalleesOf(CallsOf(q)[i], q, before) \subseteq Returns
<1> DEFINE call == CallsOf(q)[i]
<1> SUFFICES ASSUME NEW r \in CalleesOf(call, q, before) PROVE r \in Returns
  OBVIOUS
<1>1. CASE call.on = "function"
  BY <1>1, FunctionIsReal DEF CalleesOf
<1>2. CASE call.on # "function"
  <2>1. call.name \in Names
    BY <1>2 DEF AreCalls
  <2>2. PICK k \in Receivers(call, q, before) : r = MethodReturn(k, call.name)
    BY <1>2 DEF CalleesOf
  <2>3. k \in Keys
    BY <2>2 DEF Receivers, Resolves
  <2> QED
    BY <2>1, <2>2, <2>3 DEF Returns
<1> QED
  BY <1>1, <1>2

LEMMA CalleeIsReal ==
    ASSUME NEW q, AreCalls(CallsOf(q)), NEW answers, NEW r \in AsksNext(q, answers)
    PROVE  r \in Returns
<1> DEFINE types == CallTypes(q, answers)
<1> HIDE DEF types
<1>1. PICK i \in DOMAIN CallsOf(q) : r \in CalleesOf(CallsOf(q)[i], q, types[i - 1])
  BY DEF AsksNext, FirstOpen, Callees, types
<1> QED
  BY <1>1, CalleesAreReturns

\* What a query asks for is a query again.
LEMMA AsksAreReal ==
    ASSUME Standing, Sound, stack # << >>, NEW q \in Asks(Top), Top.awaits = {}
    PROVE  IsReal(q)
<1>1. Top = stack[1] /\ 1 \in DOMAIN stack
  BY StackTop DEF Standing, EngineInvariant, Shape, Top
<1>2. Proceeds(Top.query, Top.mode) /\ ~Linearizing /\ HierarchyInvariant
  BY <1>1 DEF Standing, Sound, Ready
<1>3. CASE Top.mode = "validating"
  <2>1. q \in DOMAIN records[Top.query].edges /\ Top.query \in DOMAIN records
    BY <1>2, <1>3 DEF Asks, Proceeds
  <2> QED
    BY <2>1 DEF Sound, EdgesAreReturns, IsReal
<1>4. CASE Top.mode # "validating" /\ Top.query \in Returns
  BY <1>2, <1>4, DelegateIsReal DEF Asks
<1>5. CASE Top.mode # "validating" /\ Top.query \notin Returns
  BY <1>2, <1>5, CalleeIsReal DEF Asks, IsReal, Proceeds
<1> QED
  BY <1>3, <1>4, <1>5

LEMMA DeclaredIsReal ==
    ASSUME NEW b \in DeclaredBodies
    PROVE  IsReal(b) /\ Owner(b) \in Returns /\ b \in Bodies /\ AreCalls(CallsOf(b))
<1>1. IsReal(b) /\ Owner(b) \in Returns /\ b.kind = "body"
  <2>1. CASE b \in {Body(k, NoKey, NoKey) : k \in {f \in Keys : IsFunction(f)}}
    <3>1. PICK k \in Keys : IsFunction(k) /\ b = Body(k, NoKey, NoKey)
      BY <2>1
    <3>2. Owner(b) = FunctionReturn(k)
      BY <3>1 DEF Owner, Body
    <3> QED
      BY <3>1, <3>2, FunctionIsReal DEF Body
  <2>2. CASE b \in UNION {{Body(k, Declared(k).own[i], NoKey) : i \in DOMAIN Declared(k).own} : k \in ClassKeys}
    <3>0. PICK k \in ClassKeys : \E i \in DOMAIN Declared(k).own : b = Body(k, Declared(k).own[i], NoKey)
      BY <2>2
    <3>1. PICK i \in DOMAIN Declared(k).own : b = Body(k, Declared(k).own[i], NoKey)
      BY <3>0
    <3>2. k \in Keys /\ IsClass(k)
      BY DEF ClassKeys
    <3>3. IsReal(b) /\ Declared(k).own[i] \in Names
      BY <3>1, <3>2, MethodIsReal
    <3>4. Declared(k).own[i] # NoKey
      BY <3>3, HierarchyAssumption
    <3>5. Owner(b) = MethodReturn(k, Declared(k).own[i])
      BY <3>1, <3>4 DEF Owner, Body
    <3> QED
      BY <3>1, <3>2, <3>3, <3>5 DEF Returns, Body
  <2> QED
    BY <2>1, <2>2 DEF DeclaredBodies
<1>2. b \notin Returns
  BY <1>1 DEF Returns, FunctionReturn, MethodReturn
<1> QED
  BY <1>1, <1>2 DEF IsReal

\* What a run demands is a query too.
LEMMA DemandIsReal ==
    ASSUME NEW b \in DeclaredBodies
    PROVE  IsReal(Warmed(b))
BY DeclaredIsReal DEF Warmed, IsReal

LEMMA RealStands ==
    ASSUME UNCHANGED <<program, tables>>
    PROVE  \A q : IsReal(q) => IsReal(q)'
<1>1. \A q : CallsOf(q)' = CallsOf(q)
  BY CodeStands DEF CallsOf
<1> QED
  BY <1>1 DEF IsReal, AreCalls

LEMMA ProceedsStands ==
    ASSUME UNCHANGED <<program, tables, records>>
    PROVE  /\ \A q, mode : Proceeds(q, mode) => Proceeds(q, mode)'
           /\ EdgesAreReturns => EdgesAreReturns'
<1>1. Returns' = Returns
  BY DEF Returns
<1>2. \A q, mode : Proceeds(q, mode) => Proceeds(q, mode)'
  BY <1>1, RealStands, DoubtStands DEF Proceeds
<1>3. EdgesAreReturns => EdgesAreReturns'
  BY <1>1 DEF EdgesAreReturns
<1> QED
  BY <1>2, <1>3

\* A query begins with its signature only if that holds.
LEMMA BeginsSound ==
    ASSUME NEW q, IsReal(q)
    PROVE  /\ Frame(q).query = q /\ Frame(q).heads = {} /\ Frame(q).awaits = {}
           /\ DOMAIN Frame(q).answers = {}
           /\ Proceeds(q, Frame(q).mode)
<1>1. /\ Frame(q).query = q /\ Frame(q).heads = {} /\ Frame(q).awaits = {}
      /\ Frame(q).mode = IF q \in Returns /\ StoredHolds(q) THEN "validating" ELSE "computing"
      /\ Frame(q).answers = << >>
  BY DEF Frame
<1>2. q \in Returns /\ StoredHolds(q) => q \in DOMAIN records \cap Returns
  BY DEF StoredHolds
<1> QED
  BY <1>1, <1>2, EmptyStack DEF Proceeds

\* The query on top is awaited by those below, and none of them rests on it.
LEMMA HeadsLeave ==
    ASSUME EngineInvariant, stack # << >>, NEW i \in DOMAIN stack, i # 1
    PROVE  stack[1].query \notin stack[i].heads
<1>1. 1 \in DOMAIN stack /\ DOMAIN stack = 1..Len(stack)
  BY StackTop DEF EngineInvariant, Shape
<1>2. ASSUME stack[1].query \in stack[i].heads PROVE FALSE
  <2>1. PICK j \in DOMAIN stack : i <= j /\ stack[j].query = stack[1].query
    BY <1>2 DEF EngineInvariant, HeadsBelow
  <2>2. j = 1
    BY <1>1, <2>1 DEF EngineInvariant, OnePlace
  <2> QED
    BY <1>1, <2>1, <2>2
<1> QED
  BY <1>2

\* What an answer of this iteration rests on, if the top carries nothing of it.
LEMMA CarriedElsewhere ==
    ASSUME EngineInvariant, Sound, stack # << >>, NEW q \in DOMAIN scratch,
           NEW h \in scratch[q].heads, ~Carries(1, h)
    PROVE  \E i \in DOMAIN stack : i # 1 /\ scratch[q].heads \subseteq stack[i].heads
<1>1. PICK i \in DOMAIN stack : \A g \in scratch[q].heads : Carries(i, g)
  BY DEF Sound, Together
<1>2. i # 1
  BY <1>1
<1> QED
  BY <1>1, <1>2 DEF Carries

LEMMA OneBelow ==
    ASSUME EngineInvariant, stack # << >>, stack' = Tail(stack), NEW i \in DOMAIN stack, i # 1
    PROVE  /\ i - 1 \in DOMAIN stack' /\ stack'[i - 1] = stack[i]
           /\ 1 \in DOMAIN stack' /\ stack'[1].awaits = {stack[1].query}
<1>1. /\ DOMAIN stack' = 1..(Len(stack) - 1) /\ Len(stack) \in Nat \ {0}
      /\ \A k \in 1..(Len(stack) - 1) : stack'[k] = stack[k + 1]
      /\ DOMAIN stack = 1..Len(stack)
  BY StackPop, StackTop DEF EngineInvariant, Shape
<1>2. /\ i - 1 \in DOMAIN stack' /\ stack'[i - 1] = stack[i]
      /\ 1 \in DOMAIN stack' /\ stack'[1] = stack[2] /\ 2 \in DOMAIN stack
  BY <1>1
<1>3. stack[2].awaits = {stack[2 - 1].query}
  BY <1>2 DEF EngineInvariant, Awaiting
<1> QED
  BY <1>2, <1>3

\* The query on top leaves: what the others hold of other queries still fits.
LEMMA SoundPops ==
    ASSUME EngineInvariant, Sound, stack # << >>, stack' = Tail(stack),
           UNCHANGED <<program, tables, records>>,
           \A p, value, heads : Fits(p, value, heads) /\ stack[1].query \notin heads
               => Fits(p, value, heads)'
    PROVE  /\ EdgesAreReturns'
           /\ \A i \in DOMAIN stack' : Proceeds(stack[i].query, stack[i].mode)'
           /\ FramesFit'
<1>1. \A i \in DOMAIN stack' : i + 1 \in DOMAIN stack /\ i + 1 # 1 /\ stack'[i] = stack[i + 1]
  BY StackPop, StackTop DEF EngineInvariant, Shape
<1>2. \A i \in DOMAIN stack' : Proceeds(stack[i].query, stack[i].mode)'
  <2> TAKE i \in DOMAIN stack'
  <2>1. PICK q, mode : q = stack[i + 1].query /\ mode = stack[i + 1].mode
    OBVIOUS
  <2>2. Proceeds(q, mode)
    BY <1>1, <2>1 DEF Sound
  <2>3. Proceeds(q, mode)'
    BY <2>2, ProceedsStands
  <2> QED
    BY <1>1, <2>1, <2>3
<1>3. FramesFit'
  <2> SUFFICES ASSUME NEW i \in DOMAIN stack', NEW p \in DOMAIN stack'[i].answers
               PROVE  Fits(p, stack[i].answers[p], stack[i].heads)'
    BY DEF FramesFit
  <2>1. PICK value, heads : value = stack[i + 1].answers[p] /\ heads = stack[i + 1].heads
    OBVIOUS
  <2>2. Fits(p, value, heads) /\ stack[1].query \notin heads
    BY <1>1, <2>1, HeadsLeave DEF Sound, FramesFit
  <2>3. Fits(p, value, heads)'
    BY <2>2
  <2>4. value = stack'[i].answers[p] /\ heads = stack'[i].heads
    BY <1>1, <2>1
  <2> QED
    BY <2>3, <2>4
<1> QED
  BY <1>2, <1>3, ProceedsStands DEF Sound

\* And the answers of the iteration that do not rest on it.
LEMMA ScratchKeeps ==
    ASSUME ScratchRests, NEW top,
           UNCHANGED <<program, tables, records>>, NEW q \in DOMAIN scratch, q \in DOMAIN scratch',
           scratch'[q] = scratch[q], top \notin scratch[q].heads,
           \A p, value, heads : Rests(p, value, heads) /\ top \notin heads
               => Rests(p, value, heads)'
    PROVE  \E answers :
              /\ Backed(q, scratch[q].answer, answers)'
              /\ \A p \in DOMAIN answers : Rests(p, answers[p], scratch[q].heads)'
<1>1. PICK answers : /\ Backed(q, scratch[q].answer, answers)
                     /\ \A p \in DOMAIN answers : Rests(p, answers[p], scratch[q].heads)
  BY DEF ScratchRests
<1>2. PICK answer, heads : answer = scratch[q].answer /\ heads = scratch[q].heads
  OBVIOUS
<1>3. answer = scratch'[q].answer /\ heads = scratch'[q].heads /\ top \notin heads
  BY <1>2
<1>4. Backed(q, answer, answers)'
  BY <1>1, <1>2, BackedStands
<1>5. \A p \in DOMAIN answers : Rests(p, answers[p], heads)'
  BY <1>1, <1>2, <1>3
<1> QED
  BY <1>3, <1>4, <1>5

LEMMA MemoKeeps ==
    ASSUME UNCHANGED <<program, tables, records>>, MemoStands, Extends(memo, memo'), NEW q \in DOMAIN memo
    PROVE  \E answers : Backed(q, memo[q], answers)' /\ Extends(answers, memo)'
<1>1. PICK answers : Backed(q, memo[q], answers) /\ Extends(answers, memo)
  BY DEF MemoStands
<1>2. PICK value : value = memo[q] /\ value = memo'[q]
  BY DEF Extends
<1>3. Backed(q, value, answers)'
  BY <1>1, <1>2, BackedStands
<1>4. Extends(answers, memo')
  BY <1>1 DEF Extends
<1>5. Extends(answers, memo)'
  BY <1>4 DEF Extends
<1> QED
  BY <1>2, <1>3, <1>5

\* What rests on the queries below the top goes on resting on them.
LEMMA RestsBelow ==
    ASSUME EngineInvariant, stack # << >>, stack' = Tail(stack), NEW heads,
           NEW i \in DOMAIN stack, i # 1, heads \subseteq stack[i].heads
    PROVE  /\ stack[1].query \notin heads
           /\ \E k \in DOMAIN stack' : \A h \in heads : Carries(k, h)'
<1>1. stack[1].query \notin heads
  BY HeadsLeave
<1>2. i - 1 \in DOMAIN stack' /\ stack'[i - 1] = stack[i]
  BY OneBelow
<1>3. \A h \in heads : Carries(i - 1, h)'
  BY <1>2 DEF Carries
<1> QED
  BY <1>1, <1>2, <1>3

\* The facts of a query that has nothing more to ask.
LEMMA TopFacts ==
    ASSUME Standing, stack # << >>, Asks(Top) = {}
    PROVE  /\ EngineInvariant /\ Top = stack[1] /\ 1 \in DOMAIN stack
           /\ stack[1].awaits = {}
           /\ stack[1].query \notin DOMAIN memo \cup DOMAIN scratch
           /\ \A h : Carries(1, h) <=> h \in stack[1].heads
           /\ \A q \in DOMAIN scratch : scratch[q].heads # {} /\ scratch[q].heads \subseteq Returns
<1>1. EngineInvariant
  BY DEF Standing
<1>2. Top = stack[1] /\ stack[1].awaits = {} /\ 1 \in DOMAIN stack
  BY <1>1, FinishedAwaitsNothing, StackTop DEF EngineInvariant, Shape
<1>3. \A h : Carries(1, h) <=> h \in stack[1].heads
  BY <1>2 DEF Carries
<1>4. \A q \in DOMAIN scratch : scratch[q].heads # {} /\ scratch[q].heads \subseteq Returns
  BY <1>1 DEF EngineInvariant, ScratchCarried
<1> QED
  BY <1>1, <1>2, <1>3, <1>4 DEF EngineInvariant, OnePlace

LEMMA FinishIsSound ==
    ASSUME Standing, Sound, Finish
    PROVE  Sound'
<1> DEFINE top == stack[1].query
<1>1. /\ stack # << >> /\ Asks(Top) = {} /\ ~Mismatch(Top) /\ Top.heads = {} /\ stack' = Tail(stack)
      /\ memo' = With(memo, Top.query, Result(Top))
      /\ UNCHANGED <<program, tables, records, scratch, provisional, moved>>
  BY DEF Finish, Finished, Working, saved, hierarchy
<1>2. /\ EngineInvariant /\ Top = stack[1] /\ 1 \in DOMAIN stack /\ stack[1].awaits = {}
      /\ top \notin DOMAIN memo \cup DOMAIN scratch /\ stack[1].heads = {}
      /\ \A h : ~Carries(1, h)
      /\ \A q \in DOMAIN scratch : scratch[q].heads # {}
  BY <1>1, TopFacts
<1>3. /\ DOMAIN memo' = DOMAIN memo \cup {top} /\ memo'[top] = Result(Top)
      /\ \A q \in DOMAIN memo : memo'[q] = memo[q]
      /\ Extends(memo, memo')
  BY <1>1, <1>2 DEF With, Extends
<1>4. \A p, value, heads : Fits(p, value, heads) /\ top \notin heads => Fits(p, value, heads)'
  BY <1>1, <1>2, <1>3 DEF Fits
<1>5. \A p, value, heads : Rests(p, value, heads) /\ top \notin heads => Rests(p, value, heads)'
  BY <1>1, <1>2, <1>3 DEF Rests
<1>6. ASSUME NEW q \in DOMAIN scratch
      PROVE  \E i \in DOMAIN stack : i # 1 /\ scratch[q].heads \subseteq stack[i].heads
  <2>1. PICK h : h \in scratch[q].heads
    BY <1>2
  <2> QED
    BY <1>1, <1>2, <2>1, CarriedElsewhere
<1>7. Together'
  <2> SUFFICES ASSUME NEW q \in DOMAIN scratch
               PROVE  \E k \in DOMAIN stack' : \A h \in scratch[q].heads : Carries(k, h)'
    BY <1>1 DEF Together
  <2> QED
    BY <1>1, <1>2, <1>6, RestsBelow
<1>8. ScratchRests'
  <2> SUFFICES ASSUME NEW q \in DOMAIN scratch
               PROVE  (\E answers :
                          /\ Backed(q, scratch[q].answer, answers)
                          /\ \A p \in DOMAIN answers : Rests(p, answers[p], scratch[q].heads))'
    BY <1>1 DEF ScratchRests
  <2>1. top \notin scratch[q].heads
    BY <1>1, <1>2, <1>6, HeadsLeave
  <2> HIDE DEF top
  <2> QED
    BY <1>1, <1>5, <2>1, ScratchKeeps DEF Sound
<1>9. MemoStands'
  <2> SUFFICES ASSUME NEW q \in DOMAIN memo'
               PROVE  (\E answers : Backed(q, memo[q], answers) /\ Extends(answers, memo))'
    BY DEF MemoStands
  <2>1. CASE q \in DOMAIN memo
    <3>1. \E answers : Backed(q, memo[q], answers)' /\ Extends(answers, memo)'
      BY <1>1, <1>3, <2>1, MemoKeeps DEF Sound
    <3> QED
      BY <3>1
  <2>2. CASE q = top
    <3>1. PICK value, answers : value = Result(Top) /\ answers = Top.answers
      OBVIOUS
    <3>2. Backed(top, value, answers)
      BY <1>1, <1>2, <3>1, ResultIsBacked
    <3>3. \A p \in DOMAIN answers : p \in DOMAIN memo /\ answers[p] = memo[p]
      <4> TAKE p \in DOMAIN answers
      <4>1. Fits(p, answers[p], {})
        BY <1>2, <3>1 DEF Sound, FramesFit
      <4> QED
        BY <1>2, <4>1 DEF Fits
    <3>4. Extends(answers, memo')
      BY <1>3, <3>3 DEF Extends
    <3>5. Extends(answers, memo)'
      BY <3>4 DEF Extends
    <3>6. Backed(q, value, answers)' /\ value = memo'[q]
      BY <1>1, <1>3, <2>2, <3>1, <3>2, BackedStands
    <3> QED
      BY <3>5, <3>6
  <2> QED
    BY <1>3, <2>1, <2>2
<1> HIDE DEF top
<1>10. /\ EdgesAreReturns'
       /\ \A i \in DOMAIN stack' : Proceeds(stack[i].query, stack[i].mode)'
       /\ FramesFit'
  BY <1>1, <1>2, <1>4, SoundPops DEF top
<1> QED
  BY <1>7, <1>8, <1>9, <1>10 DEF Sound

----------------------------------------------------------------------------
(* Its steps                                                               *)

\* The answers an active query holds back one of the iteration.
LEMMA FrameBacks ==
    ASSUME EngineInvariant, Sound, stack # << >>
    PROVE  \A p \in DOMAIN stack[1].answers : Fits(p, stack[1].answers[p], stack[1].heads)
BY StackTop DEF EngineInvariant, Shape, Sound, FramesFit

LEMMA ParticipateIsSound ==
    ASSUME Standing, Sound, Participate
    PROVE  Sound'
<1> DEFINE top == stack[1].query
<1>1. /\ stack # << >> /\ Asks(Top) = {} /\ ~Mismatch(Top) /\ Top.heads # {} /\ Top.query \notin Top.heads
      /\ stack' = Tail(stack)
      /\ scratch' = With(scratch, Top.query, [answer |-> Result(Top), heads |-> Top.heads])
      /\ provisional' = [provisional EXCEPT ![Top.query] = Never]
      /\ UNCHANGED <<program, tables, records, memo, moved>>
  BY DEF Participate, Finished, Working, saved, hierarchy
<1>2. /\ EngineInvariant /\ Top = stack[1] /\ 1 \in DOMAIN stack /\ stack[1].awaits = {}
      /\ top \notin DOMAIN memo \cup DOMAIN scratch
      /\ \A h : Carries(1, h) <=> h \in stack[1].heads
      /\ \A q \in DOMAIN scratch : scratch[q].heads # {}
  BY <1>1, TopFacts
<1>3. /\ DOMAIN scratch' = DOMAIN scratch \cup {top}
      /\ scratch'[top].answer = Result(Top) /\ scratch'[top].heads = stack[1].heads
      /\ \A q \in DOMAIN scratch : scratch'[q] = scratch[q]
      /\ \A p : p # top => provisional'[p] = provisional[p]
  BY <1>1, <1>2 DEF With
<1>4. \A p, value, heads : Fits(p, value, heads) /\ top \notin heads => Fits(p, value, heads)'
  BY <1>1, <1>2, <1>3 DEF Fits
<1>5. \A p, value, heads : Rests(p, value, heads) /\ top \notin heads => Rests(p, value, heads)'
  BY <1>1, <1>2, <1>3 DEF Rests
<1>6. ASSUME NEW q \in DOMAIN scratch
      PROVE  \/ scratch[q].heads \subseteq stack[1].heads
             \/ \E i \in DOMAIN stack : i # 1 /\ scratch[q].heads \subseteq stack[i].heads
  <2>1. CASE \A h \in scratch[q].heads : Carries(1, h)
    BY <1>2, <2>1
  <2>2. CASE ~\A h \in scratch[q].heads : Carries(1, h)
    BY <1>1, <1>2, <2>2, CarriedElsewhere
  <2> QED
    BY <2>1, <2>2
<1>7. \A q \in DOMAIN scratch : top \notin scratch[q].heads
  BY <1>1, <1>2, <1>6, HeadsLeave
<1>8. ASSUME NEW heads, heads \subseteq stack[1].heads
      PROVE  \E k \in DOMAIN stack' : \A h \in heads : Carries(k, h)'
  <2>1. PICK h : h \in stack[1].heads /\ h # top
    BY <1>1, <1>2
  <2>2. PICK j \in DOMAIN stack : stack[j].query = h
    BY <1>2, <2>1 DEF EngineInvariant, HeadsBelow
  <2>3. j # 1
    BY <2>1, <2>2
  <2>4. 1 \in DOMAIN stack' /\ stack'[1].awaits = {top}
    BY <1>1, <1>2, <2>3, OneBelow
  <2>5. \A g \in heads : Carries(1, g)'
    BY <1>3, <1>8, <2>4 DEF Carries
  <2> QED
    BY <2>4, <2>5
<1>9. Together'
  <2> SUFFICES ASSUME NEW q \in DOMAIN scratch'
               PROVE  \E k \in DOMAIN stack' : \A h \in scratch'[q].heads : Carries(k, h)'
    BY DEF Together
  <2>1. CASE q = top
    BY <1>3, <1>8, <2>1
  <2>2. CASE q \in DOMAIN scratch
    BY <1>1, <1>2, <1>3, <1>6, <1>8, <2>2, RestsBelow
  <2> QED
    BY <1>3, <2>1, <2>2
<1>10. ScratchRests'
  <2> SUFFICES ASSUME NEW q \in DOMAIN scratch'
               PROVE  (\E answers :
                          /\ Backed(q, scratch[q].answer, answers)
                          /\ \A p \in DOMAIN answers : Rests(p, answers[p], scratch[q].heads))'
    BY DEF ScratchRests
  <2>1. CASE q \in DOMAIN scratch
    <3>1. top \notin scratch[q].heads /\ scratch'[q] = scratch[q]
      BY <1>3, <1>7, <2>1
    <3> HIDE DEF top
    <3>2. \E answers :
              /\ Backed(q, scratch[q].answer, answers)'
              /\ \A p \in DOMAIN answers : Rests(p, answers[p], scratch[q].heads)'
      BY <1>1, <1>5, <2>1, <3>1, ScratchKeeps DEF Sound
    <3> QED
      BY <3>2
  <2>2. CASE q = top
    <3>1. PICK value, answers, heads :
              value = Result(Top) /\ answers = Top.answers /\ heads = stack[1].heads
      OBVIOUS
    <3>2. Backed(top, value, answers)
      BY <1>1, <1>2, <3>1, ResultIsBacked
    <3>3. \A p \in DOMAIN answers : Rests(p, answers[p], heads)'
      <4> TAKE p \in DOMAIN answers
      <4>1. Fits(p, answers[p], heads)
        BY <1>1, <1>2, <3>1, FrameBacks
      <4>2. Rests(p, answers[p], heads)
        BY <4>1 DEF Fits, Rests
      <4>3. top \notin heads
        BY <1>1, <1>2, <3>1
      <4> QED
        BY <1>5, <4>2, <4>3
    <3>4. Backed(q, value, answers)'
      BY <1>1, <2>2, <3>2, BackedStands
    <3>5. value = scratch'[q].answer /\ heads = scratch'[q].heads
      BY <1>3, <2>2, <3>1
    <3> HIDE DEF top
    <3> QED
      BY <3>3, <3>4, <3>5
  <2> QED
    BY <1>3, <2>1, <2>2
<1>11. MemoStands'
  <2> SUFFICES ASSUME NEW q \in DOMAIN memo
               PROVE  (\E answers : Backed(q, memo[q], answers) /\ Extends(answers, memo))'
    BY <1>1 DEF MemoStands
  <2>1. Extends(memo, memo')
    BY <1>1 DEF Extends
  <2>2. \E answers : Backed(q, memo[q], answers)' /\ Extends(answers, memo)'
    BY <1>1, <2>1, MemoKeeps DEF Sound
  <2> QED
    BY <2>2
<1> HIDE DEF top
<1>12. /\ EdgesAreReturns'
       /\ \A i \in DOMAIN stack' : Proceeds(stack[i].query, stack[i].mode)'
       /\ FramesFit'
  BY <1>1, <1>2, <1>4, SoundPops DEF top
<1> QED
  BY <1>9, <1>10, <1>11, <1>12 DEF Sound

\* What rests on the head of an outermost cycle rests on nothing else, and what
\* does not rest on it rests on the queries below.
LEMMA CycleOrBelow ==
    ASSUME Standing, Sound, Outermost, NEW q \in DOMAIN scratch
    PROVE  IF q \in Resting THEN scratch[q].heads = {stack[1].query}
           ELSE \E i \in DOMAIN stack : i # 1 /\ scratch[q].heads \subseteq stack[i].heads
<1> DEFINE top == stack[1].query
<1>1. stack # << >> /\ Asks(Top) = {} /\ Top.heads = {Top.query}
  BY DEF Outermost, Finished, Working
<1>2. /\ EngineInvariant /\ Top = stack[1]
      /\ \A h : Carries(1, h) <=> h \in stack[1].heads
      /\ scratch[q].heads # {}
  BY <1>1, TopFacts
<1>3. q \in Resting <=> top \in scratch[q].heads
  BY <1>2 DEF Resting
<1>4. CASE \A h \in scratch[q].heads : Carries(1, h)
  <2>1. scratch[q].heads \subseteq {top}
    BY <1>1, <1>2, <1>4
  <2> QED
    BY <1>2, <1>3, <2>1
<1>5. CASE ~\A h \in scratch[q].heads : Carries(1, h)
  <2>1. PICK i \in DOMAIN stack : i # 1 /\ scratch[q].heads \subseteq stack[i].heads
    BY <1>1, <1>2, <1>5, CarriedElsewhere
  <2>2. top \notin scratch[q].heads
    BY <1>1, <1>2, <2>1, HeadsLeave
  <2> QED
    BY <1>3, <2>1, <2>2
<1> QED
  BY <1>4, <1>5

LEMMA ConvergeIsSound ==
    ASSUME Standing, Sound, Converge
    PROVE  Sound'
<1> DEFINE top == stack[1].query
<1>0. Outermost /\ Stable
  BY DEF Converge
<1>1. /\ stack # << >> /\ Asks(Top) = {} /\ ~Mismatch(Top) /\ Top.heads = {Top.query} /\ stack' = Tail(stack)
      /\ memo' = [q \in DOMAIN memo \cup Cycle |->
            IF q = Top.query THEN Ascended
            ELSE IF q \in Resting THEN scratch[q].answer ELSE memo[q]]
      /\ scratch' = Left
      /\ provisional' = [q \in Returns |-> IF q \in Cycle THEN Never ELSE provisional[q]]
      /\ UNCHANGED <<program, tables, records, moved>>
  BY DEF Converge, Outermost, Finished, Working, saved, hierarchy
<1>2. /\ EngineInvariant /\ Top = stack[1] /\ 1 \in DOMAIN stack /\ stack[1].awaits = {}
      /\ top \notin DOMAIN memo \cup DOMAIN scratch
      /\ \A q \in DOMAIN scratch : scratch[q].heads # {}
      /\ DOMAIN memo \cap DOMAIN scratch = {} /\ top \in Returns
  <2>1. /\ EngineInvariant /\ Top = stack[1] /\ 1 \in DOMAIN stack /\ stack[1].awaits = {}
        /\ top \notin DOMAIN memo \cup DOMAIN scratch
        /\ \A q \in DOMAIN scratch : scratch[q].heads # {}
    BY <1>1, TopFacts
  <2>2. top \in Returns
    BY <1>1, <2>1 DEF EngineInvariant, HeadsBelow
  <2> QED
    BY <2>1, <2>2 DEF EngineInvariant, OnePlace
<1>3. /\ Resting = {q \in DOMAIN scratch : top \in scratch[q].heads} /\ Cycle = Resting \cup {top}
      /\ DOMAIN scratch' = DOMAIN scratch \ Resting
      /\ \A q \in DOMAIN scratch \ Resting : scratch'[q] = scratch[q]
      /\ DOMAIN memo' = DOMAIN memo \cup Resting \cup {top} /\ memo'[top] = Ascended
      /\ \A q \in Resting : memo'[q] = scratch[q].answer
      /\ \A q \in DOMAIN memo : memo'[q] = memo[q]
  BY <1>1, <1>2 DEF Resting, Cycle, Left
<1>4. \A p \in Returns \ (Resting \cup {top}) : provisional'[p] = provisional[p]
  BY <1>1, <1>3
<1>5. \A p, value, heads : Fits(p, value, heads) /\ top \notin heads => Fits(p, value, heads)'
  BY <1>1, <1>2, <1>3, <1>4 DEF Fits
<1>6. \A p, value, heads : Rests(p, value, heads) /\ top \notin heads => Rests(p, value, heads)'
  BY <1>1, <1>2, <1>3, <1>4 DEF Rests
<1>7. Together'
  <2> SUFFICES ASSUME NEW q \in DOMAIN scratch'
               PROVE  \E k \in DOMAIN stack' : \A h \in scratch[q].heads : Carries(k, h)'
    BY <1>3 DEF Together
  <2>1. \E i \in DOMAIN stack : i # 1 /\ scratch[q].heads \subseteq stack[i].heads
    BY <1>0, <1>3, CycleOrBelow
  <2> QED
    BY <1>1, <1>2, <2>1, RestsBelow
<1>8. ScratchRests'
  <2> SUFFICES ASSUME NEW q \in DOMAIN scratch'
               PROVE  (\E answers :
                          /\ Backed(q, scratch[q].answer, answers)
                          /\ \A p \in DOMAIN answers : Rests(p, answers[p], scratch[q].heads))'
    BY DEF ScratchRests
  <2>1. q \in DOMAIN scratch /\ scratch'[q] = scratch[q] /\ top \notin scratch[q].heads
    BY <1>3
  <2> HIDE DEF top
  <2>2. \E answers :
            /\ Backed(q, scratch[q].answer, answers)'
            /\ \A p \in DOMAIN answers : Rests(p, answers[p], scratch[q].heads)'
    BY <1>1, <1>6, <2>1, ScratchKeeps DEF Sound
  <2> QED
    BY <2>2
<1>9. ASSUME NEW p, NEW value, Rests(p, value, {top}) \/ Fits(p, value, {top})
      PROVE  p \in DOMAIN memo' /\ value = memo'[p]
  <2>1. CASE p \in DOMAIN memo
    BY <1>2, <1>3, <1>9, <2>1 DEF Fits, Rests
  <2>2. CASE p \in DOMAIN scratch
    <3>1. scratch[p].heads \subseteq {top} /\ (value = scratch[p].answer \/ p \in moved)
      BY <1>2, <1>9, <2>2 DEF Fits, Rests
    <3>2. p \in Resting
      BY <1>2, <1>3, <2>2, <3>1
    <3>3. p \notin moved
      BY <1>0, <3>2 DEF Stable
    <3> QED
      BY <1>3, <3>1, <3>2, <3>3
  <2>3. CASE p \notin DOMAIN memo \cup DOMAIN scratch
    <3>1. p = top /\ value = provisional[top]
      BY <1>9, <2>3 DEF Fits, Rests
    <3>2. Ascended = provisional[top]
      BY <1>0, <1>2 DEF Stable
    <3> QED
      BY <1>3, <3>1, <3>2
  <2> QED
    BY <2>1, <2>2, <2>3
<1>10. MemoStands'
  <2> SUFFICES ASSUME NEW q \in DOMAIN memo'
               PROVE  (\E answers : Backed(q, memo[q], answers) /\ Extends(answers, memo))'
    BY DEF MemoStands
  <2>1. CASE q \in DOMAIN memo
    <3>1. Extends(memo, memo')
      BY <1>3 DEF Extends
    <3>2. \E answers : Backed(q, memo[q], answers)' /\ Extends(answers, memo)'
      BY <1>1, <2>1, <3>1, MemoKeeps DEF Sound
    <3> QED
      BY <3>2
  <2>2. ASSUME NEW value, NEW answers, value = memo'[q], Backed(q, value, answers),
               \A p \in DOMAIN answers : Rests(p, answers[p], {top}) \/ Fits(p, answers[p], {top})
        PROVE  (\E all : Backed(q, memo[q], all) /\ Extends(all, memo))'
    <3>1. Extends(answers, memo')
      BY <1>9, <2>2 DEF Extends
    <3>2. Extends(answers, memo)'
      BY <3>1 DEF Extends
    <3>3. Backed(q, value, answers)'
      BY <1>1, <2>2, BackedStands
    <3> QED
      BY <2>2, <3>2, <3>3
  <2>3. CASE q \in Resting
    <3>1. q \in DOMAIN scratch /\ scratch[q].heads = {top}
      BY <1>0, <1>3, <2>3, CycleOrBelow
    <3>2. PICK answers : /\ Backed(q, scratch[q].answer, answers)
                         /\ \A p \in DOMAIN answers : Rests(p, answers[p], scratch[q].heads)
      BY <3>1 DEF Sound, ScratchRests
    <3>3. PICK value : value = scratch[q].answer /\ value = memo'[q]
      BY <1>3, <2>3
    <3> HIDE DEF top
    <3> QED
      BY <2>2, <3>1, <3>2, <3>3
  <2>4. CASE q = top
    <3>1. PICK value, answers : value = Ascended /\ answers = Top.answers
      OBVIOUS
    <3>2. Backed(q, value, answers)
      BY <1>1, <1>2, <2>4, <3>1, ResultIsBacked DEF Ascended
    <3>3. \A p \in DOMAIN answers : Fits(p, answers[p], {top})
      BY <1>1, <1>2, <3>1, FrameBacks
    <3>4. value = memo'[q]
      BY <1>3, <2>4, <3>1
    <3> HIDE DEF top
    <3> QED
      BY <2>2, <3>2, <3>3, <3>4
  <2> QED
    BY <1>3, <2>1, <2>3, <2>4
<1> HIDE DEF top
<1>11. /\ EdgesAreReturns'
       /\ \A i \in DOMAIN stack' : Proceeds(stack[i].query, stack[i].mode)'
       /\ FramesFit'
  BY <1>1, <1>2, <1>5, SoundPops DEF top
<1> QED
  BY <1>7, <1>8, <1>10, <1>11 DEF Sound

LEMMA AscendIsSound ==
    ASSUME Standing, Sound, AscendInside
    PROVE  Sound'
<1> DEFINE top == stack[1].query
           outer == stack[1].heads \ {stack[1].query}
           Through(heads) == IF top \in heads THEN (heads \ {top}) \cup outer ELSE heads
<1>1. /\ stack # << >> /\ Asks(Top) = {} /\ ~Mismatch(Top) /\ Top.query \in Top.heads /\ Outer # {}
      /\ stack' = Tail(stack)
      /\ provisional' = [provisional EXCEPT ![Top.query] = Ascended]
      /\ moved' = IF Ascended = provisional[Top.query] THEN moved ELSE moved \cup {Top.query}
      /\ scratch' = With(
            [q \in DOMAIN scratch |->
                IF Top.query \in scratch[q].heads
                THEN [scratch[q] EXCEPT !.heads = (@ \ {Top.query}) \cup Outer]
                ELSE scratch[q]],
            Top.query, [answer |-> Ascended, heads |-> Outer])
      /\ UNCHANGED <<program, tables, records, memo>>
  BY DEF AscendInside, Finished, Working, saved, hierarchy
<1>2. /\ EngineInvariant /\ Top = stack[1] /\ 1 \in DOMAIN stack /\ stack[1].awaits = {}
      /\ top \notin DOMAIN memo \cup DOMAIN scratch
      /\ \A h : Carries(1, h) <=> h \in stack[1].heads
      /\ \A q \in DOMAIN scratch : scratch[q].heads # {} /\ IsAnswer(scratch[q])
      /\ top \in Returns
  <2>1. /\ EngineInvariant /\ Top = stack[1] /\ 1 \in DOMAIN stack /\ stack[1].awaits = {}
        /\ top \notin DOMAIN memo \cup DOMAIN scratch
        /\ \A h : Carries(1, h) <=> h \in stack[1].heads
        /\ \A q \in DOMAIN scratch : scratch[q].heads # {}
    BY <1>1, TopFacts
  <2>2. top \in Returns
    BY <1>1, <2>1 DEF EngineInvariant, HeadsBelow
  <2> QED
    BY <2>1, <2>2 DEF EngineInvariant, Shape
<1>3. /\ Outer = outer /\ outer # {} /\ top \in stack[1].heads
      /\ DOMAIN scratch' = DOMAIN scratch \cup {top}
      /\ scratch'[top] = [answer |-> Ascended, heads |-> outer]
      /\ \A q \in DOMAIN scratch :
            scratch'[q] = IF top \in scratch[q].heads
                          THEN [scratch[q] EXCEPT !.heads = (@ \ {top}) \cup outer]
                          ELSE scratch[q]
  BY <1>1, <1>2 DEF With, Outer
<1>4. /\ scratch'[top].answer = Ascended /\ scratch'[top].heads = outer
      /\ \A q \in DOMAIN scratch : /\ scratch'[q].answer = scratch[q].answer
                                   /\ scratch'[q].heads = Through(scratch[q].heads)
      /\ \A q \in DOMAIN scratch : top \notin scratch[q].heads => scratch'[q] = scratch[q]
  <2>1. ASSUME NEW q \in DOMAIN scratch
        PROVE  /\ scratch'[q].answer = scratch[q].answer
               /\ scratch'[q].heads = Through(scratch[q].heads)
    <3>1. CASE top \in scratch[q].heads
      <4> DEFINE through == (scratch[q].heads \ {top}) \cup outer
      <4>1. scratch'[q] = [scratch[q] EXCEPT !.heads = through]
        BY <1>3, <3>1
      <4> HIDE DEF through
      <4>2. scratch'[q].answer = scratch[q].answer /\ scratch'[q].heads = through
        BY <1>2, <4>1 DEF IsAnswer
      <4> QED
        BY <3>1, <4>2 DEF through
    <3>2. CASE top \notin scratch[q].heads
      BY <1>3, <3>2
    <3> QED
      BY <3>1, <3>2
  <2>2. scratch'[top].answer = Ascended /\ scratch'[top].heads = outer
    BY <1>3
  <2> QED
    BY <1>3, <2>1, <2>2
<1>5. /\ \A p : p # top => provisional'[p] = provisional[p]
      /\ moved \subseteq moved'
      /\ Ascended = provisional[top] \/ top \in moved'
  BY <1>1, <1>2
<1>6. \A p, value, heads : Fits(p, value, heads) /\ top \notin heads => Fits(p, value, heads)'
  <2> SUFFICES ASSUME NEW p, NEW value, NEW heads, Fits(p, value, heads), top \notin heads
               PROVE  Fits(p, value, heads)'
    OBVIOUS
  <2>1. CASE p \in DOMAIN memo /\ value = memo[p]
    BY <1>1, <2>1 DEF Fits
  <2>2. CASE p \in DOMAIN scratch /\ value = scratch[p].answer /\ scratch[p].heads \subseteq heads
    <3>1. p \in DOMAIN scratch' /\ scratch'[p] = scratch[p]
      BY <1>3, <1>4, <2>2
    <3> QED
      BY <2>2, <3>1 DEF Fits
  <2>3. CASE /\ p \in (heads \cap Returns) \ (DOMAIN memo \cup DOMAIN scratch)
             /\ value = provisional[p]
    <3>1. p \notin DOMAIN scratch' /\ provisional'[p] = provisional[p]
      BY <1>3, <1>5, <2>3
    <3> QED
      BY <1>1, <2>3, <3>1 DEF Fits
  <2> QED
    BY <2>1, <2>2, <2>3 DEF Fits
<1>7. ASSUME NEW p, NEW value, NEW heads, NEW later, later = Through(heads),
             Fits(p, value, heads) \/ Rests(p, value, heads)
      PROVE  Rests(p, value, later)'
  <2>1. CASE p \in DOMAIN memo
    <3>1. value = memo[p] \/ p \in DOMAIN scratch
      BY <1>7, <2>1 DEF Fits, Rests
    <3>2. p \notin DOMAIN scratch
      BY <1>2, <2>1 DEF EngineInvariant, OnePlace
    <3> QED
      BY <1>1, <2>1, <3>1, <3>2 DEF Rests
  <2>2. CASE p \in DOMAIN scratch
    <3>0. p \notin DOMAIN memo
      BY <1>2, <2>2 DEF EngineInvariant, OnePlace
    <3>1. scratch[p].heads \subseteq heads /\ (value = scratch[p].answer \/ p \in moved)
      BY <1>7, <2>2, <3>0 DEF Fits, Rests
    <3>2. scratch'[p].heads \subseteq later
      BY <1>4, <1>7, <2>2, <3>1
    <3>3. p \in DOMAIN scratch' /\ (value = scratch'[p].answer \/ p \in moved')
      BY <1>3, <1>4, <1>5, <2>2, <3>1
    <3> QED
      BY <3>2, <3>3 DEF Rests
  <2>3. CASE p \notin DOMAIN memo \cup DOMAIN scratch
    <3>1. p \in heads \cap Returns /\ value = provisional[p]
      BY <1>7, <2>3 DEF Fits, Rests
    <3>2. CASE p = top
      <4>1. scratch'[p].heads \subseteq later /\ p \in DOMAIN scratch'
        BY <1>3, <1>4, <1>7, <3>1, <3>2
      <4>2. value = scratch'[p].answer \/ p \in moved'
        BY <1>4, <1>5, <3>1, <3>2
      <4> QED
        BY <4>1, <4>2 DEF Rests
    <3>3. CASE p # top
      <4>1. p \in (later \cap Returns) \ (DOMAIN memo' \cup DOMAIN scratch')
        BY <1>1, <1>3, <1>7, <2>3, <3>1, <3>3
      <4>2. value = provisional'[p]
        BY <1>5, <3>1, <3>3
      <4> QED
        BY <4>1, <4>2 DEF Rests
    <3> QED
      BY <3>2, <3>3
  <2> QED
    BY <2>1, <2>2, <2>3
<1>8. ASSUME NEW heads, heads \subseteq outer
      PROVE  \E k \in DOMAIN stack' : \A h \in heads : Carries(k, h)'
  <2>1. PICK h : h \in stack[1].heads /\ h # top
    BY <1>3
  <2>2. PICK j \in DOMAIN stack : stack[j].query = h
    BY <1>2, <2>1 DEF EngineInvariant, HeadsBelow
  <2>3. j # 1
    BY <2>1, <2>2
  <2>4. 1 \in DOMAIN stack' /\ stack'[1].awaits = {top}
    BY <1>1, <1>2, <2>3, OneBelow
  <2>5. \A g \in heads : Carries(1, g)'
    BY <1>3, <1>4, <1>8, <2>4 DEF Carries
  <2> QED
    BY <2>4, <2>5
<1>9. Together'
  <2> SUFFICES ASSUME NEW q \in DOMAIN scratch'
               PROVE  \E k \in DOMAIN stack' : \A h \in scratch'[q].heads : Carries(k, h)'
    BY DEF Together
  <2>1. CASE q = top
    BY <1>4, <1>8, <2>1
  <2>2. CASE q \in DOMAIN scratch /\ \A h \in scratch[q].heads : Carries(1, h)
    <3>1. scratch'[q].heads \subseteq outer
      BY <1>2, <1>4, <2>2
    <3> QED
      BY <1>8, <3>1
  <2>3. CASE q \in DOMAIN scratch /\ ~\A h \in scratch[q].heads : Carries(1, h)
    <3>1. PICK i \in DOMAIN stack : i # 1 /\ scratch[q].heads \subseteq stack[i].heads
      BY <1>1, <1>2, <2>3, CarriedElsewhere
    <3>2. /\ top \notin scratch[q].heads
          /\ \E k \in DOMAIN stack' : \A h \in scratch[q].heads : Carries(k, h)'
      BY <1>1, <1>2, <3>1, RestsBelow
    <3> QED
      BY <1>4, <2>3, <3>2
  <2> QED
    BY <1>3, <2>1, <2>2, <2>3
<1>10. ScratchRests'
  <2> SUFFICES ASSUME NEW q \in DOMAIN scratch'
               PROVE  (\E answers :
                          /\ Backed(q, scratch[q].answer, answers)
                          /\ \A p \in DOMAIN answers : Rests(p, answers[p], scratch[q].heads))'
    BY DEF ScratchRests
  <2>1. ASSUME NEW value, NEW answers, NEW later, Backed(q, value, answers),
               value = scratch'[q].answer, later = scratch'[q].heads,
               \A p \in DOMAIN answers : Rests(p, answers[p], later)'
        PROVE  (\E all : /\ Backed(q, scratch[q].answer, all)
                         /\ \A p \in DOMAIN all : Rests(p, all[p], scratch[q].heads))'
    <3>1. Backed(q, value, answers)'
      BY <1>1, <2>1, BackedStands
    <3> QED
      BY <2>1, <3>1
  <2>2. CASE q \in DOMAIN scratch
    <3>1. PICK answers : /\ Backed(q, scratch[q].answer, answers)
                         /\ \A p \in DOMAIN answers : Rests(p, answers[p], scratch[q].heads)
      BY <2>2 DEF Sound, ScratchRests
    <3>2. PICK value, later : value = scratch'[q].answer /\ later = scratch'[q].heads
      OBVIOUS
    <3>3. value = scratch[q].answer /\ later = Through(scratch[q].heads)
      BY <1>4, <2>2, <3>2
    <3>4. \A p \in DOMAIN answers : Rests(p, answers[p], later)'
      BY <1>7, <3>1, <3>3
    <3>5. Backed(q, value, answers)
      BY <3>1, <3>3
    <3> QED
      BY <2>1, <3>2, <3>4, <3>5
  <2>3. CASE q = top
    <3>1. PICK value, answers, later : value = Ascended /\ answers = Top.answers /\ later = outer
      OBVIOUS
    <3>2. Backed(q, value, answers)
      BY <1>1, <1>2, <2>3, <3>1, ResultIsBacked DEF Ascended
    <3>3. later = Through(stack[1].heads)
      BY <1>3, <3>1
    <3>4. \A p \in DOMAIN answers : Rests(p, answers[p], later)'
      <4> TAKE p \in DOMAIN answers
      <4>1. Fits(p, answers[p], stack[1].heads)
        BY <1>1, <1>2, <3>1, FrameBacks
      <4> QED
        BY <1>7, <3>3, <4>1
    <3>5. value = scratch'[q].answer /\ later = scratch'[q].heads
      BY <1>4, <2>3, <3>1
    <3> QED
      BY <2>1, <3>2, <3>4, <3>5
  <2> QED
    BY <1>3, <2>2, <2>3
<1>11. MemoStands'
  <2> SUFFICES ASSUME NEW q \in DOMAIN memo
               PROVE  (\E answers : Backed(q, memo[q], answers) /\ Extends(answers, memo))'
    BY <1>1 DEF MemoStands
  <2>1. Extends(memo, memo')
    BY <1>1 DEF Extends
  <2>2. \E answers : Backed(q, memo[q], answers)' /\ Extends(answers, memo)'
    BY <1>1, <2>1, MemoKeeps DEF Sound
  <2> QED
    BY <2>2
<1> HIDE DEF top
<1>12. /\ EdgesAreReturns'
       /\ \A i \in DOMAIN stack' : Proceeds(stack[i].query, stack[i].mode)'
       /\ FramesFit'
  BY <1>1, <1>2, <1>6, SoundPops DEF top
<1> QED
  BY <1>9, <1>10, <1>11, <1>12 DEF Sound

\* The query on top goes on, with what it holds still fitting.
LEMMA SoundStays ==
    ASSUME EngineInvariant, Sound, stack # << >>, NEW x, stack' = <<x>> \o Tail(stack),
           x.query = stack[1].query, Proceeds(x.query, x.mode),
           UNCHANGED <<program, tables, records>>,
           \A p \in DOMAIN x.answers : Fits(p, x.answers[p], x.heads)',
           \A p, value, heads : Fits(p, value, heads) /\ stack[1].query \notin heads
               => Fits(p, value, heads)'
    PROVE  /\ EdgesAreReturns'
           /\ \A i \in DOMAIN stack' : Proceeds(stack[i].query, stack[i].mode)'
           /\ FramesFit'
           /\ DOMAIN stack' = DOMAIN stack /\ stack'[1] = x
           /\ \A i \in DOMAIN stack : i # 1 => stack'[i] = stack[i]
<1>1. /\ DOMAIN stack' = DOMAIN stack /\ stack'[1] = x
      /\ \A i \in DOMAIN stack : i # 1 => stack'[i] = stack[i]
  BY StackReplace DEF EngineInvariant, Shape
<1>2. \A i \in DOMAIN stack : Proceeds(stack[i].query, stack[i].mode)'
  <2> TAKE i \in DOMAIN stack
  <2>1. PICK q, mode : q = stack'[i].query /\ mode = stack'[i].mode
    OBVIOUS
  <2>2. Proceeds(q, mode)
    BY <1>1, <2>1 DEF Sound
  <2>3. Proceeds(q, mode)'
    BY <2>2, ProceedsStands
  <2> QED
    BY <2>1, <2>3
<1>3. FramesFit'
  <2> SUFFICES ASSUME NEW i \in DOMAIN stack', NEW p \in DOMAIN stack'[i].answers
               PROVE  Fits(p, stack[i].answers[p], stack[i].heads)'
    BY DEF FramesFit
  <2>1. CASE i = 1
    <3>1. PICK value, heads : value = x.answers[p] /\ heads = x.heads
      OBVIOUS
    <3>2. Fits(p, value, heads)' /\ value = stack'[i].answers[p] /\ heads = stack'[i].heads
      BY <1>1, <2>1, <3>1
    <3> QED
      BY <3>2
  <2>2. CASE i # 1
    <3>1. PICK value, heads : value = stack[i].answers[p] /\ heads = stack[i].heads
      OBVIOUS
    <3>2. Fits(p, value, heads) /\ stack[1].query \notin heads
      BY <1>1, <2>2, <3>1, HeadsLeave DEF Sound, FramesFit
    <3>3. Fits(p, value, heads)' /\ value = stack'[i].answers[p] /\ heads = stack'[i].heads
      BY <1>1, <2>2, <3>1, <3>2
    <3> QED
      BY <3>3
  <2> QED
    BY <2>1, <2>2
<1> QED
  BY <1>1, <1>2, <1>3, ProceedsStands DEF Sound

LEMMA IterateIsSound ==
    ASSUME Standing, Sound, Iterate
    PROVE  Sound'
<1> DEFINE top == stack[1].query
           x == Frame(top)
<1>0. Outermost
  BY DEF Iterate
<1>1. /\ stack # << >> /\ Asks(Top) = {} /\ ~Mismatch(Top) /\ Top.heads = {Top.query}
      /\ stack' = <<Frame(Top.query)>> \o Tail(stack)
      /\ provisional' = [provisional EXCEPT ![Top.query] = Ascended]
      /\ scratch' = Left /\ moved' = moved \ Resting
      /\ UNCHANGED <<program, tables, records, memo>>
  BY DEF Iterate, Outermost, Finished, Working, saved, hierarchy
<1>2. /\ EngineInvariant /\ Top = stack[1] /\ 1 \in DOMAIN stack /\ stack[1].awaits = {}
      /\ top \notin DOMAIN memo \cup DOMAIN scratch
      /\ \A q \in DOMAIN scratch : scratch[q].heads # {}
  BY <1>1, TopFacts
<1>3. /\ Resting = {q \in DOMAIN scratch : top \in scratch[q].heads}
      /\ DOMAIN scratch' = DOMAIN scratch \ Resting
      /\ \A q \in DOMAIN scratch \ Resting : scratch'[q] = scratch[q]
      /\ \A p : p # top => provisional'[p] = provisional[p]
  BY <1>1, <1>2 DEF Resting, Left
<1>4. \A p, value, heads : Fits(p, value, heads) /\ top \notin heads => Fits(p, value, heads)'
  BY <1>1, <1>2, <1>3 DEF Fits
<1>5. \A p, value, heads : Rests(p, value, heads) /\ top \notin heads => Rests(p, value, heads)'
  BY <1>1, <1>2, <1>3 DEF Rests
<1>6. /\ x.query = top /\ Proceeds(x.query, x.mode) /\ DOMAIN x.answers = {}
      /\ stack' = <<x>> \o Tail(stack)
  <2>1. IsReal(top) /\ ~Linearizing
    BY <1>1, <1>2 DEF Sound, Proceeds, Standing, Ready
  <2>2. x.query = top /\ Proceeds(top, x.mode) /\ DOMAIN x.answers = {}
    BY <2>1, BeginsSound
  <2> QED
    BY <1>1, <1>2, <2>2
<1> HIDE DEF top
<1>7. PICK y : y = x
  OBVIOUS
<1>8. /\ y.query = stack[1].query /\ Proceeds(y.query, y.mode) /\ DOMAIN y.answers = {}
      /\ stack' = <<y>> \o Tail(stack)
  BY <1>6, <1>7 DEF top
<1> HIDE DEF x
<1>9. /\ EdgesAreReturns'
      /\ \A i \in DOMAIN stack' : Proceeds(stack[i].query, stack[i].mode)'
      /\ FramesFit'
      /\ DOMAIN stack' = DOMAIN stack
      /\ \A i \in DOMAIN stack : i # 1 => stack'[i] = stack[i]
  BY <1>1, <1>2, <1>4, <1>8, SoundStays DEF top
<1>10. Together'
  <2> SUFFICES ASSUME NEW q \in DOMAIN scratch'
               PROVE  \E k \in DOMAIN stack' : \A h \in scratch[q].heads : Carries(k, h)'
    BY <1>3 DEF Together
  <2>1. PICK i \in DOMAIN stack : i # 1 /\ scratch[q].heads \subseteq stack[i].heads
    BY <1>0, <1>3, CycleOrBelow
  <2>2. \A h \in scratch[q].heads : Carries(i, h)'
    BY <1>9, <2>1 DEF Carries
  <2> QED
    BY <1>9, <2>2
<1>11. ScratchRests'
  <2> SUFFICES ASSUME NEW q \in DOMAIN scratch'
               PROVE  (\E answers :
                          /\ Backed(q, scratch[q].answer, answers)
                          /\ \A p \in DOMAIN answers : Rests(p, answers[p], scratch[q].heads))'
    BY DEF ScratchRests
  <2>1. q \in DOMAIN scratch /\ scratch'[q] = scratch[q] /\ top \notin scratch[q].heads
    BY <1>3
  <2>2. \E answers :
            /\ Backed(q, scratch[q].answer, answers)'
            /\ \A p \in DOMAIN answers : Rests(p, answers[p], scratch[q].heads)'
    BY <1>1, <1>5, <2>1, ScratchKeeps DEF Sound
  <2> QED
    BY <2>2
<1>12. MemoStands'
  <2> SUFFICES ASSUME NEW q \in DOMAIN memo
               PROVE  (\E answers : Backed(q, memo[q], answers) /\ Extends(answers, memo))'
    BY <1>1 DEF MemoStands
  <2>1. Extends(memo, memo')
    BY <1>1 DEF Extends
  <2>2. \E answers : Backed(q, memo[q], answers)' /\ Extends(answers, memo)'
    BY <1>1, <2>1, MemoKeeps DEF Sound
  <2> QED
    BY <2>2
<1> QED
  BY <1>9, <1>10, <1>11, <1>12 DEF Sound

\* A step that moves no answer keeps what is known of them.
LEMMA AnswersStand ==
    ASSUME UNCHANGED <<program, tables, records, memo, scratch, provisional, moved>>
    PROVE  /\ \A p, value, heads : Fits(p, value, heads) => Fits(p, value, heads)'
           /\ ScratchRests => ScratchRests'
           /\ MemoStands => MemoStands'
<1>1. \A p, value, heads : Fits(p, value, heads) => Fits(p, value, heads)'
  BY DEF Fits
<1>2. \A p, value, heads : Rests(p, value, heads) => Rests(p, value, heads)'
  BY DEF Rests
<1>3. ASSUME ScratchRests PROVE ScratchRests'
  <2> SUFFICES ASSUME NEW q \in DOMAIN scratch
               PROVE  (\E answers :
                          /\ Backed(q, scratch[q].answer, answers)
                          /\ \A p \in DOMAIN answers : Rests(p, answers[p], scratch[q].heads))'
    BY DEF ScratchRests
  <2>1. PICK answers : /\ Backed(q, scratch[q].answer, answers)
                       /\ \A p \in DOMAIN answers : Rests(p, answers[p], scratch[q].heads)
    BY <1>3 DEF ScratchRests
  <2>2. PICK value, heads : value = scratch[q].answer /\ heads = scratch[q].heads
    OBVIOUS
  <2>3. Backed(q, value, answers)' /\ \A p \in DOMAIN answers : Rests(p, answers[p], heads)'
    BY <1>2, <2>1, <2>2, BackedStands
  <2> QED
    BY <2>2, <2>3
<1>4. ASSUME MemoStands PROVE MemoStands'
  <2> SUFFICES ASSUME NEW q \in DOMAIN memo
               PROVE  (\E answers : Backed(q, memo[q], answers) /\ Extends(answers, memo))'
    BY DEF MemoStands
  <2>1. Extends(memo, memo')
    BY DEF Extends
  <2>2. \E answers : Backed(q, memo[q], answers)' /\ Extends(answers, memo)'
    BY <1>4, <2>1, MemoKeeps
  <2> QED
    BY <2>2
<1> QED
  BY <1>1, <1>3, <1>4

LEMMA ConsultIsSound ==
    ASSUME Standing, Sound, Consult
    PROVE  Sound'
<1>1. /\ stack # << >>
      /\ UNCHANGED <<program, tables, records, memo, scratch, provisional, moved>>
  BY DEF Consult, Working, saved, hierarchy
<1>2. EngineInvariant /\ Top = stack[1] /\ 1 \in DOMAIN stack /\ IsFrame(stack[1])
  BY <1>1, StackTop DEF Standing, EngineInvariant, Shape, Top
<1>3. PICK q \in Asks(Top) :
        \/ q \in DOMAIN memo /\ Answered(q, memo[q], {})
        \/ q \in DOMAIN scratch /\ Answered(q, scratch[q].answer, scratch[q].heads)
        \/ /\ q \notin DOMAIN memo \cup DOMAIN scratch
           /\ q \in Active \cap Returns
           /\ Answered(q, provisional[q], {q})
  BY DEF Consult
<1>4. stack[1].awaits # {} => stack[1].awaits = {q}
  BY <1>2, <1>3 DEF EngineInvariant, Awaiting, Asks
<1>5. /\ \A p, value, heads : Fits(p, value, heads) => Fits(p, value, heads)'
      /\ ScratchRests' /\ MemoStands'
  BY <1>1, AnswersStand DEF Sound
<1>6. ASSUME NEW answer, NEW heads, Answered(q, answer, heads), Fits(q, answer, heads),
             q \in DOMAIN scratch => heads = scratch[q].heads
      PROVE  Sound'
  <2> DEFINE given == With(stack[1].answers, q, answer)
             both == stack[1].heads \cup heads
  <2>1. PICK x : x = [stack[1] EXCEPT !.answers = given, !.heads = both, !.awaits = {}]
    OBVIOUS
  <2>2. stack' = <<x>> \o Tail(stack)
    BY <1>2, <1>6, <2>1 DEF Answered
  <2>3. /\ x.query = stack[1].query /\ x.answers = given /\ x.heads = both
        /\ Proceeds(x.query, x.mode)
    <3>1. Proceeds(stack[1].query, stack[1].mode)
      BY <1>2 DEF Sound
    <3> HIDE DEF given, both
    <3> QED
      BY <1>2, <2>1, <3>1 DEF IsFrame
  <2>4. \A p, value, less : Fits(p, value, less) /\ less \subseteq both => Fits(p, value, both)
    BY DEF Fits
  <2>5. \A p \in DOMAIN x.answers : Fits(p, x.answers[p], x.heads)
    <3> TAKE p \in DOMAIN x.answers
    <3>1. CASE p = q
      <4>1. x.answers[p] = answer
        BY <2>3, <3>1 DEF With
      <4> QED
        BY <1>6, <2>3, <2>4, <3>1, <4>1
    <3>2. CASE p # q
      <4>1. p \in DOMAIN stack[1].answers /\ x.answers[p] = stack[1].answers[p]
        BY <2>3, <3>2 DEF With
      <4>2. Fits(p, stack[1].answers[p], stack[1].heads)
        BY <1>1, <1>2, <4>1, FrameBacks
      <4> QED
        BY <2>3, <2>4, <4>1, <4>2
    <3> QED
      BY <3>1, <3>2
  <2>6. \A p \in DOMAIN x.answers : Fits(p, x.answers[p], x.heads)'
    BY <1>5, <2>5
  <2>7. /\ EdgesAreReturns'
        /\ \A i \in DOMAIN stack' : Proceeds(stack[i].query, stack[i].mode)'
        /\ FramesFit'
        /\ DOMAIN stack' = DOMAIN stack /\ stack'[1] = x
        /\ \A i \in DOMAIN stack : i # 1 => stack'[i] = stack[i]
    <3> HIDE DEF given, both
    <3> QED
      BY <1>1, <1>2, <1>5, <2>2, <2>3, <2>6, SoundStays
  <2>8. Together'
    <3> SUFFICES ASSUME NEW r \in DOMAIN scratch
                 PROVE  \E k \in DOMAIN stack' : \A h \in scratch[r].heads : Carries(k, h)'
      BY <1>1 DEF Together
    <3>1. PICK i \in DOMAIN stack : \A h \in scratch[r].heads : Carries(i, h)
      BY DEF Sound, Together
    <3>2. \A h \in scratch[r].heads : Carries(i, h)'
      <4> TAKE h \in scratch[r].heads
      <4>1. CASE i = 1
        <5>1. h \in both
          BY <1>4, <1>6, <3>1, <4>1 DEF Carries
        <5> QED
          BY <2>3, <2>7, <4>1, <5>1 DEF Carries
      <4>2. CASE i # 1
        BY <2>7, <3>1, <4>2 DEF Carries
      <4> QED
        BY <4>1, <4>2
    <3> QED
      BY <2>7, <3>2
  <2> QED
    BY <1>5, <2>7, <2>8 DEF Sound
<1>7. CASE q \in DOMAIN memo /\ Answered(q, memo[q], {})
  <2>1. q \notin DOMAIN scratch
    BY <1>2, <1>7 DEF EngineInvariant, OnePlace
  <2>2. Fits(q, memo[q], {})
    BY <1>7 DEF Fits
  <2> QED
    BY <1>6, <1>7, <2>1, <2>2
<1>8. CASE q \in DOMAIN scratch /\ Answered(q, scratch[q].answer, scratch[q].heads)
  <2>1. Fits(q, scratch[q].answer, scratch[q].heads)
    BY <1>8 DEF Fits
  <2> QED
    BY <1>6, <1>8, <2>1
<1>9. CASE /\ q \notin DOMAIN memo \cup DOMAIN scratch
           /\ q \in Active \cap Returns
           /\ Answered(q, provisional[q], {q})
  <2>1. Fits(q, provisional[q], {q})
    BY <1>9 DEF Fits
  <2> QED
    BY <1>6, <1>9, <2>1
<1> QED
  BY <1>3, <1>7, <1>8, <1>9

LEMMA EnterIsSound ==
    ASSUME Standing, Sound, Enter
    PROVE  Sound'
<1>1. /\ stack # << >>
      /\ UNCHANGED <<program, tables, records, memo, scratch, provisional, moved>>
  BY DEF Enter, Working, saved, hierarchy
<1>2. EngineInvariant /\ Top = stack[1] /\ 1 \in DOMAIN stack /\ IsFrame(stack[1])
  BY <1>1, StackTop DEF Standing, EngineInvariant, Shape, Top
<1>3. PICK q \in Asks(Top) :
        /\ q \notin DOMAIN memo \cup DOMAIN scratch \cup (Active \cap Returns)
        /\ stack' = IF q \in Active THEN stack
                    ELSE <<Frame(q), [Top EXCEPT !.awaits = {q}]>> \o Tail(stack)
  BY DEF Enter
<1>4. stack[1].awaits = {}
  BY <1>2, <1>3 DEF EngineInvariant, Awaiting, Asks
<1>5. IsReal(q)
  BY <1>1, <1>2, <1>3, <1>4, AsksAreReal
<1>6. /\ \A p, value, heads : Fits(p, value, heads) => Fits(p, value, heads)'
      /\ ScratchRests' /\ MemoStands'
  BY <1>1, AnswersStand DEF Sound
<1>7. /\ EdgesAreReturns'
      /\ \A i \in DOMAIN stack : \A p \in DOMAIN stack[i].answers :
            Fits(p, stack[i].answers[p], stack[i].heads)
      /\ \A r, mode : Proceeds(r, mode) => Proceeds(r, mode)'
  BY <1>1, ProceedsStands DEF Sound, FramesFit
<1>8. CASE q \in Active
  <2>1. stack' = stack
    BY <1>3, <1>8
  <2>2. Together'
    BY <1>1, <2>1 DEF Sound, Together, Carries
  <2>3. FramesFit'
    <3> SUFFICES ASSUME NEW i \in DOMAIN stack, NEW p \in DOMAIN stack[i].answers
                 PROVE  Fits(p, stack[i].answers[p], stack[i].heads)'
      BY <2>1 DEF FramesFit
    <3>1. PICK value, heads : value = stack[i].answers[p] /\ heads = stack[i].heads
      OBVIOUS
    <3>2. Fits(p, value, heads)'
      BY <1>6, <1>7, <3>1
    <3> QED
      BY <2>1, <3>1, <3>2
  <2>4. \A i \in DOMAIN stack' : Proceeds(stack[i].query, stack[i].mode)'
    <3> TAKE i \in DOMAIN stack'
    <3>1. PICK r, mode : r = stack[i].query /\ mode = stack[i].mode
      OBVIOUS
    <3>2. Proceeds(r, mode)
      BY <2>1, <3>1 DEF Sound
    <3>3. Proceeds(r, mode)'
      BY <1>7, <3>2
    <3> QED
      BY <2>1, <3>1, <3>3
  <2> QED
    BY <1>6, <1>7, <2>2, <2>3, <2>4 DEF Sound
<1>9. CASE q \notin Active
  <2>1. PICK x, y : x = Frame(q) /\ y = [stack[1] EXCEPT !.awaits = {q}]
    OBVIOUS
  <2>2. stack' = <<x, y>> \o Tail(stack)
    BY <1>2, <1>3, <1>9, <2>1
  <2>3. x.query = q /\ Proceeds(q, x.mode) /\ DOMAIN x.answers = {}
    BY <1>1, <1>5, <2>1, BeginsSound DEF Standing, Ready
  <2>4. /\ y.query = stack[1].query /\ y.mode = stack[1].mode
        /\ y.answers = stack[1].answers /\ y.heads = stack[1].heads
    BY <1>2, <2>1 DEF IsFrame
  <2>5. /\ DOMAIN stack' = 1..(Len(stack) + 1) /\ stack'[1] = x /\ stack'[2] = y
        /\ \A i \in DOMAIN stack : i # 1 => stack'[i + 1] = stack[i]
        /\ DOMAIN stack = 1..Len(stack) /\ Len(stack) \in Nat \ {0}
    BY <1>1, <1>2, <2>2, StackPush, StackTop DEF EngineInvariant, Shape
  <2>6. \A i \in DOMAIN stack : /\ i + 1 \in DOMAIN stack'
                                /\ stack'[i + 1].query = stack[i].query
                                /\ stack'[i + 1].mode = stack[i].mode
                                /\ stack'[i + 1].answers = stack[i].answers
                                /\ stack'[i + 1].heads = stack[i].heads
    BY <2>4, <2>5
  <2>7. \A i \in DOMAIN stack' : i # 1 => i - 1 \in DOMAIN stack /\ (i - 1) + 1 = i
    BY <2>5
  <2>8. \A i \in DOMAIN stack' : Proceeds(stack[i].query, stack[i].mode)'
    <3> TAKE i \in DOMAIN stack'
    <3>1. PICK r, mode : r = stack'[i].query /\ mode = stack'[i].mode
      OBVIOUS
    <3>2. ASSUME i = 1 PROVE Proceeds(r, mode)
      BY <2>3, <2>5, <3>1, <3>2
    <3>3. ASSUME i # 1 PROVE Proceeds(r, mode)
      <4>1. i - 1 \in DOMAIN stack /\ r = stack[i - 1].query /\ mode = stack[i - 1].mode
        BY <2>6, <2>7, <3>1, <3>3
      <4> QED
        BY <4>1 DEF Sound
    <3>4. Proceeds(r, mode)'
      BY <1>7, <3>2, <3>3
    <3> QED
      BY <3>1, <3>4
  <2>9. FramesFit'
    <3> SUFFICES ASSUME NEW i \in DOMAIN stack', NEW p \in DOMAIN stack'[i].answers
                 PROVE  Fits(p, stack[i].answers[p], stack[i].heads)'
      BY DEF FramesFit
    <3>1. i # 1
      BY <2>3, <2>5
    <3>2. PICK value, heads : value = stack'[i].answers[p] /\ heads = stack'[i].heads
      OBVIOUS
    <3>3. Fits(p, value, heads)
      BY <1>7, <2>6, <2>7, <3>1, <3>2
    <3>4. Fits(p, value, heads)'
      BY <1>6, <3>3
    <3> QED
      BY <3>2, <3>4
  <2>10. Together'
    <3> SUFFICES ASSUME NEW r \in DOMAIN scratch
                 PROVE  \E k \in DOMAIN stack' : \A h \in scratch[r].heads : Carries(k, h)'
      BY <1>1 DEF Together
    <3>1. PICK i \in DOMAIN stack : \A h \in scratch[r].heads : Carries(i, h)
      BY DEF Sound, Together
    <3>2. \A h \in scratch[r].heads : h \in stack[i].heads
      BY <1>4, <3>1 DEF Carries
    <3>3. \A h \in scratch[r].heads : Carries(i + 1, h)'
      BY <2>6, <3>2 DEF Carries
    <3> QED
      BY <2>6, <3>3
  <2> QED
    BY <1>6, <1>7, <2>8, <2>9, <2>10 DEF Sound
<1> QED
  BY <1>8, <1>9

\* A table is made only while there is one to make, and then nothing is answered yet.
LEMMA NothingYet ==
    ASSUME Standing, Linearize
    PROVE  /\ stack = << >> /\ DOMAIN stack = {}
           /\ DOMAIN memo = {} /\ DOMAIN scratch = {} /\ Linearizing
<1>1. stack = << >> /\ Walk
  BY DEF Linearize
<1>2. Linearizing
  <2>1. CASE \E k \in Keys : BeginWalk(k)
    BY <2>1 DEF BeginWalk, Linearizing, ClassKeys, Linearized
  <2>2. CASE Revisit \/ Visit \/ FollowEdge \/ FinishWalk
    BY <2>2 DEF Revisit, Visit, FollowEdge, FinishWalk, Linearizing
  <2> QED
    BY <1>1, <2>1, <2>2 DEF Walk
<1> QED
  BY <1>1, <1>2, NothingActive, EmptyStack DEF Standing, Ready

LEMMA TablesAreThere ==
    ASSUME UNCHANGED <<program, hierarchy>>
    PROVE  Linearizing' <=> Linearizing
BY DEF hierarchy, walking, Linearizing, ClassKeys, IsClass, Linearized

LEMMA QueriesOnly ==
    ASSUME Query
    PROVE  stack # << >> /\ UNCHANGED <<program, hierarchy, run, records>>
BY DEF Query, Consult, Enter, GiveUp, Finish, Participate, AscendInside, Converge, Iterate,
       Working, Finished, Outermost, saved

LEMMA ProvisionalOfReturns ==
    ASSUME DOMAIN provisional = Returns, [Next]_vars
    PROVE  DOMAIN provisional' = Returns
<1>1. CASE Linearize
  BY <1>1 DEF Linearize, engine
<1>2. CASE \E b \in DeclaredBodies : Demand(b)
  BY <1>2 DEF Demand
<1>3. CASE NextRun
  BY <1>3 DEF NextRun
<1>4. CASE Consult \/ Enter \/ GiveUp \/ Finish
  BY <1>4 DEF Consult, Enter, GiveUp, Finish
<1>5. CASE Participate
  BY <1>5 DEF Participate
<1>6. CASE AscendInside
  BY <1>6 DEF AscendInside
<1>7. CASE Converge
  BY <1>7 DEF Converge
<1>8. CASE Iterate
  BY <1>8 DEF Iterate
<1>9. CASE UNCHANGED vars
  BY <1>9 DEF vars, engine
<1> QED
  BY <1>1, <1>2, <1>3, <1>4, <1>5, <1>6, <1>7, <1>8, <1>9 DEF Next, Query

LEMMA RunCounts ==
    ASSUME run \in Nat \ {0}, [Next]_vars
    PROVE  run' \in Nat \ {0} /\ (run' = 1 => run = 1 /\ ~NextRun)
<1>1. CASE NextRun
  BY <1>1 DEF NextRun
<1>2. CASE Linearize \/ \E b \in DeclaredBodies : Demand(b)
  BY <1>2 DEF Linearize, Demand, saved, NextRun
<1>3. CASE Query
  BY <1>3, QueriesOnly DEF NextRun
<1>4. CASE UNCHANGED vars
  BY <1>4 DEF vars, saved, NextRun
<1> QED
  BY <1>1, <1>2, <1>3, <1>4 DEF Next

LEMMA ReadyKeeps ==
    ASSUME Standing, [Next]_vars
    PROVE  Ready'
<1>1. CASE Linearize
  <2>1. stack' = << >> /\ DOMAIN memo' = {}
    BY <1>1, NothingYet DEF Linearize, engine
  <2> QED
    BY <2>1 DEF Ready
<1>2. CASE \E b \in DeclaredBodies : Demand(b)
  BY <1>2, TablesAreThere DEF Demand, saved, Ready
<1>3. CASE NextRun
  <2>1. stack' = << >> /\ memo' = << >>
    BY <1>3 DEF NextRun, AllAnswered
  <2> QED
    BY <2>1, EmptyStack DEF Ready
<1>4. CASE Query
  BY <1>4, QueriesOnly, TablesAreThere DEF Standing, Ready
<1>5. CASE UNCHANGED vars
  BY <1>5, TablesAreThere DEF vars, saved, engine, Standing, Ready
<1> QED
  BY <1>1, <1>2, <1>3, <1>4, <1>5 DEF Next

LEMMA StandingKeeps ==
    ASSUME Standing, DepthOneInvariant, [Next]_vars
    PROVE  Standing' /\ DepthOneInvariant'
<1>1. DepthOneInvariant' /\ HierarchyInvariant'
  BY RunsKeepTheHierarchy DEF DepthOneInvariant
<1>2. EngineInvariant'
  BY EngineKeeps DEF Standing
<1>3. run' \in Nat \ {0} /\ DOMAIN provisional' = Returns
  BY RunCounts, ProvisionalOfReturns DEF Standing
<1> QED
  BY <1>1, <1>2, <1>3, ReadyKeeps DEF Standing

\* Nothing asked and nothing answered.
LEMMA NothingIsSound ==
    ASSUME EdgesAreReturns, DOMAIN stack = {}, DOMAIN memo = {}, DOMAIN scratch = {}
    PROVE  Sound
BY DEF Sound, Together, FramesFit, ScratchRests, MemoStands

LEMMA LinearizeIsSound ==
    ASSUME Standing, Sound, Linearize
    PROVE  Sound'
<1>1. /\ UNCHANGED records /\ DOMAIN stack' = {} /\ DOMAIN memo' = {} /\ DOMAIN scratch' = {}
  BY NothingYet DEF Linearize, engine
<1>2. EdgesAreReturns'
  <2>1. Returns' = Returns
    BY DEF Returns
  <2> QED
    BY <1>1, <2>1 DEF Sound, EdgesAreReturns
<1> QED
  BY <1>1, <1>2 DEF Sound, Together, FramesFit, ScratchRests, MemoStands

LEMMA DemandIsSound ==
    ASSUME Standing, Sound, NEW b \in DeclaredBodies, Demand(b)
    PROVE  Sound'
<1>1. /\ stack = << >> /\ stack' = <<Frame(Warmed(b))>> /\ ~Linearizing
      /\ UNCHANGED <<program, tables, records, memo, scratch, provisional, moved>>
  BY DEF Demand, saved, hierarchy
<1>2. PICK q, x : q = Warmed(b) /\ x = Frame(q)
  OBVIOUS
<1>3. /\ DOMAIN stack' = {1} /\ stack'[1] = x
      /\ x.query = q /\ Proceeds(q, x.mode) /\ DOMAIN x.answers = {}
  <2>1. IsReal(q)
    BY <1>2, DemandIsReal
  <2> QED
    BY <1>1, <1>2, <2>1, OneFrame, BeginsSound
<1>4. \A i \in DOMAIN stack' : Proceeds(stack[i].query, stack[i].mode)'
  <2>1. PICK mode : mode = x.mode
    OBVIOUS
  <2>2. Proceeds(q, mode)'
    BY <1>1, <1>3, <2>1, ProceedsStands
  <2>3. q = stack'[1].query /\ mode = stack'[1].mode
    BY <1>3, <2>1
  <2> QED
    BY <1>3, <2>2, <2>3
<1>5. Together'
  <2>1. DOMAIN scratch' = {}
    BY <1>1, NothingActive DEF Standing
  <2> QED
    BY <2>1 DEF Together
<1>6. FramesFit'
  BY <1>3 DEF FramesFit
<1>7. ScratchRests' /\ MemoStands' /\ EdgesAreReturns'
  BY <1>1, AnswersStand, ProceedsStands DEF Sound
<1> QED
  BY <1>4, <1>5, <1>6, <1>7 DEF Sound

\* A query that gives its signature up has taken no answer for what it computes.
LEMMA GiveUpIsSound ==
    ASSUME Standing, Sound, GiveUp
    PROVE  Sound'
<1>1. /\ stack # << >>
      /\ stack' = <<[Top EXCEPT !.mode = "computing", !.answers = << >>]>> \o Tail(stack)
      /\ UNCHANGED <<program, tables, records, memo, scratch, provisional, moved>>
  BY DEF GiveUp, saved, hierarchy
<1>2. EngineInvariant /\ Top = stack[1] /\ 1 \in DOMAIN stack /\ IsFrame(stack[1])
  BY <1>1, StackTop DEF Standing, EngineInvariant, Shape, Top
<1>3. PICK x : x = [stack[1] EXCEPT !.mode = "computing", !.answers = << >>]
  OBVIOUS
<1>4. /\ stack' = <<x>> \o Tail(stack) /\ x.query = stack[1].query /\ x.mode = "computing"
      /\ DOMAIN x.answers = {} /\ x.heads = stack[1].heads /\ x.awaits = stack[1].awaits
  BY <1>1, <1>2, <1>3, EmptyStack DEF IsFrame
<1>5. /\ \A p, value, heads : Fits(p, value, heads) => Fits(p, value, heads)'
      /\ ScratchRests' /\ MemoStands'
  BY <1>1, AnswersStand DEF Sound
<1>6. Proceeds(x.query, x.mode)
  BY <1>2, <1>4 DEF Sound, Proceeds
<1>7. /\ EdgesAreReturns'
      /\ \A i \in DOMAIN stack' : Proceeds(stack[i].query, stack[i].mode)'
      /\ FramesFit'
      /\ DOMAIN stack' = DOMAIN stack /\ stack'[1] = x
      /\ \A i \in DOMAIN stack : i # 1 => stack'[i] = stack[i]
  BY <1>1, <1>2, <1>4, <1>5, <1>6, SoundStays
<1>8. \A i \in DOMAIN stack : \A h : Carries(i, h) => Carries(i, h)'
  BY <1>1, <1>4, <1>7 DEF Carries
<1>9. Together'
  <2> SUFFICES ASSUME NEW q \in DOMAIN scratch
               PROVE  \E k \in DOMAIN stack' : \A h \in scratch[q].heads : Carries(k, h)'
    BY <1>1 DEF Together
  <2>1. PICK i \in DOMAIN stack : \A h \in scratch[q].heads : Carries(i, h)
    BY DEF Sound, Together
  <2> QED
    BY <1>7, <1>8, <2>1
<1> QED
  BY <1>5, <1>7, <1>9 DEF Sound

\* What is recorded of a body are the returns it called.
LEMMA CollectedEdges ==
    ASSUME NextRun
    PROVE  EdgesAreReturns'
<1>1. records' = Collected
  BY DEF NextRun
<1>2. ASSUME NEW q \in DOMAIN Collected
      PROVE  DOMAIN Collected[q].edges \subseteq Returns
  <2>1. q \in {Owner(b) : b \in Recorded}
    BY DEF Collected
  <2>2. PICK b : b = CHOOSE c \in Recorded : Owner(c) = q
    OBVIOUS
  <2>3. b \in Recorded
    BY <2>1, <2>2
  <2>4. AreCalls(CallsOf(b))
    BY <2>3, DeclaredIsReal DEF Recorded
  <2>5. Collected[q] = Signature(b)
    BY <2>1, <2>2 DEF Collected
  <2>6. PICK types : types = CallTypes(b, memo)
    OBVIOUS
  <2>7. DOMAIN Signature(b).edges = InferredCallees(b, types)
    BY <2>6 DEF Signature, RecordOf
  <2>8. InferredCallees(b, types) \subseteq Returns
    BY <2>4, CalleesAreReturns DEF InferredCallees, Callees
  <2> QED
    BY <2>5, <2>7, <2>8
<1>3. Returns' = Returns
  BY DEF Returns
<1> QED
  BY <1>1, <1>2, <1>3 DEF EdgesAreReturns

LEMMA NextRunIsSound ==
    ASSUME Standing, NextRun
    PROVE  Sound'
<1>1. stack' = << >> /\ memo' = << >> /\ scratch' = scratch /\ stack = << >>
  BY DEF NextRun, AllAnswered
<1>2. DOMAIN stack' = {} /\ DOMAIN memo' = {} /\ DOMAIN scratch' = {}
  BY <1>1, EmptyStack, NothingActive DEF Standing
<1> QED
  BY <1>2, CollectedEdges DEF Sound, Together, FramesFit, ScratchRests, MemoStands

LEMMA SoundStands ==
    ASSUME Sound, UNCHANGED vars
    PROVE  Sound'
<1>1. UNCHANGED <<program, tables, records, memo, scratch, provisional, moved, stack>>
  BY DEF vars, saved, hierarchy, engine
<1>2. /\ \A p, value, heads : Fits(p, value, heads) => Fits(p, value, heads)'
      /\ ScratchRests' /\ MemoStands'
  BY <1>1, AnswersStand DEF Sound
<1>3. Together'
  BY <1>1 DEF Sound, Together, Carries
<1>4. FramesFit'
  <2> SUFFICES ASSUME NEW i \in DOMAIN stack, NEW p \in DOMAIN stack[i].answers
               PROVE  Fits(p, stack[i].answers[p], stack[i].heads)'
    BY <1>1 DEF FramesFit
  <2>1. PICK value, heads : value = stack[i].answers[p] /\ heads = stack[i].heads
    OBVIOUS
  <2>2. Fits(p, value, heads)'
    BY <1>2, <2>1 DEF Sound, FramesFit
  <2> QED
    BY <1>1, <2>1, <2>2
<1>5. \A i \in DOMAIN stack' : Proceeds(stack[i].query, stack[i].mode)'
  <2> TAKE i \in DOMAIN stack'
  <2>1. PICK q, mode : q = stack[i].query /\ mode = stack[i].mode
    OBVIOUS
  <2>2. Proceeds(q, mode)
    BY <1>1, <2>1 DEF Sound
  <2>3. Proceeds(q, mode)'
    BY <1>1, <2>2, ProceedsStands
  <2> QED
    BY <1>1, <2>1, <2>3
<1>6. EdgesAreReturns'
  BY <1>1, ProceedsStands DEF Sound
<1> QED
  BY <1>1, <1>2, <1>3, <1>4, <1>5, <1>6 DEF Sound

LEMMA SoundKeeps ==
    ASSUME Standing, Sound, [Next]_vars
    PROVE  Sound'
<1>1. CASE \E b \in DeclaredBodies : Demand(b)
  BY <1>1, DemandIsSound
<1>2. CASE Query
  BY <1>2, ConsultIsSound, EnterIsSound, GiveUpIsSound, FinishIsSound, ParticipateIsSound,
     AscendIsSound, ConvergeIsSound, IterateIsSound DEF Query
<1> QED
  BY <1>1, <1>2, LinearizeIsSound, SoundStands, NextRunIsSound DEF Next

LEMMA SoundAtFirst ==
    ASSUME Init
    PROVE  Standing /\ DepthOneInvariant /\ Sound /\ records = << >> /\ run = 1
<1>1. /\ run = 1 /\ records = << >> /\ stack = << >> /\ memo = << >>
      /\ DOMAIN stack = {} /\ DOMAIN memo = {} /\ DOMAIN scratch = {} /\ DOMAIN records = {}
      /\ DOMAIN provisional = Returns
  BY EmptyStack DEF Init
<1>2. EngineInvariant /\ Sound /\ Ready
  BY <1>1, Idle, NothingIsSound DEF Ready, EdgesAreReturns
<1>3. DepthOneInvariant
  BY NoWalkYet DEF Init, HierarchyInit
<1> QED
  BY <1>1, <1>2, <1>3 DEF Standing, DepthOneInvariant

\* Before there are tables there are no answers, and then every return in doubt
\* has a signature that does not say what its body means.
LEMMA CoverWithoutDoubt ==
    ASSUME Ready, Sound, Vouched
    PROVE  AnswersCover
BY CoverFromMemo DEF Ready, Sound, Vouched, AnswersCover

(***************************************************************************)
(* `validated_stored_return` and `ascend`: over any number of runs and     *)
(* whatever is edited between them, from whichever body a run starts, in   *)
(* whatever order the callees of a call are taken, however the cycles nest *)
(* and whatever the budget, every finished answer but that of a return     *)
(* whose stored signature holds and yet says something else than its body  *)
(* covers what its own code makes of the other finished answers, all of    *)
(* which are there; and what such a return is answered spoils nobody else. *)
(***************************************************************************)
THEOREM DoubtDoesNotSpread ==
    Spec => [](\A q \in DOMAIN memo \ Doubted :
                  Open(q, memo) = {} /\ Covered(Meaning(q, memo), memo[q]))
<1> DEFINE Inv == Standing /\ DepthOneInvariant /\ Sound
           Covers == \A q \in DOMAIN memo \ Doubted :
                        Open(q, memo) = {} /\ Covered(Meaning(q, memo), memo[q])
<1>1. Init => Inv
  BY SoundAtFirst
<1>2. Inv /\ [Next]_vars => Inv'
  BY StandingKeeps, SoundKeeps
<1>3. Inv => Covers
  BY CoverFromMemo DEF Sound
<1> QED
  BY <1>1, <1>2, <1>3, PTL DEF Spec

(***************************************************************************)
(* The same, where no return is in doubt: an answer that was served is     *)
(* worth as much as one that was computed, and no provisional answer       *)
(* outlives the cycle it was provisional in.                               *)
(***************************************************************************)
THEOREM VouchedAnswersCover == Spec => [](Vouched => AnswersCover)
<1> DEFINE Inv == Standing /\ DepthOneInvariant /\ Sound
<1>1. Init => Inv
  BY SoundAtFirst
<1>2. Inv /\ [Next]_vars => Inv'
  BY StandingKeeps, SoundKeeps
<1>3. Inv => (Vouched => AnswersCover)
  BY CoverWithoutDoubt DEF Standing
<1> QED
  BY <1>1, <1>2, <1>3, PTL DEF Spec

----------------------------------------------------------------------------
(***************************************************************************)
(* Who is entered twice.  A body has no way to recover from a cycle, so    *)
(* that a cycle through it must close at its owner, the return below it.   *)
(***************************************************************************)

\* Whatever is active is a query, and one with a stored signature is a return.
Asked ==
    /\ \A i \in DOMAIN stack :
          /\ IsReal(stack[i].query)
          /\ stack[i].mode = "validating" => stack[i].query \in DOMAIN records
    /\ \A q \in DOMAIN records : DOMAIN records[q].edges \subseteq Returns

\* A body that no trait pasted stands on its owner, or its owner is answered.
OwnedBelow ==
    \A i \in DOMAIN stack : \A b \in Bodies : stack[i].query = b /\ b.for = NoKey =>
        \/ i + 1 \in DOMAIN stack /\ stack[i + 1].query = Owner(b)
        \/ Owner(b) \in DOMAIN memo

Owned == Asked /\ OwnedBelow

\* The body a return comes down to is its own, unless a trait pasted it.
LEMMA DelegateIsOwned ==
    ASSUME HierarchyInvariant, ~Linearizing, NEW q \in Returns, NEW r \in Delegate(q),
           r \in Bodies, r.for = NoKey
    PROVE  Owner(r) = q
<1>0. r.kind = "body"
  BY DEF Bodies, Body
<1>1. CASE q.kind = "function"
  <2>1. PICK k \in Keys : q = FunctionReturn(k)
    BY <1>1 DEF Returns, MethodReturn
  <2>2. r = Body(k, NoKey, NoKey)
    BY <1>1, <2>1 DEF Delegate, FunctionReturn
  <2> QED
    BY <2>1, <2>2 DEF Owner, Body
<1>2. CASE q.kind # "function"
  <2>1. PICK k \in Keys, n \in Names : q = MethodReturn(k, n)
    BY <1>2 DEF Returns, FunctionReturn
  <2>2. q.key = k /\ q.name = n
    BY <2>1 DEF MethodReturn
  <2>3. LookupMember(k, n).tier = "source"
    BY <1>2, <2>2 DEF Delegate
  <2>4. IsClass(k) /\ Linearized(k) /\ tables[k].members[n] # NoEntry
        /\ LookupMember(k, n).entry = tables[k].members[n]
    <3>1. IsClass(k)
      BY <2>3 DEF LookupMember
    <3>2. Linearized(k)
      BY <3>1 DEF Linearizing, ClassKeys
    <3> QED
      BY <2>3, <3>1, <3>2 DEF LookupMember, FoundIn
  <2> DEFINE entry == tables[k].members[n]
  <2>5. EntryIsSound(entry, n, k, tables[k].ancestry)
    BY <2>4 DEF HierarchyInvariant, TablesAreSound, EntriesAreSound
  <2>6. r = IF entry.origin = "inherited" THEN MethodReturn(entry.owner, n) ELSE BodyOf(entry)
    BY <1>2, <2>2, <2>3, <2>4 DEF Delegate
  <2> HIDE DEF entry
  <2>7. r = BodyOf(entry)
    BY <1>0, <2>6 DEF MethodReturn
  <2>8. entry.anchor = NoKey
    BY <2>7 DEF BodyOf, Body
  <2>9. entry = OwnEntry(k, n)
    <3>1. entry.origin \in {"own", "trait"}
      BY <1>0, <2>4, <2>5, <2>6 DEF EntryIsSound, MethodReturn, entry
    <3>2. entry.origin # "trait"
      BY <2>4, <2>5, <2>8, HierarchyAssumption DEF EntryIsSound, entry
    <3> QED
      BY <2>4, <2>5, <3>1, <3>2 DEF EntryIsSound, entry
  <2>10. r = Body(k, n, NoKey) /\ n # NoKey
    BY <2>7, <2>9, HierarchyAssumption DEF BodyOf, OwnEntry
  <2> QED
    BY <2>1, <2>10 DEF Owner, Body
<1> QED
  BY <1>1, <1>2

\* What the query on top asks for next, and what it then stands on.
LEMMA AsksAreOwned ==
    ASSUME Standing, Asked, stack # << >>, NEW q \in Asks(Top), Top.awaits = {}
    PROVE  /\ IsReal(q)
           /\ q \in Bodies /\ q.for = NoKey => Owner(q) = stack[1].query
<1>1. Top = stack[1] /\ 1 \in DOMAIN stack /\ ~Linearizing /\ HierarchyInvariant
  BY StackTop DEF Standing, Ready, EngineInvariant, Shape, Top
<1>2. IsReal(Top.query) /\ (Top.mode = "validating" => Top.query \in DOMAIN records)
  BY <1>1 DEF Asked
<1>3. CASE Top.mode = "validating"
  <2>1. q \in Returns
    BY <1>2, <1>3 DEF Asks, Asked
  <2> QED
    BY <2>1, KindsDiffer DEF IsReal
<1>4. CASE Top.mode # "validating" /\ Top.query \in Returns
  <2>1. q \in Delegate(Top.query)
    BY <1>4 DEF Asks
  <2> QED
    BY <1>1, <1>4, <2>1, DelegateIsReal, DelegateIsOwned
<1>5. CASE Top.mode # "validating" /\ Top.query \notin Returns
  <2>1. q \in Returns
    BY <1>2, <1>5, CalleeIsReal DEF Asks, IsReal
  <2> QED
    BY <2>1, KindsDiffer DEF IsReal
<1> QED
  BY <1>3, <1>4, <1>5

LEMMA EnteredOnce ==
    ASSUME Standing, Owned
    PROVE  OwnBodiesAreEnteredOnce
<1> SUFFICES ASSUME stack # << >>, NEW q \in Asks(Top) \cap Active,
                    q \notin Returns, q.for = NoKey
             PROVE  FALSE
  BY DEF OwnBodiesAreEnteredOnce
<1>1. Top = stack[1] /\ 1 \in DOMAIN stack /\ DOMAIN stack = 1..Len(stack) /\ EngineInvariant
  BY StackTop DEF Standing, EngineInvariant, Shape, Top
<1>2. PICK j \in DOMAIN stack : stack[j].query = q
  BY DEF Active
<1>3. Top.awaits = {}
  BY <1>1, <1>2 DEF EngineInvariant, Awaiting, OnePlace, Asks
<1>4. q \in Bodies /\ Owner(q) = stack[1].query
  <2>1. q \in Bodies
    BY <1>3, AsksAreOwned DEF Owned, IsReal
  <2> QED
    BY <1>3, <2>1, AsksAreOwned DEF Owned
<1>5. stack[1].query \notin DOMAIN memo
  BY <1>1 DEF EngineInvariant, OnePlace
<1>6. j + 1 \in DOMAIN stack /\ stack[j + 1].query = stack[1].query
  BY <1>2, <1>4, <1>5 DEF Owned, OwnedBelow
<1>7. j + 1 = 1
  BY <1>1, <1>6 DEF EngineInvariant, OnePlace
<1> QED
  BY <1>1, <1>2, <1>7

LEMMA OwnersBelow ==
    ASSUME \A i \in DOMAIN stack' : \A b \in Bodies : stack'[i].query = b /\ b.for = NoKey =>
               \/ i + 1 \in DOMAIN stack' /\ stack'[i + 1].query = Owner(b)
               \/ Owner(b) \in DOMAIN memo'
    PROVE  OwnedBelow'
<1>1. \A b : Owner(b)' = Owner(b)
  BY DEF Owner
<1>2. Bodies' = Bodies
  BY DEF Bodies
<1> QED
  BY <1>1, <1>2 DEF OwnedBelow

\* A stack of the same queries, one of which may have a new frame, or fewer of them.
LEMMA StaysOwned ==
    ASSUME EngineInvariant, Owned, stack # << >>, NEW x, stack' = <<x>> \o Tail(stack),
           x.query = stack[1].query, x.mode = "validating" => x.query \in DOMAIN records,
           UNCHANGED <<program, tables, records>>, DOMAIN memo \subseteq DOMAIN memo'
    PROVE  Owned'
<1>1. /\ DOMAIN stack' = DOMAIN stack /\ stack'[1] = x /\ 1 \in DOMAIN stack
      /\ \A i \in DOMAIN stack : i # 1 => stack'[i] = stack[i]
  BY StackReplace, StackTop DEF EngineInvariant, Shape
<1>2. \A i \in DOMAIN stack : stack'[i].query = stack[i].query
  BY <1>1
<1>3. Asked'
  <2> SUFFICES ASSUME NEW i \in DOMAIN stack'
               PROVE  /\ IsReal(stack[i].query)'
                      /\ stack'[i].mode = "validating" => stack'[i].query \in DOMAIN records
    BY DEF Owned, Asked
  <2>1. PICK q : q = stack[i].query
    OBVIOUS
  <2>2. IsReal(q)' /\ q = stack'[i].query
    BY <1>1, <1>2, <2>1, RealStands DEF Owned, Asked
  <2>3. stack'[i].mode = "validating" => stack'[i].query \in DOMAIN records
    BY <1>1 DEF Owned, Asked
  <2> QED
    BY <2>2, <2>3
<1>4. OwnedBelow'
  <2> SUFFICES ASSUME NEW i \in DOMAIN stack', NEW b \in Bodies, stack'[i].query = b, b.for = NoKey
               PROVE  \/ i + 1 \in DOMAIN stack' /\ stack'[i + 1].query = Owner(b)
                      \/ Owner(b) \in DOMAIN memo'
    BY OwnersBelow
  <2>1. i \in DOMAIN stack /\ stack[i].query = b
    BY <1>1, <1>2
  <2>2. \/ i + 1 \in DOMAIN stack /\ stack[i + 1].query = Owner(b)
        \/ Owner(b) \in DOMAIN memo
    BY <2>1 DEF Owned, OwnedBelow
  <2> QED
    BY <1>1, <1>2, <2>2
<1> QED
  BY <1>3, <1>4 DEF Owned

LEMMA PopsOwned ==
    ASSUME EngineInvariant, Owned, stack # << >>, stack' = Tail(stack),
           UNCHANGED <<program, tables, records>>, DOMAIN memo \subseteq DOMAIN memo'
    PROVE  Owned'
<1>1. /\ DOMAIN stack' = 1..(Len(stack) - 1) /\ Len(stack) \in Nat \ {0}
      /\ DOMAIN stack = 1..Len(stack)
      /\ \A i \in 1..(Len(stack) - 1) : stack'[i] = stack[i + 1]
  BY StackPop, StackTop DEF EngineInvariant, Shape
<1>2. \A i \in DOMAIN stack' : i + 1 \in DOMAIN stack /\ stack'[i] = stack[i + 1]
  BY <1>1
<1>3. Asked'
  <2> SUFFICES ASSUME NEW i \in DOMAIN stack'
               PROVE  /\ IsReal(stack[i].query)'
                      /\ stack'[i].mode = "validating" => stack'[i].query \in DOMAIN records
    BY DEF Owned, Asked
  <2>1. PICK q : q = stack[i + 1].query
    OBVIOUS
  <2>2. IsReal(q)' /\ q = stack'[i].query
    BY <1>2, <2>1, RealStands DEF Owned, Asked
  <2> QED
    BY <1>2, <2>2 DEF Owned, Asked
<1>4. OwnedBelow'
  <2> SUFFICES ASSUME NEW i \in DOMAIN stack', NEW b \in Bodies, stack'[i].query = b, b.for = NoKey
               PROVE  \/ i + 1 \in DOMAIN stack' /\ stack'[i + 1].query = Owner(b)
                      \/ Owner(b) \in DOMAIN memo'
    BY OwnersBelow
  <2>1. \/ (i + 1) + 1 \in DOMAIN stack /\ stack[(i + 1) + 1].query = Owner(b)
        \/ Owner(b) \in DOMAIN memo
    BY <1>2 DEF Owned, OwnedBelow
  <2>2. (i + 1) + 1 \in DOMAIN stack =>
           i + 1 \in DOMAIN stack' /\ stack'[i + 1] = stack[(i + 1) + 1]
    BY <1>1
  <2> QED
    BY <1>2, <2>1, <2>2
<1> QED
  BY <1>3, <1>4 DEF Owned

LEMMA OwnedStands ==
    ASSUME Owned, UNCHANGED <<program, tables, records, stack>>, DOMAIN memo \subseteq DOMAIN memo'
    PROVE  Owned'
<1>1. Asked'
  <2> SUFFICES ASSUME NEW i \in DOMAIN stack' PROVE IsReal(stack[i].query)'
    BY DEF Owned, Asked
  <2>1. PICK q : q = stack[i].query
    OBVIOUS
  <2>2. IsReal(q)' /\ q = stack'[i].query
    BY <2>1, RealStands DEF Owned, Asked
  <2> QED
    BY <2>2
<1>2. OwnedBelow'
  BY OwnersBelow DEF Owned, OwnedBelow
<1> QED
  BY <1>1, <1>2 DEF Owned

\* A query that begins is validated only if something is stored for it.
LEMMA BegunOwned ==
    ASSUME NEW q
    PROVE  /\ Frame(q).query = q
           /\ Frame(q).mode = "validating" => q \in DOMAIN records
BY DEF Frame, StoredHolds

LEMMA EnterOwned ==
    ASSUME Standing, Owned, Enter
    PROVE  Owned'
<1>1. stack # << >> /\ UNCHANGED <<program, tables, records, memo>>
  BY DEF Enter, Working, saved, hierarchy
<1>2. EngineInvariant /\ Top = stack[1] /\ 1 \in DOMAIN stack /\ IsFrame(stack[1])
  BY <1>1, StackTop DEF Standing, EngineInvariant, Shape, Top
<1>3. PICK q \in Asks(Top) :
        /\ q \notin DOMAIN memo \cup DOMAIN scratch \cup (Active \cap Returns)
        /\ stack' = IF q \in Active THEN stack
                    ELSE <<Frame(q), [Top EXCEPT !.awaits = {q}]>> \o Tail(stack)
  BY DEF Enter
<1>4. Top.awaits = {}
  BY <1>2, <1>3 DEF EngineInvariant, Awaiting, Asks
<1>5. IsReal(q) /\ (q \in Bodies /\ q.for = NoKey => Owner(q) = stack[1].query)
  BY <1>1, <1>3, <1>4, AsksAreOwned DEF Owned
<1>6. CASE q \in Active
  BY <1>1, <1>3, <1>6, OwnedStands
<1>7. CASE q \notin Active
  <2>1. PICK x, y : x = Frame(q) /\ y = [Top EXCEPT !.awaits = {q}]
    OBVIOUS
  <2>2. /\ x.query = q /\ (x.mode = "validating" => q \in DOMAIN records)
        /\ y.query = stack[1].query /\ y.mode = stack[1].mode
    BY <1>2, <2>1, BegunOwned DEF IsFrame
  <2>3. stack' = <<x, y>> \o Tail(stack)
    BY <1>3, <1>7, <2>1
  <2>4. /\ DOMAIN stack = 1..Len(stack) /\ Len(stack) \in Nat \ {0}
        /\ DOMAIN stack' = 1..(Len(stack) + 1) /\ stack'[1] = x /\ stack'[2] = y
        /\ \A i \in DOMAIN stack : i # 1 => stack'[i + 1] = stack[i]
    BY <1>1, <1>2, <2>3, StackPush, StackTop DEF EngineInvariant, Shape
  <2>5. \A i \in DOMAIN stack : i + 1 \in DOMAIN stack' /\ stack'[i + 1].query = stack[i].query
                                /\ stack'[i + 1].mode = stack[i].mode
    BY <2>2, <2>4
  <2>6. \A i \in DOMAIN stack' : i = 1 \/ (i # 1 /\ i - 1 \in DOMAIN stack /\ (i - 1) + 1 = i)
    BY <2>4
  <2>7. Asked'
    <3> SUFFICES ASSUME NEW i \in DOMAIN stack'
                 PROVE  /\ IsReal(stack[i].query)'
                        /\ stack'[i].mode = "validating" => stack'[i].query \in DOMAIN records
      BY <1>1 DEF Owned, Asked
    <3>1. CASE i = 1
      <4>1. IsReal(q)' /\ q = stack'[i].query
        BY <1>1, <1>5, <2>2, <2>4, <3>1, RealStands
      <4> QED
        BY <2>2, <2>4, <3>1, <4>1
    <3>2. CASE i # 1
      <4>1. PICK j \in DOMAIN stack : j + 1 = i
        BY <2>6, <3>2
      <4>2. PICK r : r = stack[j].query
        OBVIOUS
      <4>3. IsReal(r)' /\ r = stack'[i].query
        BY <1>1, <2>5, <4>1, <4>2, RealStands DEF Owned, Asked
      <4>4. stack'[i].mode = "validating" => stack'[i].query \in DOMAIN records
        BY <2>5, <4>1 DEF Owned, Asked
      <4> QED
        BY <4>3, <4>4
    <3> QED
      BY <3>1, <3>2
  <2>8. OwnedBelow'
    <3> SUFFICES ASSUME NEW i \in DOMAIN stack', NEW b \in Bodies, stack'[i].query = b, b.for = NoKey
                 PROVE  \/ i + 1 \in DOMAIN stack' /\ stack'[i + 1].query = Owner(b)
                        \/ Owner(b) \in DOMAIN memo'
      BY OwnersBelow
    <3>1. CASE i = 1
      BY <1>2, <1>5, <2>2, <2>4, <2>5, <3>1
    <3>2. CASE i # 1
      <4>1. PICK j \in DOMAIN stack : j + 1 = i
        BY <2>6, <3>2
      <4>2. b = stack[j].query
        BY <2>5, <4>1
      <4>3. \/ j + 1 \in DOMAIN stack /\ stack[j + 1].query = Owner(b)
            \/ Owner(b) \in DOMAIN memo
        BY <4>2 DEF Owned, OwnedBelow
      <4> QED
        BY <1>1, <2>5, <4>1, <4>2, <4>3
    <3> QED
      BY <3>1, <3>2
  <2> QED
    BY <2>7, <2>8 DEF Owned
<1> QED
  BY <1>6, <1>7

LEMMA DemandOwned ==
    ASSUME Standing, Owned, NEW b \in DeclaredBodies, Demand(b)
    PROVE  Owned'
<1>1. stack' = <<Frame(Warmed(b))>> /\ UNCHANGED <<program, tables, records, memo>>
  BY DEF Demand, saved, hierarchy
<1>2. PICK q, x : q = Warmed(b) /\ x = Frame(q)
  OBVIOUS
<1>3. /\ DOMAIN stack' = {1} /\ stack'[1] = x
      /\ x.query = q /\ (x.mode = "validating" => q \in DOMAIN records)
  BY <1>1, <1>2, OneFrame, BegunOwned
<1>4. IsReal(q)'
  <2>1. IsReal(q)
    BY <1>2, DemandIsReal
  <2> QED
    BY <1>1, <2>1, RealStands
<1>5. Asked'
  <2>1. q = stack'[1].query
    BY <1>3
  <2>2. IsReal(stack[1].query)'
    BY <1>4, <2>1
  <2> QED
    BY <1>1, <1>3, <2>2 DEF Owned, Asked
<1>6. q \in Bodies => Owner(q) \in DOMAIN memo
  BY <1>2, DeclaredIsReal, KindsDiffer DEF Warmed
<1>7. OwnedBelow'
  BY <1>1, <1>3, <1>6, OwnersBelow
<1> QED
  BY <1>5, <1>7 DEF Owned

LEMMA NextRunOwned ==
    ASSUME NextRun
    PROVE  Owned'
<1>1. stack' = << >>
  BY DEF NextRun, AllAnswered
<1> QED
  BY <1>1, CollectedEdges, EmptyStack DEF Owned, Asked, OwnedBelow, EdgesAreReturns

LEMMA QueryOwned ==
    ASSUME Standing, Owned, Query
    PROVE  Owned'
<1>1. /\ stack # << >> /\ EngineInvariant /\ Top = stack[1] /\ IsFrame(stack[1])
      /\ UNCHANGED <<program, tables, records>>
      /\ stack[1].mode = "validating" => stack[1].query \in DOMAIN records
  BY QueriesOnly, StackTop DEF Standing, EngineInvariant, Shape, Top, hierarchy, Owned, Asked
<1>2. CASE Consult
  <2>1. PICK q, answer, heads : Answered(q, answer, heads) /\ memo' = memo
    BY <1>2 DEF Consult
  <2>2. PICK x : x = [Top EXCEPT !.answers = With(@, q, answer), !.heads = @ \cup heads,
                                 !.awaits = {}]
    OBVIOUS
  <2>3. stack' = <<x>> \o Tail(stack)
    BY <2>1, <2>2 DEF Answered
  <2>4. x.query = stack[1].query /\ x.mode = stack[1].mode
    BY <1>1, <2>2 DEF IsFrame
  <2> QED
    BY <1>1, <2>1, <2>3, <2>4, StaysOwned
<1>3. CASE GiveUp
  <2>1. PICK x : x = [Top EXCEPT !.mode = "computing", !.answers = << >>]
    OBVIOUS
  <2>2. stack' = <<x>> \o Tail(stack) /\ memo' = memo
    BY <1>3, <2>1 DEF GiveUp
  <2>3. x.query = stack[1].query /\ x.mode = "computing"
    BY <1>1, <2>1 DEF IsFrame
  <2> QED
    BY <1>1, <2>2, <2>3, StaysOwned
<1>4. CASE Iterate
  <2>1. PICK x : x = Frame(Top.query)
    OBVIOUS
  <2>2. stack' = <<x>> \o Tail(stack) /\ memo' = memo
    BY <1>4, <2>1 DEF Iterate
  <2>3. x.query = stack[1].query /\ (x.mode = "validating" => x.query \in DOMAIN records)
    BY <1>1, <2>1, BegunOwned
  <2> QED
    BY <1>1, <2>2, <2>3, StaysOwned
<1>5. CASE Finish \/ Participate \/ AscendInside \/ Converge
  <2>1. stack' = Tail(stack)
    BY <1>5 DEF Finish, Participate, AscendInside, Converge
  <2>2. DOMAIN memo \subseteq DOMAIN memo'
    BY <1>5 DEF Finish, Participate, AscendInside, Converge, With
  <2> QED
    BY <1>1, <2>1, <2>2, PopsOwned
<1> QED
  BY <1>2, <1>3, <1>4, <1>5, EnterOwned DEF Query

LEMMA OwnedKeeps ==
    ASSUME Standing, Owned, [Next]_vars
    PROVE  Owned'
<1>1. CASE Linearize
  <2>1. stack' = << >> /\ records' = records
    BY <1>1 DEF Linearize, engine
  <2> QED
    BY <2>1, EmptyStack DEF Owned, Asked, OwnedBelow
<1>2. CASE UNCHANGED vars
  BY <1>2, OwnedStands DEF vars, saved, hierarchy, engine
<1> QED
  BY <1>1, <1>2, DemandOwned, QueryOwned, NextRunOwned DEF Next

(***************************************************************************)
(* `inferred_body_types`, of salsa's `Panic`: in any program, over any     *)
(* runs and edits, whatever is stored, whichever body is demanded and in   *)
(* whatever order callees are taken, a body that no trait was pasted into  *)
(* another class-like for is never entered while it is active.  What is    *)
(* left is what the comment overlooks: the body of a trait's method.       *)
(***************************************************************************)
THEOREM OnlyPastedBodiesReenter == Spec => []OwnBodiesAreEnteredOnce
<1> DEFINE Inv == Standing /\ DepthOneInvariant /\ Owned
<1>1. Init => Inv
  <2> SUFFICES ASSUME Init PROVE Inv
    OBVIOUS
  <2>1. /\ run = 1 /\ records = << >> /\ stack = << >> /\ memo = << >>
        /\ DOMAIN stack = {} /\ DOMAIN memo = {} /\ DOMAIN scratch = {} /\ DOMAIN records = {}
        /\ DOMAIN provisional = Returns
    BY EmptyStack DEF Init
  <2>2. EngineInvariant /\ Ready /\ Owned
    BY <2>1, Idle DEF Ready, Owned, Asked, OwnedBelow
  <2>3. DepthOneInvariant
    BY NoWalkYet DEF Init, HierarchyInit
  <2> QED
    BY <2>1, <2>2, <2>3 DEF Standing, DepthOneInvariant
<1>2. Inv /\ [Next]_vars => Inv'
  BY StandingKeeps, OwnedKeeps
<1>3. Inv => OwnBodiesAreEnteredOnce
  BY EnteredOnce
<1> QED
  BY <1>1, <1>2, <1>3, PTL DEF Spec

=============================================================================
