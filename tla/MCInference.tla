---------------------------- MODULE MCInference ----------------------------
(***************************************************************************)
(* Inference over three functions, two classes and a trait.                *)
(***************************************************************************)
EXTENDS Inference, TLC

CONSTANTS f, g, h, s, A, B, T, S, m, n, Int,
          int, throws, documented, callsF, callsG, callsBoth, callsB, wraps, chains,
          drops, nests, asksG,
          plainA, mutualA, documentsM, usesT, adaptsT, closesB, heir, overrides,
          traitM, traitNests, traitRec, traitSelf, traitN, usesH, usesBoth

Code(declared, returns, calls) == [declared |-> declared, returns |-> returns, calls |-> calls]

Call(on, name, candidates, returned, wrapped) ==
    [on |-> on, name |-> name, candidates |-> candidates, returned |-> returned, wrapped |-> wrapped]
CallTo(candidates) == Call("function", NoKey, candidates, TRUE, FALSE)
CallOn(receiver, name) == Call(receiver, name, << >>, TRUE, FALSE)

FunctionTexts ==
    {int, throws, documented, callsF, callsG, callsBoth, callsB, wraps, chains, drops, nests,
     asksG}
ClassTexts == {plainA, mutualA, documentsM, usesT, adaptsT, closesB, heir, overrides,
               traitM, traitNests, traitRec, traitSelf, traitN, usesH, usesBoth}
MCTexts == FunctionTexts \cup ClassTexts

\* The qualified name of a function called from a namespace is tried first.
MCFunctionOf ==
    [t \in FunctionTexts |->
        CASE t = int        -> Code(Undeclared, {Int}, << >>)
          [] t = throws     -> Code(Undeclared, {}, << >>)
          [] t = documented -> Code({Int}, {Int, Null}, << >>)
          [] t = callsF     -> Code(Undeclared, {Null}, <<CallTo(<<f>>)>>)
          [] t = callsG     -> Code(Undeclared, {Int}, <<CallTo(<<h, g>>)>>)
          [] t = callsBoth  -> Code(Undeclared, {}, <<CallTo(<<g>>), CallTo(<<f>>)>>)
          [] t = callsB     -> Code(Undeclared, {}, <<CallOn(B, m), CallOn(A, m)>>)
          [] t = wraps      -> Code(Undeclared, {Int}, <<Call("function", NoKey, <<f>>, TRUE, TRUE)>>)
          [] t = chains     -> Code(Undeclared, {A},
                <<Call("function", NoKey, <<g>>, FALSE, FALSE), CallOn("result", m)>>)
          [] t = drops      -> Code(Undeclared, {Null}, <<Call("function", NoKey, <<g>>, FALSE, FALSE)>>)
          [] t = nests      -> Code(Undeclared, {Int}, <<CallTo(<<h>>), CallTo(<<f>>)>>)
          [] t = asksG      -> Code(Undeclared, {}, <<CallTo(<<g>>)>>)]

Class(kind, own, uses, extends, code) ==
    [kind |-> kind, own |-> own, virtual |-> {}, uses |-> uses, extends |-> extends,
     implements |-> << >>, code |-> code]

OnlyM(body) == [x \in {m} |-> body]
OnlyN(body) == [x \in {n} |-> body]

MCClassOf ==
    [t \in ClassTexts |->
        CASE t = plainA    -> Class("class", <<m>>, << >>, <<S>>,
                                    OnlyM(Code(Undeclared, {Static}, <<CallTo(<<g>>)>>)))
          [] t = mutualA   -> Class("class", <<m, n>>, << >>, << >>,
                                    [x \in {m, n} |->
                                        IF x = m THEN Code(Undeclared, {}, <<CallOn(This, n)>>)
                                        ELSE Code(Undeclared, {Null}, <<CallOn(This, m)>>)])
          [] t = documentsM -> Class("class", <<m>>, << >>, << >>, OnlyM(Code({Int}, {Null}, << >>)))
          [] t = usesT     -> Class("class", <<n>>, <<[trait |-> T, adapt |-> Unadapted]>>, << >>,
                                    OnlyN(Code(Undeclared, {Int}, << >>)))
          [] t = adaptsT   -> Class("class", << >>,
                                    <<[trait |-> T, adapt |-> [losers |-> {}, aliases |->
                                        {[member |-> n, trait |-> NoKey, alias |-> m]}]]>>,
                                    << >>, << >>)
          [] t = closesB   -> Class("class", << >>, << >>, <<B>>, << >>)
          [] t = heir      -> Class("class", << >>, << >>, <<A>>, << >>)
          [] t = overrides -> Class("class", <<n>>, << >>, <<A>>, OnlyN(Code(Undeclared, {Self}, << >>)))
          [] t = traitM    -> Class("trait", <<m>>, << >>, << >>,
                                    OnlyM(Code(Undeclared, {Self}, <<CallOn(This, n)>>)))
          [] t = traitNests -> Class("trait", <<n>>, <<[trait |-> h, adapt |-> Unadapted]>>, << >>,
                                    OnlyN(Code(Undeclared, {Static}, << >>)))
          [] t = traitSelf -> Class("trait", <<m>>, << >>, << >>, OnlyM(Code(Undeclared, {Self}, << >>)))
          [] t = traitN    -> Class("trait", <<n>>, << >>, << >>, OnlyN(Code(Undeclared, {Static}, << >>)))
          [] t = usesH     -> Class("class", << >>, <<[trait |-> h, adapt |-> Unadapted]>>, << >>, << >>)
          [] t = usesBoth  -> Class("class", << >>, <<[trait |-> T, adapt |-> Unadapted]>>, <<A>>, << >>)
          [] t = traitRec  -> Class("trait", <<m>>, << >>, << >>,
                                    OnlyM(Code(Undeclared, {Self}, <<CallOn(This, m)>>)))]

\* The stubs: a function, and a class whose parent they do not carry.
MCStubFunctions == s :> {Int}
MCStubParents == S :> {Int}
MCStubMethods == S :> {n}
MCEnumParents == <<S>>

Program(ff, gg, hh, aa, bb, tt) ==
    [k \in Keys |-> CASE k = f -> ff [] k = g -> gg [] k = h -> hh
                      [] k = A -> aa [] k = B -> bb [] k = T -> tt]

MCInitialPrograms ==
    {Program(callsG, callsF, NoText, plainA, heir, NoText),
     Program(callsB, callsBoth, NoText, mutualA, overrides, NoText),
     Program(callsB, NoText, traitM, usesT, heir, traitNests),
     Program(chains, throws, NoText, plainA, heir, NoText),
     Program(wraps, callsF, NoText, closesB, overrides, NoText),
     Program(drops, nests, asksG, plainA, heir, NoText)}

\* One file is rewritten; no file appears, and none disappears.
MCEdits(p) ==
    {[p EXCEPT ![f] = t] : t \in {callsG, int}}
    \cup {[p EXCEPT ![g] = t] : t \in IF p[g] = NoText THEN {} ELSE {int, throws, documented, callsBoth}}
    \cup {[p EXCEPT ![A] = t] : t \in {plainA, mutualA} \cup (IF p[T] = NoText THEN {} ELSE {adaptsT})
                                   \cup (IF p[f] = callsB THEN {documentsM} ELSE {})}
    \cup {[p EXCEPT ![B] = t] : t \in {heir, overrides}}

\* A caller of two candidates, of which only the second exists; then the first
\* appears.
ShadowedPrograms == {Program(callsG, int, NoText, NoText, NoText, NoText)}
Shadowing(p) == {[p EXCEPT ![h] = callsF]}

\* A class uses a trait that uses another, and its parent uses that one too; then
\* only the parent does.
SharedTraitPrograms == {Program(callsB, NoText, traitSelf, usesH, usesBoth, traitNests)}
Unsharing(p) == {[p EXCEPT ![T] = traitN]}

\* A trait's method that calls itself, first reached through an heir of its user.
ReentrantPrograms == {Program(callsB, NoText, NoText, usesT, heir, traitRec)}
Unedited(p) == {}
============================================================================
