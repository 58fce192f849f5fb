------------------------------- MODULE Edits -------------------------------
(***************************************************************************)
(* Text edits: the conflict question and the splice of celerrate_edit.     *)
(*                                                                         *)
(* An edit replaces [start, end) of a text.  `fix` and `place` say which   *)
(* fix it belongs to and where it stands in it: they keep two equal edits  *)
(* apart, as two positions of a list do.  The code breaks the tie of two   *)
(* equal ranges by their replacement; two equal ranges always clash, so    *)
(* which tie-break is taken changes no answer.                             *)
(***************************************************************************)
EXTENDS Naturals, Sequences, FiniteSets, Functions, SequencesExt

Before(e, g) ==
    \/ e.start < g.start
    \/ e.start = g.start /\ e.end < g.end
    \/ e.start = g.start /\ e.end = g.end /\ e.fix < g.fix
    \/ e.start = g.start /\ e.end = g.end /\ e.fix = g.fix /\ e.place < g.place

\* A range, and which edit of which fix it is.
Ranged(e) == e.start \in Nat /\ e.end \in Nat /\ e.start <= e.end
Placed(e) == e.fix \in Nat /\ e.place \in Nat

\* Mutant: two insertions at one offset are let through.
Intersects(e, g) == e.end > g.start

\* What the code asks of two neighbours, e before g.
Clash(e, g) ==
    \/ e.end > g.start
    \/ e.start = g.start /\ e.end = g.end /\ e.start = e.end

Neighbours(edits, e, g) ==
    /\ Before(e, g)
    /\ \A x \in edits : ~(Before(e, x) /\ Before(x, g))

FindConflict(edits) ==
    \E e, g \in edits : Neighbours(edits, e, g) /\ Clash(e, g)

\* Two edits that may stand in one plan, whatever their order: their ranges
\* share no text, neither inserts inside the other, and they do not race to
\* insert at one offset.
Apart(e, g) ==
    /\ e.end <= g.start \/ g.end <= e.start
    /\ ~(e.start = e.end /\ g.start = g.end /\ e.start = g.start)

\* The edits of a set in their order.
Sorted(edits) ==
    CHOOSE order \in Bijection(1..Cardinality(edits), edits) :
        \A i, j \in DOMAIN order : i < j => Before(order[i], order[j])

\* Mutant: the replaced text is kept.
Uncut(text, order) ==
    LET pass[n \in 0..Len(order)] ==
            IF n = 0 THEN [out |-> << >>, cursor |-> 0]
            ELSE [out    |-> pass[n - 1].out
                                \o SubSeq(text, pass[n - 1].cursor + 1, order[n].start)
                                \o order[n].replacement,
                  cursor |-> order[n].start]
    IN  pass

\* One pass over the edits, with a cursor in the text: what is written after the
\* first n.
Pass(text, order) ==
    LET pass[n \in 0..Len(order)] ==
            IF n = 0 THEN [out |-> << >>, cursor |-> 0]
            ELSE [out    |-> pass[n - 1].out
                                \o SubSeq(text, pass[n - 1].cursor + 1, order[n].start)
                                \o order[n].replacement,
                  cursor |-> order[n].end]
    IN  pass

Splice(text, edits) ==
    LET order == Sorted(edits)
        last  == Pass(text, order)[Len(order)]
    IN  last.out \o SubSeq(text, last.cursor + 1, Len(text))

----------------------------------------------------------------------------
(* What an edit set means, offset by offset and in no order                 *)

TextOf(edits) == IF edits = {} THEN << >> ELSE (CHOOSE e \in edits : TRUE).replacement

Inserted(edits, o) == TextOf({e \in edits : e.start = o /\ e.end = o})
Replaced(edits, o) == TextOf({e \in edits : e.start = o /\ e.end # o})

Kept(text, edits, o) ==
    IF o < Len(text) /\ ~\E e \in edits : e.start <= o /\ o < e.end
    THEN <<text[o + 1]>> ELSE << >>

\* An insertion, then the replacement that starts there, then the token no
\* replacement covers.
Patched(text, edits) ==
    FlattenSeq([i \in 1..(Len(text) + 1) |->
        Inserted(edits, i - 1) \o Replaced(edits, i - 1) \o Kept(text, edits, i - 1)])
============================================================================
