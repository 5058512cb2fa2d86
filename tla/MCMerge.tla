------------------------------- MODULE MCMerge -------------------------------
(***************************************************************************)
(* Every sequence of up to four atoms of four shapes, with one byte or     *)
(* none before each: a plain and a top-level atom, an atom as large as a   *)
(* chunk may be, and an atom that an injection left in another language.   *)
(***************************************************************************)
EXTENDS Merge

MCMaxAtoms == 4

Shape(w, top, l) ==
    {[gap |-> g, width |-> w, isTopLevel |-> top, lang |-> l] : g \in 0..1}

Shapes ==
    Shape(1, FALSE, "vue") \cup Shape(2, TRUE, "vue")
        \cup Shape(MaxChunkSize, FALSE, "vue") \cup Shape(2, TRUE, "typescript")

\* Atoms laid out one after the other, each relative to the end of the last.
Place(s, d) ==
    LET end   == IF s = << >> THEN 0 ELSE s[Len(s)].endByte
        start == end + d.gap
    IN  Append(s, [startByte  |-> start,        endByte |-> start + d.width,
                   startLine  |-> 1,            endLine |-> 1,
                   node       |-> 0,            parent  |-> 0,
                   isTopLevel |-> d.isTopLevel, lang    |-> d.lang])

OfLength[n \in 0..MCMaxAtoms] ==
    IF n = 0 THEN {<< >>} ELSE {Place(s, d) : s \in OfLength[n - 1], d \in Shapes}

MCAtomSeqs == UNION {OfLength[n] : n \in 0..MCMaxAtoms}
=============================================================================
