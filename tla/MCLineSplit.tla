----------------------------- MODULE MCLineSplit -----------------------------
(***************************************************************************)
(* Every leaf of one to four lines, each of one to MCMaxLine bytes and the *)
(* last possibly empty, that is larger than a chunk, at two places.        *)
(***************************************************************************)
EXTENDS LineSplit

MCMaxLines == 4
MCMaxLine  == 2 * MaxChunkSize + 1

\* The line ends of all texts of n lines, the last of which may be empty.
AddLine(ends, width) ==
    Append(ends, (IF ends = << >> THEN 0 ELSE ends[Len(ends)]) + width)

FullLines[n \in 0..MCMaxLines] ==
    IF n = 0 THEN {<< >>}
    ELSE {AddLine(ends, w) : ends \in FullLines[n - 1], w \in 1..MCMaxLine}

Texts == {AddLine(ends, w) : ends \in UNION {FullLines[n] : n \in 0..MCMaxLines - 1},
                             w \in 0..MCMaxLine}

MCLeaves ==
    {[startByte |-> p, startRow |-> p, lineEnds |-> ends, lang |-> "go"] :
        p \in {0, 2}, ends \in {t \in Texts : t[Len(t)] > MaxChunkSize}}
=============================================================================
