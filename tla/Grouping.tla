------------------------------ MODULE Grouping ------------------------------
(***************************************************************************)
(* What the merge phase promises, one chunk at a time: the atoms are       *)
(* partitioned, from left to right, into the longest runs of consecutive   *)
(* atoms in which no atom breaks the run before it; each run is a chunk.   *)
(***************************************************************************)
EXTENDS Atoms

VARIABLES
    atoms,    \* the input: any atom sequence, never written
    next,     \* the first atom that is in no chunk yet
    chunks    \* the chunks produced so far

MaximalRun(g, l) ==
    /\ \A j \in g + 1..l : ~ Breaks(atoms, g, j)
    /\ l < Len(atoms) => Breaks(atoms, g, l + 1)

Init ==
    /\ next = 1
    /\ chunks = << >>

EmitChunk ==
    \E l \in next..Len(atoms) :
        /\ MaximalRun(next, l)
        /\ chunks' = Append(chunks, Chunk(atoms, next, l))
        /\ next' = l + 1
        /\ UNCHANGED atoms

Spec == Init /\ [][EmitChunk]_<<atoms, next, chunks>>
=============================================================================
