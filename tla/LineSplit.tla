------------------------------ MODULE LineSplit ------------------------------
(***************************************************************************)
(* lineSplitAtom of chunker.go: an oversized node without named children   *)
(* is cut into atoms at its line breaks, and inside a line only where the  *)
(* line alone is larger than a chunk.  The atoms are appended to those the *)
(* tree walk has already collected.                                        *)
(*                                                                         *)
(* bytes.SplitAfter(nodeBytes, "\n") is represented by where its lines     *)
(* end: every line but the last ends after a newline, the last one may be  *)
(* empty.                                                                  *)
(***************************************************************************)
EXTENDS Atoms, FiniteSets

CONSTANT Leaves   \* the nodes to split

Leaf == [startByte : Nat, startRow : Nat, lineEnds : Seq(Nat), lang : STRING]

\* The lines of a node follow each other, and the last one ends where it does.
Size(n) == n.lineEnds[Len(n.lineEnds)]

OversizedLeaf(n) ==
    LET ends == n.lineEnds
    IN  /\ ends # << >>
        /\ Size(n) > MaxChunkSize
        /\ \A j \in 1..Len(ends) - 1 : ends[j] > 0
        /\ \A j, k \in 1..Len(ends) - 1 : j < k => ends[j] < ends[k]
        /\ \A j \in 1..Len(ends) - 1 : ends[j] <= Size(n)

ASSUME LeafAssumption == \A n \in Leaves : n \in Leaf /\ OversizedLeaf(n)

VARIABLES
    leaf,            \* the node
    atoms,           \* the atoms collected so far, by this call and before it
    k,               \* the line looked at
    lineOffset,      \* where it starts
    chunkStart,      \* what lies before it is flushed; both are offsets in leaf
    chunkStartRow,   \* the row from which flush counts
    ls               \* "line", "bytes" (the inner loop), "idle" (returned)

local == <<k, lineOffset, chunkStart, chunkStartRow>>
vars  == <<leaf, atoms, local, ls>>

\* bytes.Count(nodeBytes[a:b], "\n")
Newlines(a, b) ==
    Cardinality({j \in 1..Len(leaf.lineEnds) - 1 :
                    a < leaf.lineEnds[j] /\ leaf.lineEnds[j] <= b})

\* Mutant: the byte at which a piece ends, the newline, is dropped.
FlushDroppingByte(end) ==
    /\ end > chunkStart
    /\ atoms' = Append(atoms, [startByte |-> leaf.startByte + chunkStart,
                               endByte   |-> leaf.startByte + end,
                               startLine |-> chunkStartRow + 1,
                               endLine   |-> leaf.startRow + Newlines(chunkStart, end) + 1,
                               node |-> 0, parent |-> 0, isTopLevel |-> FALSE,
                               lang |-> leaf.lang])
    /\ chunkStart' = end + 1
    /\ chunkStartRow' = leaf.startRow + Newlines(chunkStart, end)

\* The closure flush, called with endRow := baseRow + bytes.Count(...) over the
\* flushed bytes.
Flush(end) ==
    LET endRow == leaf.startRow + Newlines(chunkStart, end)
        line   == [startByte  |-> leaf.startByte + chunkStart,
                   endByte    |-> leaf.startByte + end,
                   startLine  |-> chunkStartRow + 1,
                   endLine    |-> endRow + 1,
                   node       |-> 0,
                   parent     |-> 0,
                   isTopLevel |-> FALSE,
                   lang       |-> leaf.lang]
    IN  IF end <= chunkStart
        THEN UNCHANGED <<atoms, chunkStart, chunkStartRow>>
        ELSE /\ atoms' = Append(atoms, line)
             /\ chunkStart' = end
             /\ chunkStartRow' = endRow

\* lineSplitAtom(n, ...) up to the loop.
Call(n) ==
    /\ ls = "idle"
    /\ leaf' = n
    /\ k' = 1
    /\ lineOffset' = 0
    /\ chunkStart' = 0
    /\ chunkStartRow' = n.startRow
    /\ ls' = "line"
    /\ UNCHANGED atoms

-----------------------------------------------------------------------------
LineEnd == leaf.lineEnds[k]
\* Mutant: the line is measured without what has accumulated before it.
TooLongAlone == LineEnd - lineOffset > MaxChunkSize

\* Mutant: a line that would just fit is taken for too long.
TooLongByOne == LineEnd - chunkStart >= MaxChunkSize

TooLong == LineEnd - chunkStart > MaxChunkSize

\* The line does not fit behind what has accumulated, which goes first.
FlushAccumulated ==
    /\ ls = "line"
    /\ k <= Len(leaf.lineEnds)
    /\ TooLong /\ lineOffset > chunkStart
    /\ Flush(lineOffset)
    /\ ls' = "bytes"
    /\ UNCHANGED <<leaf, k, lineOffset>>

\* Mutant: a long line is cut together with what has accumulated.
KeepAlways ==
    /\ ls = "line"
    /\ k <= Len(leaf.lineEnds)
    /\ ls' = "bytes"
    /\ UNCHANGED <<leaf, atoms, local>>

KeepAccumulated ==
    /\ ls = "line"
    /\ k <= Len(leaf.lineEnds)
    /\ ~ (TooLong /\ lineOffset > chunkStart)
    /\ ls' = "bytes"
    /\ UNCHANGED <<leaf, atoms, local>>

\* An iteration of the inner loop: the line alone is too long.
SplitByBytes ==
    /\ ls = "bytes"
    /\ TooLong
    /\ Flush(chunkStart + MaxChunkSize)
    /\ UNCHANGED <<leaf, k, lineOffset, ls>>

\* Mutant: a line that is looked at again and again.
SameLineAgain ==
    /\ ls = "bytes" /\ ~ TooLong
    /\ lineOffset' = LineEnd
    /\ ls' = "line"
    /\ UNCHANGED <<leaf, atoms, k, chunkStart, chunkStartRow>>

NextLine ==
    /\ ls = "bytes"
    /\ ~ TooLong
    /\ lineOffset' = LineEnd
    /\ k' = k + 1
    /\ ls' = "line"
    /\ UNCHANGED <<leaf, atoms, chunkStart, chunkStartRow>>

\* After the loop: flush what is left, if anything is, and return.
Return ==
    /\ ls = "line"
    /\ k > Len(leaf.lineEnds)
    /\ IF chunkStart < Size(leaf)
       THEN Flush(Size(leaf))
       ELSE UNCHANGED <<atoms, chunkStart, chunkStartRow>>
    /\ ls' = "idle"
    /\ UNCHANGED <<leaf, k, lineOffset>>

Next == FlushAccumulated \/ KeepAccumulated \/ SplitByBytes \/ NextLine \/ Return

-----------------------------------------------------------------------------
\* The call on its own: entered with no atom collected before it.
Init ==
    /\ leaf \in Leaves
    /\ atoms = << >>
    /\ k = 1
    /\ lineOffset = 0
    /\ chunkStart = 0
    /\ chunkStartRow = leaf.startRow
    /\ ls = "line"

\* lineSplitAtom is a loop of one goroutine: it keeps running.
Spec == Init /\ [][Next]_vars /\ WF_vars(Next)

LineAtom ==
    [startByte : Nat, endByte : Nat, startLine : Nat, endLine : Nat,
     node : {0}, parent : {0}, isTopLevel : {FALSE}, lang : STRING]

\* Every variable has the type lineSplitAtom gives it.
TypeOK ==
    /\ leaf \in Leaf
    /\ atoms \in Seq(LineAtom)
    /\ k \in 1..Len(leaf.lineEnds) + 1
    /\ lineOffset \in 0..Size(leaf)
    /\ chunkStart \in 0..Size(leaf)
    /\ chunkStartRow \in Nat
    /\ ls \in {"line", "bytes", "idle"}

\* The atoms cut from a leaf tile what lineSplitAtom has flushed of it, and all
\* of it when the call returns: no byte of an oversized leaf is dropped or
\* duplicated, however its line breaks lie.
Tiling ==
    /\ chunkStart = 0 <=> atoms = << >>
    /\ atoms # << >> =>
        /\ atoms[1].startByte = leaf.startByte
        /\ atoms[Len(atoms)].endByte = leaf.startByte + chunkStart
    /\ \A j \in 1..Len(atoms) - 1 : atoms[j].endByte = atoms[j + 1].startByte
    /\ ls = "idle" => chunkStart = Size(leaf)

\* Every atom that lineSplitAtom makes holds text and fits in a chunk.
PiecesFit ==
    \A j \in 1..Len(atoms) :
        atoms[j].endByte - atoms[j].startByte \in 1..MaxChunkSize

\* An atom that ends inside a line was cut from a line larger than a chunk: a
\* line that fits is never cut, not even behind the remainder of a long one.
\* LineStart(j) is where line j begins.
LineStart(j) == IF j = 1 THEN 0 ELSE leaf.lineEnds[j - 1]
OnlyLongLinesCut ==
    \A a \in 1..Len(atoms), j \in 1..Len(leaf.lineEnds) :
        LET end == atoms[a].endByte - leaf.startByte
        IN  LineStart(j) < end /\ end < leaf.lineEnds[j]
                => leaf.lineEnds[j] - LineStart(j) > MaxChunkSize

\* No atom is shorter than it must be: one that does not reach the end of the
\* leaf is as large as a chunk, or it ends behind a line and the next line would
\* not have fitted with it.
PiecesFull ==
    \A a \in 1..Len(atoms) :
        LET start == atoms[a].startByte - leaf.startByte
            end   == atoms[a].endByte - leaf.startByte
        IN  \/ end = Size(leaf)
            \/ end - start = MaxChunkSize
            \/ \E j \in 1..Len(leaf.lineEnds) - 1 :
                   leaf.lineEnds[j] = end /\ leaf.lineEnds[j + 1] - start > MaxChunkSize

\* "Start Position // start of the chunk in the source file": the line number
\* an atom carries is that of the row on which its first byte lies.
StartLineIsTrue ==
    \A a \in 1..Len(atoms) :
        atoms[a].startLine =
            leaf.startRow + Newlines(0, atoms[a].startByte - leaf.startByte) + 1
=============================================================================
