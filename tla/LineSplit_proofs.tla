--------------------------- MODULE LineSplit_proofs ---------------------------
(***************************************************************************)
(* For every chunk size and every oversized leaf, the atoms that           *)
(* lineSplitAtom makes tile the leaf, fit in a chunk, cut only lines that  *)
(* are themselves too long, and are no shorter than that leaves them.      *)
(***************************************************************************)
EXTENDS LineSplit, TLAPS, FiniteSetTheorems

\* Between lines, what has accumulated ends where the line looked at starts and
\* fits in a chunk.
BetweenLines ==
    ls = "line" =>
        /\ lineOffset = LineStart(k)
        /\ chunkStart <= lineOffset
        /\ lineOffset - chunkStart <= MaxChunkSize

\* In the inner loop, either the line still fits behind what has accumulated or
\* nothing from before the line is left.
InsideLine ==
    ls = "bytes" =>
        /\ k <= Len(leaf.lineEnds)
        /\ lineOffset = LineStart(k)
        /\ chunkStart <= LineEnd
        /\ TooLong => lineOffset <= chunkStart

\* When the call has returned, nothing is left.
AllFlushed == ls = "idle" => chunkStart = Size(leaf)

\* The loop without the atoms it makes.
Progress ==
    /\ leaf \in Leaf /\ OversizedLeaf(leaf)
    /\ k \in 1..Len(leaf.lineEnds) + 1
    /\ lineOffset \in 0..Size(leaf)
    /\ chunkStart \in 0..Size(leaf)
    /\ chunkStartRow \in Nat
    /\ ls \in {"line", "bytes", "idle"}
    /\ BetweenLines
    /\ InsideLine
    /\ AllFlushed

IInv ==
    /\ Progress
    /\ atoms \in Seq(LineAtom)
    /\ Tiling
    /\ PiecesFit
    /\ OnlyLongLinesCut
    /\ PiecesFull

-----------------------------------------------------------------------------
LEMMA NewlinesIsNat ==
    ASSUME leaf \in Leaf, NEW a, NEW b
    PROVE  Newlines(a, b) \in Nat
  <1> DEFINE all == 1..Len(leaf.lineEnds) - 1
             S   == {j \in all : a < leaf.lineEnds[j] /\ leaf.lineEnds[j] <= b}
  <1>1. Len(leaf.lineEnds) \in Nat
    BY DEF Leaf
  <1>2. IsFiniteSet(all)
    BY <1>1, FS_Interval
  <1>3. IsFiniteSet(S)
    BY <1>2, FS_Subset
  <1>4. QED
    BY <1>3, FS_CardinalityType DEF Newlines

\* The line ends of a leaf grow, and none lies past its end.
LEMMA LineEnds ==
    ASSUME leaf \in Leaf, OversizedLeaf(leaf)
    PROVE  /\ Len(leaf.lineEnds) \in Nat \ {0}
           /\ Size(leaf) \in Nat
           /\ \A j \in 1..Len(leaf.lineEnds) :
                 /\ leaf.lineEnds[j] \in 0..Size(leaf)
                 /\ LineStart(j) \in 0..leaf.lineEnds[j]
           /\ \A j, m \in 1..Len(leaf.lineEnds) :
                 j < m => leaf.lineEnds[j] <= LineStart(m)
           /\ \A j \in 1..Len(leaf.lineEnds) : LineStart(j + 1) = leaf.lineEnds[j]
           /\ LineStart(1) = 0
  <1> DEFINE ends == leaf.lineEnds
  <1>1. /\ ends \in Seq(Nat) /\ ends # << >>
        /\ Len(ends) \in Nat \ {0}
        /\ \A j \in 1..Len(ends) : ends[j] \in Nat
    BY DEF Leaf, OversizedLeaf
  <1>2. Size(leaf) = ends[Len(ends)] /\ Size(leaf) \in Nat
    BY <1>1 DEF Size
  <1>3. /\ \A j, m \in 1..Len(ends) - 1 : j < m => ends[j] < ends[m]
        /\ \A j \in 1..Len(ends) - 1 : ends[j] <= Size(leaf)
    BY DEF OversizedLeaf
  <1>4. \A j, m \in 1..Len(ends) : j < m => ends[j] <= ends[m]
    <2>1. SUFFICES ASSUME NEW j \in 1..Len(ends), NEW m \in 1..Len(ends), j < m
                   PROVE  ends[j] <= ends[m]
      OBVIOUS
    <2>2. j \in 1..Len(ends) - 1
      BY <1>1, <2>1
    <2>3. CASE m = Len(ends)
      BY <1>2, <1>3, <2>2, <2>3
    <2>4. CASE m # Len(ends)
      <3>1. m \in 1..Len(ends) - 1
        BY <1>1, <2>4
      <3>2. ends[j] < ends[m] /\ ends[j] \in Nat /\ ends[m] \in Nat
        BY <1>1, <1>3, <2>1, <2>2, <3>1
      <3>3. QED
        BY <3>2
    <2>5. QED
      BY <2>3, <2>4
  <1>5. \A j \in 1..Len(ends) : ends[j] \in 0..Size(leaf)
    BY <1>1, <1>2, <1>4
  <1>6. ASSUME NEW j \in 1..Len(ends)
        PROVE  /\ LineStart(j) \in 0..ends[j]
               /\ LineStart(j + 1) = ends[j]
    <2>1. CASE j = 1
      BY <1>1, <2>1 DEF LineStart
    <2>2. CASE j # 1
      BY <1>1, <1>4, <2>2 DEF LineStart
    <2>3. QED
      BY <2>1, <2>2
  <1>7. ASSUME NEW j \in 1..Len(ends), NEW m \in 1..Len(ends), j < m
        PROVE  ends[j] <= LineStart(m)
    <2>1. m # 1 /\ m - 1 \in 1..Len(ends) /\ j <= m - 1
      BY <1>1, <1>7
    <2>2. CASE j = m - 1
      BY <1>1, <2>1, <2>2 DEF LineStart
    <2>3. CASE j < m - 1
      BY <1>4, <2>1, <2>3 DEF LineStart
    <2>4. QED
      BY <2>1, <2>2, <2>3
  <1>8. QED
    BY <1>1, <1>2, <1>5, <1>6, <1>7 DEF LineStart

-----------------------------------------------------------------------------
\* The piece that ends there goes to the end of the leaf, is as large as a chunk,
\* or ends behind a line that the next one does not fit with.
Full(end) ==
    \/ end = Size(leaf)
    \/ end - chunkStart = MaxChunkSize
    \/ \E j \in 1..Len(leaf.lineEnds) - 1 :
           leaf.lineEnds[j] = end /\ leaf.lineEnds[j + 1] - chunkStart > MaxChunkSize

\* Where the three call sites of flush cut: behind chunkStart, no further than
\* a chunk, inside the leaf, inside a line only if that line is too long, and not
\* before the piece is full.
GoodCut(end) ==
    /\ end \in 1..Size(leaf)
    /\ end - chunkStart \in 1..MaxChunkSize
    /\ \A j \in 1..Len(leaf.lineEnds) :
          LineStart(j) < end /\ end < leaf.lineEnds[j]
              => leaf.lineEnds[j] - LineStart(j) > MaxChunkSize
    /\ Full(end)

\* A cut at the start or the end of a line goes through no line.
LEMMA LineBreakIsGoodCut ==
    ASSUME Progress, NEW m \in 1..Len(leaf.lineEnds),
           leaf.lineEnds[m] - chunkStart \in 1..MaxChunkSize,
           Full(leaf.lineEnds[m])
    PROVE  GoodCut(leaf.lineEnds[m])
  <1> DEFINE ends == leaf.lineEnds
  <1>1. /\ Len(ends) \in Nat \ {0}
        /\ \A j \in 1..Len(ends) : ends[j] \in 0..Size(leaf) /\ LineStart(j) \in 0..ends[j]
        /\ \A j, n \in 1..Len(ends) : j < n => ends[j] <= LineStart(n)
        /\ Size(leaf) \in Nat
    BY LineEnds DEF Progress
  <1>2. ASSUME NEW j \in 1..Len(ends), LineStart(j) < ends[m], ends[m] < ends[j]
        PROVE  FALSE
    <2>1. CASE m < j
      BY <1>1, <1>2, <2>1
    <2>2. CASE j < m
      <3>1. ends[j] <= LineStart(m) /\ LineStart(m) <= ends[m]
        BY <1>1, <2>2
      <3>2. QED
        BY <1>1, <1>2, <3>1
    <2>3. CASE j = m
      BY <1>1, <1>2, <2>3
    <2>4. QED
      BY <1>1, <2>1, <2>2, <2>3
  <1>3. ends[m] \in 1..Size(leaf)
    BY <1>1 DEF Progress
  <1>4. QED
    BY <1>2, <1>3 DEF GoodCut

\* Each call of flush is at a good cut.
LEMMA EveryCutIsGood ==
    ASSUME Progress
    PROVE  /\ FlushAccumulated => GoodCut(lineOffset)
           /\ SplitByBytes => GoodCut(chunkStart + MaxChunkSize)
           /\ Return /\ chunkStart < Size(leaf) => GoodCut(Size(leaf))
  <1> DEFINE ends == leaf.lineEnds
  <1>1. /\ Len(ends) \in Nat \ {0}
        /\ Size(leaf) \in Nat
        /\ \A j \in 1..Len(ends) : ends[j] \in 0..Size(leaf) /\ LineStart(j) \in 0..ends[j]
        /\ \A j, n \in 1..Len(ends) : j < n => ends[j] <= LineStart(n)
        /\ \A j \in 1..Len(ends) : LineStart(j + 1) = ends[j]
        /\ LineStart(1) = 0
    BY LineEnds DEF Progress
  <1>2. /\ k \in 1..Len(ends) + 1
        /\ chunkStart \in Nat /\ lineOffset \in Nat
        /\ MaxChunkSize \in Nat \ {0}
    BY <1>1, SizeAssumption DEF Progress
  <1>3. ASSUME FlushAccumulated PROVE GoodCut(lineOffset)
    <2>1. /\ ls = "line" /\ k <= Len(ends) /\ lineOffset > chunkStart
          /\ lineOffset = LineStart(k) /\ lineOffset - chunkStart <= MaxChunkSize
      BY <1>3 DEF FlushAccumulated, Progress, BetweenLines
    <2>2. k # 1
      BY <1>1, <1>2, <2>1
    <2>3. k - 1 \in 1..Len(ends) /\ lineOffset = ends[k - 1]
      BY <1>1, <1>2, <2>1, <2>2 DEF LineStart
    <2>4. lineOffset - chunkStart \in 1..MaxChunkSize
      BY <1>1, <1>2, <2>1, <2>3
    <2>5. Full(lineOffset)
      <3>1. ends[k] - chunkStart > MaxChunkSize /\ k - 1 \in 1..Len(ends) - 1
        BY <1>1, <1>2, <1>3, <2>1, <2>3 DEF FlushAccumulated, TooLong, LineEnd
      <3>2. ends[k - 1] = lineOffset /\ ends[(k - 1) + 1] - chunkStart > MaxChunkSize
        BY <1>2, <2>3, <3>1
      <3>3. QED
        BY <3>1, <3>2 DEF Full
    <2>6. QED
      BY <2>3, <2>4, <2>5, LineBreakIsGoodCut
  <1>4. ASSUME SplitByBytes PROVE GoodCut(chunkStart + MaxChunkSize)
    <2>1. /\ ls = "bytes" /\ k \in 1..Len(ends) /\ lineOffset = LineStart(k)
          /\ lineOffset <= chunkStart /\ ends[k] - chunkStart > MaxChunkSize
      BY <1>2, <1>4 DEF SplitByBytes, Progress, InsideLine, TooLong, LineEnd
    <2>2. chunkStart + MaxChunkSize \in 1..Size(leaf)
      BY <1>1, <1>2, <2>1
    <2>3. ASSUME NEW j \in 1..Len(ends), LineStart(j) < chunkStart + MaxChunkSize,
                 chunkStart + MaxChunkSize < ends[j]
          PROVE  ends[j] - LineStart(j) > MaxChunkSize
      <3>1. j = k
        <4>1. CASE j < k
          BY <1>1, <1>2, <2>1, <2>3, <4>1
        <4>2. CASE k < j
          BY <1>1, <1>2, <2>1, <2>3, <4>2
        <4>3. QED
          BY <2>1, <4>1, <4>2
      <3>2. QED
        BY <1>1, <1>2, <2>1, <3>1
    <2>4. Full(chunkStart + MaxChunkSize)
      BY <1>2 DEF Full
    <2>5. QED
      BY <1>2, <2>2, <2>3, <2>4 DEF GoodCut
  <1>5. ASSUME Return, chunkStart < Size(leaf) PROVE GoodCut(Size(leaf))
    <2>1. /\ ls = "line" /\ k > Len(ends) /\ chunkStart < Size(leaf)
          /\ lineOffset = LineStart(k) /\ lineOffset - chunkStart <= MaxChunkSize
      BY <1>5 DEF Return, Progress, BetweenLines
    <2>2. k = Len(ends) + 1 /\ Len(ends) \in 1..Len(ends)
      BY <1>1, <1>2, <2>1
    <2>3. lineOffset = ends[Len(ends)] /\ Size(leaf) = ends[Len(ends)]
      BY <1>1, <2>1, <2>2 DEF Size
    <2>4. Size(leaf) - chunkStart \in 1..MaxChunkSize
      BY <1>1, <1>2, <2>1, <2>3
    <2>5. Full(Size(leaf))
      BY DEF Full
    <2>6. QED
      BY <2>2, <2>3, <2>4, <2>5, LineBreakIsGoodCut
  <1>6. QED
    BY <1>3, <1>4, <1>5

\* Every step of the loop cuts off one atom at a good cut or makes none, and the
\* loop goes on as Progress says.
LEMMA ProgressStep ==
    ASSUME Progress, Next
    PROVE  /\ Progress'
           /\ leaf' = leaf
           /\ \/ UNCHANGED <<atoms, chunkStart>>
              \/ \E end : GoodCut(end) /\ Flush(end)
  <1> DEFINE ends == leaf.lineEnds
  <1>1. /\ Len(ends) \in Nat \ {0}
        /\ Size(leaf) \in Nat
        /\ \A j \in 1..Len(ends) : ends[j] \in 0..Size(leaf) /\ LineStart(j) \in 0..ends[j]
        /\ \A j \in 1..Len(ends) : LineStart(j + 1) = ends[j]
    BY LineEnds DEF Progress
  <1>2. /\ k \in 1..Len(ends) + 1
        /\ chunkStart \in Nat /\ lineOffset \in Nat
        /\ MaxChunkSize \in Nat \ {0}
    BY <1>1, SizeAssumption DEF Progress
  <1>3. ASSUME NEW end, GoodCut(end), Flush(end)
        PROVE  chunkStart' = end /\ end \in 1..Size(leaf) /\ chunkStartRow' \in Nat
    <2>1. leaf \in Leaf /\ leaf.startRow \in Nat
      BY DEF Progress, Leaf
    <2>2. Newlines(chunkStart, end) \in Nat
      BY <2>1, NewlinesIsNat
    <2>3. end \in 1..Size(leaf) /\ chunkStart < end
      BY <1>1, <1>2, <1>3 DEF GoodCut
    <2>4. QED
      BY <1>1, <1>2, <1>3, <2>1, <2>2, <2>3 DEF Flush
  <1>4. CASE FlushAccumulated
    <2>1. /\ ls = "line" /\ ls' = "bytes" /\ k \in 1..Len(ends) /\ Flush(lineOffset)
          /\ leaf' = leaf /\ k' = k /\ lineOffset' = lineOffset
      BY <1>2, <1>4 DEF FlushAccumulated
    <2>2. GoodCut(lineOffset)
      BY <1>4, EveryCutIsGood
    <2>3. /\ chunkStart' = lineOffset /\ lineOffset \in 1..Size(leaf)
          /\ chunkStartRow' \in Nat
      BY <1>3, <2>1, <2>2
    <2>4. lineOffset = LineStart(k)
      BY <2>1 DEF Progress, BetweenLines
    <2>5. InsideLine'
      BY <1>1, <1>2, <2>1, <2>3, <2>4 DEF InsideLine, LineEnd, TooLong, LineStart
    <2>6. Progress'
      BY <1>1, <2>1, <2>3, <2>5 DEF Progress, BetweenLines, AllFlushed
    <2>7. QED
      BY <2>1, <2>2, <2>6
  <1>5. CASE KeepAccumulated
    <2>1. /\ ls = "line" /\ ls' = "bytes" /\ k \in 1..Len(ends)
          /\ ~ (TooLong /\ lineOffset > chunkStart)
          /\ UNCHANGED <<leaf, atoms, k, lineOffset, chunkStart, chunkStartRow>>
      BY <1>2, <1>5 DEF KeepAccumulated, local
    <2>2. lineOffset = LineStart(k) /\ chunkStart <= lineOffset
      BY <2>1 DEF Progress, BetweenLines
    <2>3. chunkStart <= ends[k]
      BY <1>1, <1>2, <2>1, <2>2
    <2>4. InsideLine'
      BY <1>1, <1>2, <2>1, <2>2, <2>3 DEF InsideLine, LineEnd, TooLong, LineStart
    <2>5. Progress'
      BY <2>1, <2>4 DEF Progress, BetweenLines, AllFlushed
    <2>6. QED
      BY <2>1, <2>5
  <1>6. CASE SplitByBytes
    <2>1. /\ ls = "bytes" /\ ls' = "bytes" /\ TooLong
          /\ Flush(chunkStart + MaxChunkSize)
          /\ leaf' = leaf /\ k' = k /\ lineOffset' = lineOffset
      BY <1>6 DEF SplitByBytes
    <2>2. GoodCut(chunkStart + MaxChunkSize)
      BY <1>6, EveryCutIsGood
    <2>3. /\ chunkStart' = chunkStart + MaxChunkSize
          /\ chunkStart + MaxChunkSize \in 1..Size(leaf)
          /\ chunkStartRow' \in Nat
      BY <1>3, <2>1, <2>2
    <2>4. /\ k \in 1..Len(ends) /\ lineOffset = LineStart(k)
          /\ lineOffset <= chunkStart /\ ends[k] - chunkStart > MaxChunkSize
      BY <1>2, <2>1 DEF Progress, InsideLine, TooLong, LineEnd
    <2>5. lineOffset <= chunkStart' /\ chunkStart' <= ends[k]
      BY <1>1, <1>2, <2>3, <2>4
    <2>6. InsideLine'
      BY <2>1, <2>4, <2>5 DEF InsideLine, LineEnd, TooLong, LineStart
    <2>7. Progress'
      BY <1>1, <2>1, <2>3, <2>6 DEF Progress, BetweenLines, AllFlushed
    <2>8. QED
      BY <2>1, <2>2, <2>7
  <1>7. CASE NextLine
    <2>1. /\ ls = "bytes" /\ ls' = "line" /\ ~ TooLong
          /\ k' = k + 1 /\ lineOffset' = ends[k]
          /\ UNCHANGED <<leaf, atoms, chunkStart, chunkStartRow>>
      BY <1>7 DEF NextLine, LineEnd
    <2>2. k \in 1..Len(ends) /\ chunkStart <= ends[k]
      BY <1>2, <2>1 DEF Progress, InsideLine, LineEnd
    <2>3. ends[k] \in 0..Size(leaf) /\ ends[k] - chunkStart <= MaxChunkSize
      BY <1>1, <1>2, <2>1, <2>2 DEF TooLong, LineEnd
    <2>4. LineStart(k + 1) = ends[k]
      BY <1>1, <2>2
    <2>5. BetweenLines'
      BY <2>1, <2>2, <2>3, <2>4 DEF BetweenLines, LineStart
    <2>6. Progress'
      BY <2>1, <2>2, <2>3, <2>5 DEF Progress, InsideLine, AllFlushed
    <2>7. QED
      BY <2>1, <2>6
  <1>8. CASE Return
    <2>1. /\ ls = "line" /\ ls' = "idle"
          /\ leaf' = leaf /\ k' = k /\ lineOffset' = lineOffset
      BY <1>8 DEF Return
    <2>2. CASE chunkStart < Size(leaf)
      <3>1. GoodCut(Size(leaf)) /\ Flush(Size(leaf))
        BY <1>8, <2>2, EveryCutIsGood DEF Return
      <3>2. /\ chunkStart' = Size(leaf) /\ Size(leaf) \in 1..Size(leaf)
            /\ chunkStartRow' \in Nat
        BY <1>3, <3>1
      <3>3. Progress'
        BY <1>1, <2>1, <3>2 DEF Progress, BetweenLines, InsideLine, AllFlushed, Size
      <3>4. QED
        BY <2>1, <3>1, <3>3
    <2>3. CASE ~ chunkStart < Size(leaf)
      <3>1. UNCHANGED <<atoms, chunkStart, chunkStartRow>>
        BY <1>8, <2>3 DEF Return
      <3>2. chunkStart = Size(leaf)
        BY <1>1, <1>2, <2>3 DEF Progress
      <3>3. Progress'
        BY <2>1, <3>1, <3>2 DEF Progress, BetweenLines, InsideLine, AllFlushed, Size
      <3>4. QED
        BY <2>1, <3>1, <3>3
    <2>4. QED
      BY <2>2, <2>3
  <1>9. QED
    BY <1>4, <1>5, <1>6, <1>7, <1>8 DEF Next

\* A flush at a good cut keeps what is promised of the atoms.
LEMMA Cutting ==
    ASSUME IInv, NEW end, GoodCut(end), Flush(end), leaf' = leaf, Progress'
    PROVE  /\ atoms' \in Seq(LineAtom)
           /\ Tiling'
           /\ PiecesFit'
           /\ OnlyLongLinesCut'
           /\ PiecesFull'
  <1> DEFINE last   == Len(atoms) + 1
             endRow == leaf.startRow + Newlines(chunkStart, end)
             new    == [startByte  |-> leaf.startByte + chunkStart,
                        endByte    |-> leaf.startByte + end,
                        startLine  |-> chunkStartRow + 1,
                        endLine    |-> endRow + 1,
                        node       |-> 0,
                        parent     |-> 0,
                        isTopLevel |-> FALSE,
                        lang       |-> leaf.lang]
  <1>1. /\ leaf \in Leaf /\ atoms \in Seq(LineAtom) /\ Len(atoms) \in Nat
        /\ Size(leaf) \in Nat /\ chunkStart \in Nat
        /\ chunkStartRow \in Nat /\ MaxChunkSize \in Nat \ {0}
        /\ leaf.startByte \in Nat /\ leaf.startRow \in Nat /\ leaf.lang \in STRING
    BY LineEnds, SizeAssumption DEF IInv, Progress, Leaf
  <1>2. /\ end \in Nat /\ end > 0 /\ end \in 1..Size(leaf)
        /\ end - chunkStart \in 1..MaxChunkSize
    BY <1>1 DEF GoodCut
  <1>3. endRow \in Nat
    BY <1>1, NewlinesIsNat
  <1>4. /\ atoms' = Append(atoms, new)
        /\ new \in LineAtom
        /\ new.startByte = leaf.startByte + chunkStart
        /\ new.endByte = leaf.startByte + end
        /\ chunkStart' = end
        /\ chunkStartRow' = endRow
    <2>1. /\ atoms' = Append(atoms, new)
          /\ chunkStart' = end
          /\ chunkStartRow' = endRow
      BY <1>1, <1>2 DEF Flush
    <2>2. new \in LineAtom
      <3>1. /\ leaf.startByte + chunkStart \in Nat
            /\ leaf.startByte + end \in Nat
            /\ chunkStartRow + 1 \in Nat
            /\ endRow + 1 \in Nat
        BY <1>1, <1>2, <1>3
      <3>2. QED
        BY <1>1, <3>1 DEF LineAtom
    <2>3. QED
      BY <2>1, <2>2
  <1>5. /\ atoms' \in Seq(LineAtom)
        /\ atoms' # << >>
        /\ Len(atoms') = last
        /\ atoms'[last] = new
        /\ \A j \in 1..Len(atoms) : atoms'[j] = atoms[j]
        /\ \A j \in 1..last : j = last \/ j \in 1..Len(atoms)
    BY <1>1, <1>4
  <1>6. Tiling'
    <2>1. Tiling
      BY DEF IInv
    <2>2. atoms'[1].startByte = leaf.startByte
      <3>1. CASE atoms = << >>
        BY <1>1, <1>4, <1>5, <2>1, <3>1 DEF Tiling
      <3>2. CASE atoms # << >>
        BY <1>1, <1>5, <2>1, <3>2 DEF Tiling
      <3>3. QED
        BY <3>1, <3>2
    <2>3. atoms'[Len(atoms')].endByte = leaf.startByte + chunkStart'
      BY <1>4, <1>5
    <2>4. ASSUME NEW j \in 1..Len(atoms') - 1
          PROVE  atoms'[j].endByte = atoms'[j + 1].startByte
      <3>1. CASE j = Len(atoms)
        BY <1>1, <1>4, <1>5, <2>1, <2>4, <3>1 DEF Tiling
      <3>2. CASE j # Len(atoms)
        <4>1. j \in 1..Len(atoms) - 1 /\ j + 1 \in 1..Len(atoms) /\ j \in 1..Len(atoms)
          BY <1>1, <1>5, <2>4, <3>2
        <4>2. QED
          BY <1>5, <2>1, <4>1 DEF Tiling
      <3>3. QED
        BY <3>1, <3>2
    <2>5. (chunkStart = 0)' <=> (atoms = << >>)'
      BY <1>2, <1>4, <1>5
    <2>6. QED
      BY <1>5, <2>2, <2>3, <2>4, <2>5 DEF Tiling, Progress, AllFlushed
  <1>7. PiecesFit'
    <2>1. new.endByte - new.startByte \in 1..MaxChunkSize
      BY <1>1, <1>2, <1>4
    <2>2. PiecesFit
      BY DEF IInv
    <2>3. QED
      BY <1>5, <2>1, <2>2 DEF PiecesFit
  <1>8. OnlyLongLinesCut'
    <2>1. OnlyLongLinesCut
      BY DEF IInv
    <2>2. SUFFICES ASSUME NEW a \in 1..last, NEW j \in 1..Len(leaf.lineEnds),
                          LineStart(j) < atoms'[a].endByte - leaf.startByte,
                          atoms'[a].endByte - leaf.startByte < leaf.lineEnds[j]
                   PROVE  leaf.lineEnds[j] - LineStart(j) > MaxChunkSize
      BY <1>5 DEF OnlyLongLinesCut, LineStart
    <2>3. CASE a = last
      <3>1. atoms'[a].endByte - leaf.startByte = end
        BY <1>1, <1>2, <1>4, <2>3
      <3>2. QED
        BY <2>2, <3>1 DEF GoodCut
    <2>4. CASE a \in 1..Len(atoms)
      BY <1>5, <2>1, <2>2, <2>4 DEF OnlyLongLinesCut
    <2>5. QED
      BY <1>5, <2>3, <2>4
  <1>9. PiecesFull'
    <2>1. PiecesFull
      BY DEF IInv
    <2>2. SUFFICES ASSUME NEW a \in 1..last
                   PROVE  LET from == atoms'[a].startByte - leaf.startByte
                              to   == atoms'[a].endByte - leaf.startByte
                          IN  \/ to = Size(leaf)
                              \/ to - from = MaxChunkSize
                              \/ \E j \in 1..Len(leaf.lineEnds) - 1 :
                                     /\ leaf.lineEnds[j] = to
                                     /\ leaf.lineEnds[j + 1] - from > MaxChunkSize
      BY <1>5 DEF PiecesFull, Size
    <2>3. CASE a = last
      <3>1. /\ atoms'[a].startByte - leaf.startByte = chunkStart
            /\ atoms'[a].endByte - leaf.startByte = end
        BY <1>1, <1>2, <1>4, <1>5, <2>3
      <3>2. QED
        BY <3>1 DEF GoodCut, Full
    <2>4. CASE a \in 1..Len(atoms)
      BY <1>5, <2>1, <2>4 DEF PiecesFull
    <2>5. QED
      BY <1>5, <2>3, <2>4
  <1>10. QED
    BY <1>5, <1>6, <1>7, <1>8, <1>9

-----------------------------------------------------------------------------
LEMMA Initially == Init => IInv
  <1>1. SUFFICES ASSUME Init PROVE IInv
    OBVIOUS
  <1>2. leaf \in Leaf /\ OversizedLeaf(leaf)
    BY <1>1, LeafAssumption DEF Init
  <1>3. /\ Len(leaf.lineEnds) \in Nat \ {0}
        /\ Size(leaf) \in Nat
        /\ LineStart(1) = 0
    BY <1>2, LineEnds
  <1>4. leaf.startRow \in Nat
    BY <1>2 DEF Leaf
  <1>5. Progress
    BY <1>1, <1>2, <1>3, <1>4, SizeAssumption
       DEF Init, Progress, BetweenLines, InsideLine, AllFlushed
  <1>6. atoms \in Seq(LineAtom) /\ Tiling /\ PiecesFit /\ OnlyLongLinesCut /\ PiecesFull
    BY <1>1 DEF Init, Tiling, PiecesFit, OnlyLongLinesCut, PiecesFull
  <1>7. QED
    BY <1>5, <1>6 DEF IInv

LEMMA Inductive == IInv /\ [Next]_vars => IInv'
  <1>1. SUFFICES ASSUME IInv, [Next]_vars PROVE IInv'
    OBVIOUS
  <1>2. Progress
    BY <1>1 DEF IInv
  <1>3. ASSUME UNCHANGED <<leaf, atoms, chunkStart>>, Progress'
        PROVE  IInv'
    BY <1>1, <1>3
       DEF IInv, Progress, AllFlushed, Tiling, PiecesFit, OnlyLongLinesCut, PiecesFull,
           LineStart, Size
  <1>4. CASE Next
    <2>1. /\ Progress'
          /\ leaf' = leaf
          /\ \/ UNCHANGED <<atoms, chunkStart>>
             \/ \E end : GoodCut(end) /\ Flush(end)
      BY <1>2, <1>4, ProgressStep
    <2>2. CASE UNCHANGED <<atoms, chunkStart>>
      BY <1>3, <2>1, <2>2
    <2>3. CASE \E end : GoodCut(end) /\ Flush(end)
      <3>1. PICK end : GoodCut(end) /\ Flush(end)
        BY <2>3
      <3>2. /\ atoms' \in Seq(LineAtom)
            /\ Tiling' /\ PiecesFit' /\ OnlyLongLinesCut' /\ PiecesFull'
        BY <1>1, <2>1, <3>1, Cutting
      <3>3. QED
        BY <2>1, <3>2 DEF IInv
    <2>4. QED
      BY <2>1, <2>2, <2>3
  <1>5. CASE UNCHANGED vars
    <2>1. UNCHANGED <<leaf, atoms, k, lineOffset, chunkStart, chunkStartRow, ls>>
      BY <1>5 DEF vars, local
    <2>2. Progress'
      BY <1>2, <2>1 DEF Progress, BetweenLines, InsideLine, AllFlushed, LineStart,
            LineEnd, TooLong
    <2>3. QED
      BY <1>3, <2>1, <2>2
  <1>6. QED
    BY <1>1, <1>4, <1>5

THEOREM Invariance == Spec => []IInv
  <1>1. QED
    BY Initially, Inductive, PTL DEF Spec

\* lineSplitAtom never leaves the types its variables are declared with.
THEOREM TypeCorrect == Spec => []TypeOK
  <1>1. IInv => TypeOK
    BY DEF IInv, Progress, TypeOK
  <1>2. QED
    BY <1>1, Invariance, PTL

\* The atoms tile the leaf up to chunkStart.
THEOREM Tiles == Spec => []Tiling
  <1>1. IInv => Tiling
    BY DEF IInv
  <1>2. QED
    BY <1>1, Invariance, PTL

\* No atom is empty or larger than a chunk.
THEOREM PieceSize == Spec => []PiecesFit
  <1>1. IInv => PiecesFit
    BY DEF IInv
  <1>2. QED
    BY <1>1, Invariance, PTL

\* Only a line that is larger than a chunk is cut.
THEOREM LinesKept == Spec => []OnlyLongLinesCut
  <1>1. IInv => OnlyLongLinesCut
    BY DEF IInv
  <1>2. QED
    BY <1>1, Invariance, PTL

\* No atom is cut off earlier than the size limit and the line breaks ask for.
THEOREM NoPieceCutShort == Spec => []PiecesFull
  <1>1. IInv => PiecesFull
    BY DEF IInv
  <1>2. QED
    BY <1>1, Invariance, PTL
=============================================================================
