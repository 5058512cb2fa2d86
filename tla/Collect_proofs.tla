---------------------------- MODULE Collect_proofs ----------------------------
(***************************************************************************)
(* For every well-formed tree, every table of kinds and every chunk size,  *)
(* collectAtoms hands on what Merge assumes of its input: atoms in         *)
(* document order that do not overlap, none of them oversized.             *)
(***************************************************************************)
EXTENDS Collect, TLAPS, WellFoundedInduction

SP == INSTANCE LineSplit_proofs WITH Leaves <- {}

\* The nodes still to be visited are in document order, and no atom reaches
\* past the start of one.
StackInOrder ==
    \A j, m \in 1..Len(stack) :
        j < m /\ Valid(stack[j]) /\ Valid(stack[m]) =>
            tree.endByte[stack[j]] <= tree.startByte[stack[m]]

AtomsBeforeStack ==
    \A a \in 1..Len(atoms), j \in 1..Len(stack) :
        Valid(stack[j]) => atoms[a].endByte <= tree.startByte[stack[j]]

\* While a leaf is split, the atoms reach as far as it has been flushed, and it
\* lies before the nodes still to be visited.
Splitting ==
    ls # "idle" =>
        /\ SP!Progress
        /\ leaf.lang \in Languages
        /\ \A a \in 1..Len(atoms) : atoms[a].endByte <= leaf.startByte + chunkStart
        /\ \A j \in 1..Len(stack) : Valid(stack[j]) =>
              leaf.startByte + SP!Size(leaf) <= tree.startByte[stack[j]]

IInv ==
    /\ TypeOK
    /\ SortedAtoms
    /\ AtomsFitChunk
    /\ StackInOrder
    /\ AtomsBeforeStack
    /\ Splitting

-----------------------------------------------------------------------------
\* Appending an atom behind the others that is not oversized.
LEMMA AppendAtom ==
    ASSUME atoms \in Seq(AtomRecord), SortedAtoms, AtomsFitChunk,
           NEW x \in AtomRecord,
           x.startByte <= x.endByte,
           x.endByte - x.startByte <= MaxChunkSize,
           \A a \in 1..Len(atoms) : atoms[a].endByte <= x.startByte,
           atoms' = Append(atoms, x)
    PROVE  /\ atoms' \in Seq(AtomRecord)
           /\ SortedAtoms'
           /\ AtomsFitChunk'
           /\ \A a \in 1..Len(atoms') : atoms'[a].endByte <= x.endByte
  <1> DEFINE last == Len(atoms) + 1
  <1>1. /\ Len(atoms) \in Nat
        /\ atoms' \in Seq(AtomRecord)
        /\ Len(atoms') = last
        /\ atoms'[last] = x
        /\ \A a \in 1..Len(atoms) : atoms'[a] = atoms[a] /\ atoms[a] \in AtomRecord
        /\ \A a \in 1..last : a = last \/ a \in 1..Len(atoms)
        /\ x.startByte \in Nat /\ x.endByte \in Nat
    <2>1. x.startByte \in Nat /\ x.endByte \in Nat
      BY DEF AtomRecord
    <2>2. QED
      BY <2>1
  <1>2. SortedAtoms'
    <2>1. \A a \in 1..last : atoms'[a].startByte <= atoms'[a].endByte
      BY <1>1 DEF SortedAtoms, InDocumentOrder
    <2>2. ASSUME NEW a \in 1..last, NEW b \in 1..last, a < b
          PROVE  atoms'[a].endByte <= atoms'[b].startByte
      <3>1. a \in 1..Len(atoms)
        BY <1>1, <2>2
      <3>2. CASE b = last
        BY <1>1, <3>1, <3>2
      <3>3. CASE b \in 1..Len(atoms)
        BY <1>1, <2>2, <3>1, <3>3 DEF SortedAtoms, InDocumentOrder
      <3>4. QED
        BY <1>1, <3>2, <3>3
    <2>3. QED
      BY <1>1, <2>1, <2>2 DEF SortedAtoms, InDocumentOrder
  <1>3. AtomsFitChunk'
    BY <1>1 DEF AtomsFitChunk, NoneOversized
  <1>4. ASSUME NEW a \in 1..last PROVE atoms'[a].endByte <= x.endByte
    <2>1. CASE a = last
      BY <1>1, <2>1
    <2>2. CASE a \in 1..Len(atoms)
      <3>1. atoms[a].endByte <= x.startByte /\ atoms[a].endByte \in Nat
        BY <1>1, <2>2 DEF AtomRecord
      <3>2. QED
        BY <1>1, <2>2, <3>1
    <2>3. QED
      BY <1>1, <2>1, <2>2
  <1>5. QED
    BY <1>1, <1>2, <1>3, <1>4

\* The nodes of a well-formed tree have the fields the walk reads.
LEMMA NodeFields ==
    ASSUME TypeOK, NEW n \in Nodes
    PROVE  /\ tree.startByte[n] \in Nat /\ tree.endByte[n] \in Nat
           /\ tree.startRow[n] \in Nat /\ tree.endRow[n] \in Nat
           /\ tree.children[n] \in Seq(Nodes)
           /\ tree.above[n] \subseteq Nat
           /\ n \in Nat
  <1>1. Shape(tree) /\ Extents(tree)
    BY DEF TypeOK, WellFormed
  <1>2. Len(tree.kind) \in Nat
    BY <1>1 DEF Shape
  <1>3. n \in Nat
    BY <1>2 DEF Nodes, NodesOf
  <1>4. tree.children[n] \in Seq(Nodes) /\ tree.above[n] \subseteq 1..n - 1
    BY <1>1 DEF Nodes, Shape
  <1>5. /\ tree.startByte[n] \in Nat /\ tree.endByte[n] \in Nat
        /\ tree.startRow[n] \in Nat /\ tree.endRow[n] \in Nat
    BY <1>1 DEF Nodes, Extents
  <1>6. QED
    BY <1>3, <1>4, <1>5

LEMMA BoundaryAtomType ==
    ASSUME TypeOK, NEW n \in Nodes
    PROVE  BoundaryAtom(n) \in AtomRecord
  <1>1. /\ tree.startByte[n] \in Nat /\ tree.endByte[n] \in Nat
        /\ tree.startRow[n] \in Nat /\ tree.endRow[n] \in Nat
        /\ n \in Nat
    BY NodeFields
  <1>2. extractParentName(n) \in Nat
    <2>1. tree.above[n] \subseteq Nat
      BY NodeFields
    <2>2. NearestTopLevel(n) \subseteq Nat
      BY <2>1 DEF NearestTopLevel
    <2>3. QED
      BY <2>2 DEF extractParentName
  <1>3. (InTopLevel(n) /\ (InNested(n) => ~ hasTopLevelAncestor(n))) \in BOOLEAN
    BY DEF InTopLevel, InNested, hasTopLevelAncestor
  <1>4. (IF InNested(n) THEN extractParentName(n) ELSE 0) \in Nat
    BY <1>2
  <1>5. lang \in Languages
    BY DEF TypeOK
  <1>6. QED
    BY <1>1, <1>3, <1>4, <1>5 DEF BoundaryAtom, AtomRecord

\* What is left of the stack when its head is taken off.
LEMMA Popping ==
    ASSUME TypeOK, StackInOrder, AtomsBeforeStack, stack # << >>, Valid(Head(stack))
    PROVE  /\ Head(stack) \in Nodes
           /\ Tail(stack) \in Seq(Nodes)
           /\ \A j \in 1..Len(Tail(stack)) : j + 1 \in 1..Len(stack) /\ Tail(stack)[j] = stack[j + 1]
           /\ \A j \in 1..Len(Tail(stack)) : Valid(Tail(stack)[j]) =>
                 tree.endByte[Head(stack)] <= tree.startByte[Tail(stack)[j]]
           /\ \A a \in 1..Len(atoms) : atoms[a].endByte <= tree.startByte[Head(stack)]
  <1>1. stack \in Seq(Nodes) /\ Len(stack) \in Nat \ {0}
    BY DEF TypeOK
  <1>2. /\ Head(stack) = stack[1] /\ 1 \in 1..Len(stack)
        /\ Head(stack) \in Nodes
        /\ Tail(stack) \in Seq(Nodes)
        /\ \A j \in 1..Len(Tail(stack)) :
              /\ j + 1 \in 1..Len(stack) /\ 1 < j + 1
              /\ Tail(stack)[j] = stack[j + 1]
    BY <1>1
  <1>3. QED
    BY <1>2 DEF StackInOrder, AtomsBeforeStack

-----------------------------------------------------------------------------
\* A walk that is about to begin.
LEMMA FreshTyped ==
    ASSUME WellFormed(tree), lang \in Languages,
           stack = << 1 >>, atoms = << >>, ls = "idle"
    PROVE  IInv
  <1>1. 1 \in Nodes
    <2>1. tree.kind \in Seq(STRING) /\ tree.kind # << >>
      BY DEF WellFormed, Shape
    <2>2. Len(tree.kind) \in Nat \ {0}
      BY <2>1
    <2>3. QED
      BY <2>2 DEF Nodes, NodesOf
  <1>2. TypeOK
    BY <1>1 DEF TypeOK
  <1>3. SortedAtoms /\ AtomsFitChunk /\ AtomsBeforeStack
    BY DEF SortedAtoms, AtomsFitChunk, InDocumentOrder, NoneOversized, AtomsBeforeStack
  <1>4. StackInOrder
    BY DEF StackInOrder
  <1>5. Splitting
    BY DEF Splitting
  <1>6. QED
    BY <1>2, <1>3, <1>4, <1>5 DEF IInv

LEMMA Initially == Init => IInv
  BY FreshTyped, CollectAssumption DEF Init

\* Taking the head off the stack keeps the order of the rest.
LEMMA PoppingKeepsOrder ==
    ASSUME TypeOK, StackInOrder, stack # << >>,
           tree' = tree, stack' = Tail(stack)
    PROVE  /\ stack' \in Seq(Nodes)
           /\ StackInOrder'
           /\ \A j \in 1..Len(stack') :
                 j + 1 \in 1..Len(stack) /\ stack'[j] = stack[j + 1]
  <1>1. stack \in Seq(Nodes) /\ Len(stack) \in Nat \ {0}
    BY DEF TypeOK
  <1>2. /\ stack' \in Seq(Nodes)
        /\ \A j \in 1..Len(stack') :
              j + 1 \in 1..Len(stack) /\ stack'[j] = stack[j + 1]
    BY <1>1
  <1>3. StackInOrder'
    <2>1. SUFFICES ASSUME NEW j \in 1..Len(stack'), NEW m \in 1..Len(stack'), j < m,
                          Valid(stack'[j]), Valid(stack'[m])
                   PROVE  tree.endByte[stack'[j]] <= tree.startByte[stack'[m]]
      BY DEF StackInOrder, Valid
    <2>2. /\ j + 1 \in 1..Len(stack) /\ stack'[j] = stack[j + 1]
          /\ m + 1 \in 1..Len(stack) /\ stack'[m] = stack[m + 1]
          /\ j + 1 < m + 1
      BY <1>2, <2>1
    <2>3. QED
      BY <2>1, <2>2 DEF StackInOrder
  <1>4. QED
    BY <1>2, <1>3

\* The steps of lineSplitAtom are the same seen from either instance.
LEMMA SameNewlines ==
    ASSUME NEW a, NEW b
    PROVE  Split!Newlines(a, b) = SP!Newlines(a, b)
  BY DEF Split!Newlines, SP!Newlines, Split!Cardinality, SP!Cardinality

LEMMA SameStep == Split!Next => SP!Next
  <1>1. \A end : Split!Flush(end) => SP!Flush(end)
    BY SameNewlines DEF Split!Flush, SP!Flush
  <1>2. QED
    BY <1>1
       DEF Split!Next, Split!FlushAccumulated, Split!KeepAccumulated, Split!SplitByBytes,
           Split!NextLine, Split!Return, Split!TooLong, Split!LineEnd, Split!Size,
           Split!local,
           SP!Next, SP!FlushAccumulated, SP!KeepAccumulated, SP!SplitByBytes,
           SP!NextLine, SP!Return, SP!TooLong, SP!LineEnd, SP!Size, SP!local

\* The leaf that SplitLeaf hands over is one that lineSplitAtom may be called on.
LEMMA CallStartsWell ==
    ASSUME TypeOK, NEW n \in Nodes, Valid(n), OversizedLeaf(n), Split!Call(LeafOf(n))
    PROVE  /\ SP!Progress'
           /\ leaf'.lang \in Languages
           /\ leaf'.startByte = tree.startByte[n]
           /\ SP!Size(leaf') = Span(n)
           /\ chunkStart' = 0
           /\ ls' = "line"
           /\ atoms' = atoms
  <1> DEFINE new == LeafOf(n)
  <1>1. /\ leaf' = new /\ k' = 1 /\ lineOffset' = 0 /\ chunkStart' = 0
        /\ chunkStartRow' = new.startRow /\ ls' = "line" /\ atoms' = atoms
    BY DEF Split!Call
  <1>2. /\ tree.startByte[n] \in Nat /\ tree.endByte[n] \in Nat
        /\ tree.startRow[n] \in Nat
    BY NodeFields
  <1>3. LinesOf(tree.lineEnds[n], Span(n))
    BY DEF TypeOK, WellFormed, Lines, Nodes, Valid, Span
  <1>4. lang \in Languages /\ lang \in STRING
    BY CollectAssumption DEF TypeOK
  <1>5. /\ new.lang = lang /\ new.startByte = tree.startByte[n]
        /\ new.startRow = tree.startRow[n] /\ new.lineEnds = tree.lineEnds[n]
    BY DEF LeafOf
  <1>6. new \in SP!Leaf
    BY <1>2, <1>3, <1>4 DEF LeafOf, SP!Leaf, LinesOf
  <1>7. /\ Len(new.lineEnds) \in Nat \ {0}
        /\ SP!Size(new) = Span(n) /\ Span(n) \in Nat /\ Span(n) > MaxChunkSize
    BY <1>2, <1>3, <1>5 DEF LinesOf, SP!Size, Span, OversizedLeaf, Valid, ValidNode
  <1>8. SP!OversizedLeaf(new)
    BY <1>3, <1>5, <1>7 DEF SP!OversizedLeaf, LinesOf
  <1>9. SP!Progress'
    BY <1>1, <1>2, <1>5, <1>6, <1>7, <1>8, SizeAssumption
       DEF SP!Progress, SP!BetweenLines, SP!InsideLine, SP!AllFlushed, SP!LineStart
  <1>10. QED
    BY <1>1, <1>4, <1>5, <1>7, <1>9

\* A step of lineSplitAtom as the walk sees it: at most one atom more, in the
\* part of the leaf that is then flushed.
LEMMA SplitStepEffect ==
    ASSUME IInv, SplitStep
    PROVE  /\ SP!Progress' /\ leaf' = leaf
           /\ ls' \in {"line", "bytes", "idle"}
           /\ atoms' \in Seq(AtomRecord)
           /\ SortedAtoms'
           /\ AtomsFitChunk'
           /\ \A a \in 1..Len(atoms') : atoms'[a].endByte <= leaf.startByte + chunkStart'
           /\ chunkStart' \in 0..SP!Size(leaf)
           /\ leaf.startByte \in Nat /\ SP!Size(leaf) \in Nat
  <1>1. SP!Next
    BY SameStep DEF SplitStep
  <1>2. ls # "idle"
    BY <1>1 DEF SP!Next, SP!FlushAccumulated, SP!KeepAccumulated, SP!SplitByBytes,
          SP!NextLine, SP!Return
  <1>3. /\ SP!Progress
        /\ leaf.lang \in Languages
        /\ \A a \in 1..Len(atoms) : atoms[a].endByte <= leaf.startByte + chunkStart
    BY <1>2 DEF IInv, Splitting
  <1>4. /\ SP!Progress' /\ leaf' = leaf
        /\ \/ UNCHANGED <<atoms, chunkStart>>
           \/ \E end : SP!GoodCut(end) /\ SP!Flush(end)
    BY <1>1, <1>3, SP!ProgressStep, SizeAssumption
  <1>5. atoms \in Seq(AtomRecord) /\ SortedAtoms /\ AtomsFitChunk
    BY DEF IInv, TypeOK
  <1>6. /\ leaf \in SP!Leaf /\ leaf.startByte \in Nat /\ leaf.startRow \in Nat
        /\ SP!Size(leaf) \in Nat /\ MaxChunkSize \in Nat
        /\ chunkStart \in 0..SP!Size(leaf) /\ chunkStart \in Nat
        /\ chunkStartRow \in Nat
    BY <1>3, SP!LineEnds, SizeAssumption DEF SP!Progress, SP!Leaf
  <1>7. /\ chunkStart' \in 0..SP!Size(leaf)
        /\ ls' \in {"line", "bytes", "idle"}
    BY <1>4 DEF SP!Progress
  <1>8. CASE UNCHANGED <<atoms, chunkStart>>
    BY <1>3, <1>4, <1>5, <1>6, <1>7, <1>8
       DEF SortedAtoms, AtomsFitChunk, InDocumentOrder, NoneOversized
  <1>9. CASE \E end : SP!GoodCut(end) /\ SP!Flush(end)
    <2>1. PICK end : SP!GoodCut(end) /\ SP!Flush(end)
      BY <1>9
    <2> DEFINE endRow == leaf.startRow + SP!Newlines(chunkStart, end)
               x == [startByte  |-> leaf.startByte + chunkStart,
                     endByte    |-> leaf.startByte + end,
                     startLine  |-> chunkStartRow + 1,
                     endLine    |-> endRow + 1,
                     node       |-> 0,
                     parent     |-> 0,
                     isTopLevel |-> FALSE,
                     lang       |-> leaf.lang]
    <2>2. end \in Nat /\ end - chunkStart \in 1..MaxChunkSize
      BY <1>6, <2>1 DEF SP!GoodCut
    <2>3. atoms' = Append(atoms, x) /\ chunkStart' = end
      BY <1>6, <2>1, <2>2 DEF SP!Flush
    <2>4. endRow \in Nat
      BY <1>6, SP!NewlinesIsNat, SizeAssumption
    <2>5. x \in AtomRecord
      <3>1. /\ leaf.startByte + chunkStart \in Nat
            /\ leaf.startByte + end \in Nat
            /\ chunkStartRow + 1 \in Nat \ {0} /\ endRow + 1 \in Nat \ {0}
        BY <1>6, <2>2, <2>4
      <3>2. QED
        BY <1>3, <3>1 DEF AtomRecord
    <2>6. /\ x.startByte <= x.endByte
          /\ x.endByte - x.startByte <= MaxChunkSize
      BY <1>6, <2>2
    <2>7. \A a \in 1..Len(atoms) : atoms[a].endByte <= x.startByte
      BY <1>3
    <2>8. /\ atoms' \in Seq(AtomRecord) /\ SortedAtoms' /\ AtomsFitChunk'
          /\ \A a \in 1..Len(atoms') : atoms'[a].endByte <= x.endByte
      <3> HIDE DEF x
      <3>1. QED
        BY <1>5, <2>3, <2>5, <2>6, <2>7, AppendAtom
    <2>9. QED
      BY <1>4, <1>6, <1>7, <2>3, <2>8
  <1>10. QED
    BY <1>4, <1>8, <1>9

\* Where the elements of a concatenation come from.
LEMMA Concatenation ==
    ASSUME NEW S, NEW c \in Seq(S), NEW d \in Seq(S), NEW s, s = c \o d
    PROVE  /\ s \in Seq(S)
           /\ \A j \in 1..Len(s) :
                 \/ j \in 1..Len(c) /\ s[j] = c[j]
                 \/ /\ j \in Int /\ Len(c) < j /\ j - Len(c) \in 1..Len(d)
                    /\ s[j] = d[j - Len(c)]
  OBVIOUS

\* Descending puts the children c of a node n, in their order, before the rest d
\* of the stack.
LEMMA ChildrenFirst ==
    ASSUME TypeOK, NEW n \in Nodes, Valid(n),
           NEW c \in Seq(Nodes), c = tree.children[n],
           NEW d \in Seq(Nodes),
           \A j, m \in 1..Len(d) : j < m /\ Valid(d[j]) /\ Valid(d[m]) =>
               tree.endByte[d[j]] <= tree.startByte[d[m]],
           \A j \in 1..Len(d) : Valid(d[j]) => tree.endByte[n] <= tree.startByte[d[j]],
           NEW s,
           \A j \in 1..Len(s) :
               \/ j \in 1..Len(c) /\ s[j] = c[j]
               \/ /\ j \in Int /\ Len(c) < j /\ j - Len(c) \in 1..Len(d)
                  /\ s[j] = d[j - Len(c)]
    PROVE  /\ \A j, m \in 1..Len(s) : j < m /\ Valid(s[j]) /\ Valid(s[m]) =>
                 tree.endByte[s[j]] <= tree.startByte[s[m]]
           /\ \A j \in 1..Len(s) : Valid(s[j]) => tree.startByte[n] <= tree.startByte[s[j]]
  <1> DEFINE isChild(j) == j \in 1..Len(c) /\ s[j] = c[j]
             isRest(j)  == /\ j \in Int /\ Len(c) < j /\ j - Len(c) \in 1..Len(d)
                           /\ s[j] = d[j - Len(c)]
  <1>1. \A x \in Nodes : tree.startByte[x] \in Nat /\ tree.endByte[x] \in Nat
    BY NodeFields
  <1>2. /\ \A j \in 1..Len(c) : c[j] \in Nodes
        /\ \A j \in 1..Len(d) : d[j] \in Nodes
        /\ Len(c) \in Nat /\ Len(d) \in Nat
    OBVIOUS
  <1>3. \A j, m \in 1..Len(c) : j < m /\ Valid(c[j]) /\ Valid(c[m]) =>
            tree.endByte[c[j]] <= tree.startByte[c[m]]
    BY DEF TypeOK, WellFormed, Extents, Nodes, Valid
  <1>4. \A j \in 1..Len(c) : Valid(c[j]) =>
            /\ tree.startByte[n] <= tree.startByte[c[j]]
            /\ tree.endByte[c[j]] <= tree.endByte[n]
    BY DEF TypeOK, WellFormed, Extents, Nodes, Valid
  <1>5. ASSUME NEW j \in 1..Len(s), NEW m \in 1..Len(s), j < m, Valid(s[j]), Valid(s[m])
        PROVE  tree.endByte[s[j]] <= tree.startByte[s[m]]
    <2>1. CASE isChild(j) /\ isChild(m)
      BY <1>3, <1>5, <2>1
    <2>2. CASE isChild(j) /\ isRest(m)
      <3>1. /\ tree.endByte[s[j]] <= tree.endByte[n]
            /\ tree.endByte[n] <= tree.startByte[s[m]]
        BY <1>4, <1>5, <2>2
      <3>2. s[j] \in Nodes /\ s[m] \in Nodes
        BY <1>2, <2>2
      <3>3. QED
        BY <1>1, <3>1, <3>2
    <2>3. CASE isRest(j) /\ isRest(m)
      <3>1. j - Len(c) < m - Len(c)
        BY <1>2, <1>5, <2>3
      <3>2. QED
        BY <1>5, <2>3, <3>1
    <2>4. ~ (isRest(j) /\ isChild(m))
      BY <1>2, <1>5
    <2>5. QED
      BY <2>1, <2>2, <2>3, <2>4
  <1>6. ASSUME NEW j \in 1..Len(s), Valid(s[j])
        PROVE  tree.startByte[n] <= tree.startByte[s[j]]
    <2>1. CASE isChild(j)
      BY <1>4, <1>6, <2>1
    <2>2. CASE isRest(j)
      <3>1. tree.endByte[n] <= tree.startByte[s[j]] /\ s[j] \in Nodes
        BY <1>2, <1>6, <2>2
      <3>2. tree.startByte[n] <= tree.endByte[n]
        BY DEF Valid, ValidNode
      <3>3. QED
        BY <1>1, <3>1, <3>2
    <2>3. QED
      BY <2>1, <2>2
  <1>7. QED
    BY <1>5, <1>6

\* Descend keeps the stack in order, and the atoms before it.
LEMMA Descending ==
    ASSUME TypeOK, StackInOrder, AtomsBeforeStack, stack # << >>, Valid(Head(stack)),
           tree' = tree, atoms' = atoms,
           stack' = tree.children[Head(stack)] \o Tail(stack)
    PROVE  stack' \in Seq(Nodes) /\ StackInOrder' /\ AtomsBeforeStack'
  <1> DEFINE n == Head(stack)
             c == tree.children[n]
             d == Tail(stack)
  <1>1. /\ n \in Nodes /\ d \in Seq(Nodes)
        /\ \A j \in 1..Len(d) : j + 1 \in 1..Len(stack) /\ d[j] = stack[j + 1]
        /\ \A j \in 1..Len(d) :
              Valid(d[j]) => tree.endByte[n] <= tree.startByte[d[j]]
        /\ \A a \in 1..Len(atoms) : atoms[a].endByte <= tree.startByte[n]
    BY Popping
  <1>2. c \in Seq(Nodes)
    BY <1>1, NodeFields
  <1>3. \A j, m \in 1..Len(d) : j < m /\ Valid(d[j]) /\ Valid(d[m]) =>
            tree.endByte[d[j]] <= tree.startByte[d[m]]
    <2>1. SUFFICES ASSUME NEW j \in 1..Len(d), NEW m \in 1..Len(d), j < m,
                          Valid(d[j]), Valid(d[m])
                   PROVE  tree.endByte[d[j]] <= tree.startByte[d[m]]
      OBVIOUS
    <2>2. /\ j + 1 \in 1..Len(stack) /\ m + 1 \in 1..Len(stack) /\ j + 1 < m + 1
          /\ d[j] = stack[j + 1] /\ d[m] = stack[m + 1]
      BY <1>1, <2>1
    <2>3. QED
      BY <2>1, <2>2 DEF StackInOrder
  <1>4. /\ stack' \in Seq(Nodes)
        /\ \A j \in 1..Len(stack') :
              \/ j \in 1..Len(c) /\ stack'[j] = c[j]
              \/ /\ j \in Int /\ Len(c) < j /\ j - Len(c) \in 1..Len(d)
                 /\ stack'[j] = d[j - Len(c)]
    <2>1. stack' = c \o d
      OBVIOUS
    <2> HIDE DEF n, c, d
    <2>2. QED
      BY ONLY <1>1, <1>2, <2>1, Concatenation
  <1>5. /\ \A j, m \in 1..Len(stack') : j < m /\ Valid(stack'[j]) /\ Valid(stack'[m]) =>
              tree.endByte[stack'[j]] <= tree.startByte[stack'[m]]
        /\ \A j \in 1..Len(stack') :
              Valid(stack'[j]) => tree.startByte[n] <= tree.startByte[stack'[j]]
    <2>1. c = tree.children[n] /\ Valid(n) /\ TypeOK
      OBVIOUS
    <2> HIDE DEF n, c, d
    <2>2. QED
      BY ONLY <1>1, <1>2, <1>3, <1>4, <2>1, ChildrenFirst
  <1>6. StackInOrder'
    BY ONLY <1>5, tree' = tree DEF StackInOrder, Valid
  <1>7. AtomsBeforeStack'
    <2>1. SUFFICES ASSUME NEW a \in 1..Len(atoms), NEW j \in 1..Len(stack'),
                          Valid(stack'[j])
                   PROVE  atoms[a].endByte <= tree.startByte[stack'[j]]
      BY DEF AtomsBeforeStack, Valid
    <2>2. atoms[a] \in AtomRecord /\ stack'[j] \in Nodes
      BY ONLY <1>4, <2>1, TypeOK DEF TypeOK
    <2>3. /\ atoms[a].endByte \in Nat
          /\ tree.startByte[n] \in Nat /\ tree.startByte[stack'[j]] \in Nat
      BY ONLY TypeOK, <1>1, <2>2, NodeFields DEF AtomRecord
    <2>4. /\ atoms[a].endByte <= tree.startByte[n]
          /\ tree.startByte[n] <= tree.startByte[stack'[j]]
      BY ONLY <1>1, <1>5, <2>1
    <2>5. QED
      BY ONLY <2>3, <2>4
  <1>8. QED
    BY <1>4, <1>6, <1>7

LEMMA Inductive == IInv /\ [Next]_vars => IInv'
  <1>1. SUFFICES ASSUME IInv, [Next]_vars PROVE IInv'
    OBVIOUS
  <1>2. /\ TypeOK /\ SortedAtoms /\ AtomsFitChunk /\ StackInOrder
        /\ AtomsBeforeStack /\ Splitting
        /\ atoms \in Seq(AtomRecord) /\ stack \in Seq(Nodes)
    BY <1>1 DEF IInv, TypeOK
  <1>3. CASE SkipInvalid
    <2>1. /\ stack # << >> /\ ls = "idle" /\ stack' = Tail(stack)
          /\ UNCHANGED <<tree, lang, atoms, leaf, k, lineOffset, chunkStart, chunkStartRow, ls>>
      BY <1>3 DEF SkipInvalid, Visiting, split
    <2>2. /\ stack' \in Seq(Nodes) /\ StackInOrder'
          /\ \A j \in 1..Len(stack') :
                j + 1 \in 1..Len(stack) /\ stack'[j] = stack[j + 1]
      BY <1>2, <2>1, PoppingKeepsOrder
    <2>3. AtomsBeforeStack'
      BY <1>2, <2>1, <2>2 DEF AtomsBeforeStack, Valid
    <2>4. TypeOK' /\ SortedAtoms' /\ AtomsFitChunk' /\ Splitting'
      BY <1>2, <2>1, <2>2 DEF TypeOK, Nodes, SortedAtoms, AtomsFitChunk,
            InDocumentOrder, NoneOversized, Splitting
    <2>5. QED
      BY <2>2, <2>3, <2>4 DEF IInv
  <1>4. CASE EmitBoundary
    <2> DEFINE n == Head(stack)
    <2>1. /\ stack # << >> /\ ls = "idle" /\ Valid(n) /\ FittingBoundary(n)
          /\ atoms' = Append(atoms, BoundaryAtom(n))
          /\ stack' = Tail(stack)
          /\ UNCHANGED <<tree, lang, leaf, k, lineOffset, chunkStart, chunkStartRow, ls>>
      BY <1>4 DEF EmitBoundary, Visiting, split
    <2>2. /\ stack' \in Seq(Nodes) /\ StackInOrder'
      BY <1>2, <2>1, PoppingKeepsOrder
    <2>3. /\ n \in Nodes
          /\ \A j \in 1..Len(Tail(stack)) : Valid(Tail(stack)[j]) =>
                tree.endByte[n] <= tree.startByte[Tail(stack)[j]]
          /\ \A a \in 1..Len(atoms) : atoms[a].endByte <= tree.startByte[n]
          /\ \A j \in 1..Len(Tail(stack)) : Tail(stack)[j] \in Nodes
      <3>1. Tail(stack) \in Seq(Nodes)
        BY <1>2, <2>1, Popping
      <3>2. \A j \in 1..Len(Tail(stack)) : Tail(stack)[j] \in Nodes
        BY <3>1
      <3>3. QED
        BY <1>2, <2>1, <3>2, Popping
    <2>4. BoundaryAtom(n) \in AtomRecord
      BY <1>2, <2>3, BoundaryAtomType
    <2>5. /\ BoundaryAtom(n).startByte = tree.startByte[n]
          /\ BoundaryAtom(n).endByte = tree.endByte[n]
      BY DEF BoundaryAtom
    <2>6. /\ BoundaryAtom(n).startByte <= BoundaryAtom(n).endByte
          /\ BoundaryAtom(n).endByte - BoundaryAtom(n).startByte <= MaxChunkSize
      BY <2>1, <2>5 DEF Valid, ValidNode, FittingBoundary, Span
    <2>7. /\ atoms' \in Seq(AtomRecord) /\ SortedAtoms' /\ AtomsFitChunk'
          /\ \A a \in 1..Len(atoms') : atoms'[a].endByte <= BoundaryAtom(n).endByte
      BY <1>2, <2>1, <2>3, <2>4, <2>5, <2>6, AppendAtom
    <2>8. AtomsBeforeStack'
      <3>1. SUFFICES ASSUME NEW a \in 1..Len(atoms'), NEW j \in 1..Len(stack'),
                            Valid(stack'[j])
                     PROVE  atoms'[a].endByte <= tree.startByte[stack'[j]]
        BY <2>1 DEF AtomsBeforeStack, Valid
      <3>2. /\ atoms'[a].endByte <= tree.endByte[n]
            /\ tree.endByte[n] <= tree.startByte[stack'[j]]
        BY <2>1, <2>3, <2>5, <2>7, <3>1
      <3>3. /\ atoms'[a].endByte \in Nat
            /\ tree.endByte[n] \in Nat /\ tree.startByte[stack'[j]] \in Nat
        <4>1. atoms'[a] \in AtomRecord /\ stack'[j] \in Nodes
          BY <2>1, <2>3, <2>7
        <4>2. QED
          BY <1>2, <2>3, <4>1, NodeFields DEF AtomRecord
      <3>4. QED
        BY <3>2, <3>3
    <2>9. TypeOK' /\ Splitting'
      BY <1>2, <2>1, <2>2, <2>7 DEF TypeOK, Nodes, Splitting
    <2>10. QED
      BY <2>2, <2>7, <2>8, <2>9 DEF IInv
  <1>5. CASE SplitLeaf
    <2> DEFINE n == Head(stack)
    <2>1. /\ stack # << >> /\ ls = "idle" /\ Valid(n) /\ OversizedLeaf(n)
          /\ Split!Call(LeafOf(n))
          /\ stack' = Tail(stack) /\ tree' = tree /\ lang' = lang
      BY <1>5 DEF SplitLeaf, Visiting
    <2>2. /\ stack' \in Seq(Nodes) /\ StackInOrder'
          /\ \A j \in 1..Len(stack') :
                j + 1 \in 1..Len(stack) /\ stack'[j] = stack[j + 1]
      BY <1>2, <2>1, PoppingKeepsOrder
    <2>3. /\ n \in Nodes
          /\ \A j \in 1..Len(Tail(stack)) : Valid(Tail(stack)[j]) =>
                tree.endByte[n] <= tree.startByte[Tail(stack)[j]]
          /\ \A a \in 1..Len(atoms) : atoms[a].endByte <= tree.startByte[n]
      BY <1>2, <2>1, Popping
    <2>4. /\ SP!Progress' /\ leaf'.lang \in Languages
          /\ leaf'.startByte = tree.startByte[n]
          /\ SP!Size(leaf') = Span(n)
          /\ chunkStart' = 0 /\ ls' = "line" /\ atoms' = atoms
      BY <1>2, <2>1, <2>3, CallStartsWell
    <2>5. tree.startByte[n] \in Nat /\ tree.endByte[n] \in Nat
      BY <1>2, <2>3, NodeFields
    <2>6. leaf'.startByte + SP!Size(leaf') = tree.endByte[n]
      BY <2>4, <2>5 DEF Span
    <2>7. Splitting'
      <3>1. \A a \in 1..Len(atoms') : atoms'[a].endByte <= leaf'.startByte + chunkStart'
        BY <2>3, <2>4, <2>5
      <3>2. \A j \in 1..Len(stack') : Valid(stack'[j]) =>
                leaf'.startByte + SP!Size(leaf') <= tree.startByte[stack'[j]]
        BY <2>1, <2>3, <2>6
      <3>3. QED
        BY <2>1, <2>4, <3>1, <3>2 DEF Splitting, Valid, SP!Size
    <2>8. AtomsBeforeStack'
      BY <1>2, <2>1, <2>2, <2>4 DEF AtomsBeforeStack, Valid
    <2>9. TypeOK' /\ SortedAtoms' /\ AtomsFitChunk'
      BY <1>2, <2>1, <2>2, <2>4 DEF TypeOK, Nodes, SortedAtoms, AtomsFitChunk,
            InDocumentOrder, NoneOversized
    <2>10. QED
      BY <2>2, <2>7, <2>8, <2>9 DEF IInv
  <1>6. CASE Descend
    <2>1. /\ stack # << >> /\ ls = "idle" /\ Valid(Head(stack))
          /\ stack' = tree.children[Head(stack)] \o Tail(stack)
          /\ UNCHANGED <<tree, lang, atoms, leaf, k, lineOffset, chunkStart, chunkStartRow, ls>>
      BY <1>6 DEF Descend, Visiting, split
    <2>2. stack' \in Seq(Nodes) /\ StackInOrder' /\ AtomsBeforeStack'
      BY <1>2, <2>1, Descending
    <2>3. TypeOK' /\ SortedAtoms' /\ AtomsFitChunk' /\ Splitting'
      BY <1>2, <2>1, <2>2 DEF TypeOK, Nodes, SortedAtoms, AtomsFitChunk,
            InDocumentOrder, NoneOversized, Splitting
    <2>4. QED
      BY <2>2, <2>3 DEF IInv
  <1>7. CASE SplitStep
    <2>1. /\ SP!Progress' /\ leaf' = leaf
          /\ ls' \in {"line", "bytes", "idle"}
          /\ atoms' \in Seq(AtomRecord) /\ SortedAtoms' /\ AtomsFitChunk'
          /\ \A a \in 1..Len(atoms') : atoms'[a].endByte <= leaf.startByte + chunkStart'
          /\ chunkStart' \in 0..SP!Size(leaf)
          /\ leaf.startByte \in Nat /\ SP!Size(leaf) \in Nat
      BY <1>1, <1>7, SplitStepEffect
    <2>2. tree' = tree /\ lang' = lang /\ stack' = stack
      BY <1>7 DEF SplitStep
    <2>3. /\ leaf.lang \in Languages
          /\ \A j \in 1..Len(stack) : Valid(stack[j]) =>
                leaf.startByte + SP!Size(leaf) <= tree.startByte[stack[j]]
      <3>1. ls # "idle"
        BY <1>7, SameStep DEF SplitStep, SP!Next, SP!FlushAccumulated,
              SP!KeepAccumulated, SP!SplitByBytes, SP!NextLine, SP!Return
      <3>2. QED
        BY <1>2, <3>1 DEF Splitting
    <2>4. AtomsBeforeStack'
      <3>1. SUFFICES ASSUME NEW a \in 1..Len(atoms'), NEW j \in 1..Len(stack),
                            Valid(stack[j])
                     PROVE  atoms'[a].endByte <= tree.startByte[stack[j]]
        BY <2>2 DEF AtomsBeforeStack, Valid
      <3>2. stack[j] \in Nodes
        BY <1>2
      <3>3. atoms'[a].endByte \in Nat /\ tree.startByte[stack[j]] \in Nat
        <4>1. atoms'[a] \in AtomRecord
          BY <2>1
        <4>2. QED
          BY <1>2, <3>2, <4>1, NodeFields DEF AtomRecord
      <3>4. QED
        BY <2>1, <2>3, <3>1, <3>3
    <2>5. Splitting'
      BY <2>1, <2>2, <2>3 DEF Splitting, Valid, SP!Size
    <2>6. TypeOK' /\ StackInOrder'
      BY <1>2, <2>1, <2>2 DEF TypeOK, Nodes, StackInOrder, Valid
    <2>7. QED
      BY <2>1, <2>4, <2>5, <2>6 DEF IInv
  <1>8. CASE UNCHANGED vars
    <2>1. UNCHANGED <<tree, lang, stack, atoms, leaf, k, lineOffset, chunkStart, chunkStartRow, ls>>
      BY <1>8 DEF vars, split
    <2>2. SP!Progress => SP!Progress'
      BY <2>1 DEF SP!Progress, SP!Size, SP!BetweenLines, SP!InsideLine, SP!AllFlushed,
            SP!LineStart, SP!LineEnd, SP!TooLong
    <2>3. Splitting'
      BY <1>2, <2>1, <2>2 DEF Splitting, Valid, SP!Size
    <2>4. /\ TypeOK' /\ SortedAtoms' /\ AtomsFitChunk'
          /\ StackInOrder' /\ AtomsBeforeStack'
      BY <1>2, <2>1 DEF TypeOK, Nodes, Valid, SortedAtoms, AtomsFitChunk,
            InDocumentOrder, NoneOversized, StackInOrder, AtomsBeforeStack
    <2>5. QED
      BY <2>3, <2>4 DEF IInv
  <1>9. QED
    BY <1>1, <1>3, <1>4, <1>5, <1>6, <1>7, <1>8 DEF Next

-----------------------------------------------------------------------------
THEOREM Invariance == Spec => []IInv
  BY Initially, Inductive, PTL DEF Spec

\* Every variable keeps its type.
THEOREM TypeCorrect == Spec => []TypeOK
  <1>1. IInv => TypeOK
    BY DEF IInv
  <1>2. QED
    BY <1>1, Invariance, PTL

\* collectAtoms appends its atoms in document order and without overlap, from
\* trees of any size.
THEOREM AtomsSorted == Spec => []SortedAtoms
  <1>1. IInv => SortedAtoms
    BY DEF IInv
  <1>2. QED
    BY <1>1, Invariance, PTL

\* No atom that collectAtoms appends is larger than MaxChunkSize.
THEOREM AtomsFit == Spec => []AtomsFitChunk
  <1>1. IInv => AtomsFitChunk
    BY DEF IInv
  <1>2. QED
    BY <1>1, Invariance, PTL

-----------------------------------------------------------------------------
(***************************************************************************)
(* What the atoms are.  A node is at or below another if it is that node   *)
(* or has it above itself.  Every node that has to become an atom has done *)
(* so or is at or below a node of the stack; and since the nodes of the    *)
(* stack are never above each other, none becomes one twice.               *)
(***************************************************************************)
AtOrBelow(n, a) == n = a \/ a \in tree.above[n]

Less == {ss \in Nat \X Nat : ss[1] < ss[2]}

\* The least of a set of numbers; with it, induction over the numbers of nodes.
LEMMA LeastNumber ==
    ASSUME NEW T, T \subseteq Nat, T # {}
    PROVE  \E x \in T : \A y \in T : x <= y
  <1>1. IsWellFoundedOn(Less, Nat)
    BY NatLessThanWellFounded DEF OpToRel, Less
  <1>2. PICK x \in T : \A y \in T : ~ (<<y, x>> \in Less)
    BY ONLY <1>1, T \subseteq Nat, T # {}, WFMin
  <1>3. \A y \in T : ~ (y < x)
    BY <1>2 DEF Less
  <1> QED
    BY <1>3

LEMMA NodeNumbers ==
    ASSUME WellFormed(tree)
    PROVE  /\ Nodes \subseteq Nat \ {0} /\ 1 \in Nodes
           /\ tree.above[1] = {}
           /\ \A n \in Nodes \ {1} :
                 /\ tree.parent[n] \in Nodes /\ tree.parent[n] < n
                 /\ tree.above[n] = {tree.parent[n]} \cup tree.above[tree.parent[n]]
           /\ \A n \in Nodes : \A a \in tree.above[n] : a \in Nodes /\ a < n
  <1>1. Shape(tree)
    BY DEF WellFormed
  <1>2. Len(tree.kind) \in Nat \ {0}
    BY <1>1 DEF Shape
  <1>3. Nodes = 1..Len(tree.kind)
    BY DEF Nodes, NodesOf
  <1>4. Nodes \subseteq Nat \ {0} /\ 1 \in Nodes
    BY <1>2, <1>3
  <1>5. tree.above[1] = {}
    BY <1>1, <1>4 DEF Shape, Nodes
  <1>6. ASSUME NEW n \in Nodes \ {1}
        PROVE  /\ tree.parent[n] \in Nodes /\ tree.parent[n] < n
               /\ tree.above[n] = {tree.parent[n]} \cup tree.above[tree.parent[n]]
    <2>1. tree.parent[n] \in 1..n - 1
      BY <1>1 DEF Shape, Nodes
    <2>2. tree.above[n] = {tree.parent[n]} \cup tree.above[tree.parent[n]]
      BY <1>1 DEF Shape, Nodes
    <2> QED
      BY <1>2, <1>3, <2>1, <2>2
  <1>7. ASSUME NEW n \in Nodes, NEW a \in tree.above[n]
        PROVE  a \in Nodes /\ a < n
    <2>1. tree.above[n] \subseteq 1..n - 1
      BY <1>1 DEF Shape, Nodes
    <2> QED
      BY <1>2, <1>3, <2>1
  <1> QED
    BY <1>4, <1>5, <1>6, <1>7

\* What is above a node is all that is above its ancestors.
LEMMA AboveIsUpwardClosed ==
    ASSUME WellFormed(tree), NEW n \in Nodes, NEW a \in tree.above[n], a # 1
    PROVE  tree.parent[a] \in tree.above[n]
  <1> DEFINE Bad == {m \in Nodes : a \in tree.above[m] /\ tree.parent[a] \notin tree.above[m]}
  <1>1. Bad = {}
    <2> SUFFICES ASSUME Bad # {} PROVE FALSE
      OBVIOUS
    <2>1. Bad \subseteq Nat
      BY NodeNumbers
    <2>2. PICK m \in Bad : \A y \in Bad : m <= y
      BY <2>1, LeastNumber
    <2>3. m \in Nodes /\ a \in tree.above[m] /\ tree.parent[a] \notin tree.above[m]
      BY <2>2
    <2>4. a \in Nodes \ {1} /\ m \in Nodes \ {1}
      BY <2>3, NodeNumbers
    <2>5. /\ tree.parent[m] \in Nodes /\ tree.parent[m] < m
          /\ tree.above[m] = {tree.parent[m]} \cup tree.above[tree.parent[m]]
          /\ tree.above[a] = {tree.parent[a]} \cup tree.above[tree.parent[a]]
      BY <2>4, NodeNumbers
    <2>6. a # tree.parent[m]
      BY <2>3, <2>5
    <2>7. tree.parent[m] \in Bad
      BY <2>3, <2>5, <2>6
    <2>8. m \in Nat /\ tree.parent[m] \in Nat
      BY <2>4, <2>5, NodeNumbers
    <2> QED
      BY <2>2, <2>5, <2>7, <2>8
  <1> QED
    BY <1>1

\* A node below n is at or below a child of n.
LEMMA BelowAChild ==
    ASSUME WellFormed(tree), NEW n \in Nodes, NEW m \in Nodes, n \in tree.above[m]
    PROVE  \E j \in 1..Len(tree.children[n]) : AtOrBelow(m, tree.children[n][j])
  <1> DEFINE ViaChild(d) == \E c \in Nodes \ {1} : tree.parent[c] = n /\ AtOrBelow(d, c)
             Bad == {d \in Nodes : n \in tree.above[d] /\ ~ ViaChild(d)}
  <1>1. Bad = {}
    <2> SUFFICES ASSUME Bad # {} PROVE FALSE
      OBVIOUS
    <2>1. Bad \subseteq Nat
      BY NodeNumbers
    <2>2. PICK d \in Bad : \A y \in Bad : d <= y
      BY <2>1, LeastNumber
    <2>3. d \in Nodes \ {1} /\ n \in tree.above[d] /\ ~ ViaChild(d)
      BY <2>2, NodeNumbers
    <2>4. /\ tree.parent[d] \in Nodes /\ tree.parent[d] < d
          /\ tree.above[d] = {tree.parent[d]} \cup tree.above[tree.parent[d]]
      BY <2>3, NodeNumbers
    <2>5. tree.parent[d] # n
      BY <2>3 DEF AtOrBelow
    <2>6. n \in tree.above[tree.parent[d]]
      BY <2>3, <2>4, <2>5
    <2>7. ~ ViaChild(tree.parent[d])
      BY <2>3, <2>4 DEF AtOrBelow
    <2>8. tree.parent[d] \in Bad
      BY <2>4, <2>6, <2>7
    <2>9. d \in Nat /\ tree.parent[d] \in Nat
      BY <2>3, <2>4, NodeNumbers
    <2> QED
      BY <2>2, <2>4, <2>8, <2>9
  <1>2. PICK c \in Nodes \ {1} : tree.parent[c] = n /\ AtOrBelow(m, c)
    BY <1>1
  <1>3. \E j \in 1..Len(tree.children[n]) : tree.children[n][j] = c
    BY <1>2 DEF WellFormed, Shape, Nodes
  <1> QED
    BY <1>2, <1>3

LEMMA ChildFacts ==
    ASSUME WellFormed(tree), NEW n \in Nodes, NEW j \in 1..Len(tree.children[n])
    PROVE  LET c == tree.children[n][j]
           IN  c \in Nodes \ {1} /\ n < c /\ tree.above[c] = {n} \cup tree.above[n]
  <1> DEFINE c == tree.children[n][j]
  <1>1. Shape(tree)
    BY DEF WellFormed
  <1>2. tree.children[n] \in Seq(Nodes) /\ tree.parent[c] = n
    BY <1>1 DEF Shape, Nodes
  <1>3. c \in Nodes
    BY <1>2
  <1>4. c # 1
    <2>1. tree.parent[1] = 0 /\ n # 0
      BY <1>1, NodeNumbers DEF Shape
    <2> QED
      BY <1>2, <2>1
  <1> QED
    BY <1>2, <1>3, <1>4, NodeNumbers

-----------------------------------------------------------------------------
\* What Reached asks of the nodes above one.
Entered(n) == Valid(n) /\ ~ FittingBoundary(n)

\* The leaves that the walk has to cut.
CutLeaves == {n \in Nodes : Reached(n) /\ OversizedLeaf(n)}

Collected(n) == \E j \in 1..Len(atoms) : atoms[j].node = n

\* Bytes b..e-1 are in line atoms.
Covered(b, e) ==
    \A y \in b..e - 1 : \E j \in 1..Len(atoms) :
        atoms[j].node = 0 /\ atoms[j].startByte <= y /\ y < atoms[j].endByte

Ahead(n) == \E j \in 1..Len(stack) : AtOrBelow(n, stack[j])

\* lineSplitAtom is at work on the bytes of n.
InSplit(n) ==
    /\ ls # "idle"
    /\ tree.startByte[n] = leaf.startByte
    /\ tree.endByte[n] = leaf.startByte + SP!Size(leaf)

StackReached == \A j \in 1..Len(stack) : \A a \in tree.above[stack[j]] : Entered(a)

StackApart ==
    \A j, m \in 1..Len(stack) : j # m => ~ AtOrBelow(stack[j], stack[m])

CollectedApart ==
    \A a \in 1..Len(atoms), j \in 1..Len(stack) :
        atoms[a].node # 0 => ~ AtOrBelow(atoms[a].node, stack[j])

OnlyOutermost == \A j \in 1..Len(atoms) : atoms[j].node \in Outermost \cup {0}

CollectedOnce ==
    \A j, m \in 1..Len(atoms) :
        j # m /\ atoms[j].node # 0 => atoms[j].node # atoms[m].node

NoneLost == \A n \in Outermost : Collected(n) \/ Ahead(n)

OnlyCutLeaves ==
    \A j \in 1..Len(atoms) : atoms[j].node = 0 =>
        \E n \in CutLeaves : /\ tree.startByte[n] <= atoms[j].startByte
                             /\ atoms[j].endByte <= tree.endByte[n]

NoLeafLost ==
    \A n \in CutLeaves :
        Ahead(n) \/ InSplit(n) \/ Covered(tree.startByte[n], tree.endByte[n])

CutSoFar ==
    ls # "idle" =>
        /\ \E n \in CutLeaves : InSplit(n)
        /\ Covered(leaf.startByte, leaf.startByte + chunkStart)

WalkInv ==
    /\ StackReached /\ StackApart
    /\ CollectedApart /\ OnlyOutermost /\ CollectedOnce /\ NoneLost
    /\ OnlyCutLeaves /\ NoLeafLost /\ CutSoFar

-----------------------------------------------------------------------------
\* The walk changes neither the tree nor what the tree says of its nodes.
LEMMA SameTree ==
    ASSUME tree' = tree, lang' = lang
    PROVE  /\ Nodes' = Nodes /\ Outermost' = Outermost /\ CutLeaves' = CutLeaves
           /\ \A n : Entered(n)' <=> Entered(n)
           /\ \A n, a : AtOrBelow(n, a)' <=> AtOrBelow(n, a)
  BY DEF Nodes, Outermost, CutLeaves, Entered, AtOrBelow, Reached, OversizedLeaf, Valid,
         FittingBoundary, InTopLevel, InNested, Span

\* One more atom.
LEMMA Appended ==
    ASSUME atoms \in Seq(AtomRecord), NEW x, atoms' = Append(atoms, x)
    PROVE  /\ Len(atoms) \in Nat
           /\ Len(atoms') = Len(atoms) + 1
           /\ atoms'[Len(atoms) + 1] = x
           /\ \A j \in 1..Len(atoms') : j = Len(atoms) + 1 \/ j \in 1..Len(atoms)
           /\ \A j \in 1..Len(atoms) : j \in 1..Len(atoms') /\ atoms'[j] = atoms[j]
           /\ Collected(x.node)'
           /\ \A n : Collected(n) => Collected(n)'
           /\ \A b, e : Covered(b, e) => Covered(b, e)'
  <1>1. /\ Len(atoms) \in Nat
        /\ Len(atoms') = Len(atoms) + 1
        /\ atoms'[Len(atoms) + 1] = x
        /\ \A j \in 1..Len(atoms') : j = Len(atoms) + 1 \/ j \in 1..Len(atoms)
        /\ \A j \in 1..Len(atoms) : j \in 1..Len(atoms') /\ atoms'[j] = atoms[j]
    OBVIOUS
  <1>2. Len(atoms) + 1 \in 1..Len(atoms')
    BY <1>1
  <1>3. \A n : n = x.node => Collected(n)'
    BY <1>1, <1>2 DEF Collected
  <1>4. ASSUME NEW n, Collected(n) PROVE Collected(n)'
    BY <1>1, <1>4 DEF Collected
  <1>5. ASSUME NEW b, NEW e, Covered(b, e) PROVE Covered(b, e)'
    <2> SUFFICES ASSUME NEW y \in b..e - 1
                 PROVE  \E j \in 1..Len(atoms') :
                            /\ atoms'[j].node = 0
                            /\ atoms'[j].startByte <= y /\ y < atoms'[j].endByte
      BY DEF Covered
    <2>1. PICK j \in 1..Len(atoms) :
              atoms[j].node = 0 /\ atoms[j].startByte <= y /\ y < atoms[j].endByte
      BY <1>5 DEF Covered
    <2> QED
      BY <1>1, <2>1
  <1> QED
    BY <1>1, <1>3, <1>4, <1>5

\* The stack without its first node.
LEMMA Popped ==
    ASSUME TypeOK, stack # << >>, stack' = Tail(stack), tree' = tree, lang' = lang,
           StackReached, StackApart
    PROVE  /\ 1 \in 1..Len(stack) /\ Head(stack) = stack[1] /\ Head(stack) \in Nodes
           /\ Len(stack) \in Nat
           /\ \A j \in 1..Len(stack') :
                 j + 1 \in 1..Len(stack) /\ 1 # j + 1 /\ stack'[j] = stack[j + 1]
           /\ StackReached' /\ StackApart'
           /\ \A n : Ahead(n) => AtOrBelow(n, Head(stack)) \/ Ahead(n)'
  <1>1. stack \in Seq(Nodes)
    BY DEF TypeOK
  <1>2. /\ Len(stack) \in Nat \ {0} /\ 1 \in 1..Len(stack)
        /\ Head(stack) = stack[1] /\ Head(stack) \in Nodes
        /\ Len(stack') = Len(stack) - 1
        /\ \A j \in 1..Len(stack') :
              j + 1 \in 1..Len(stack) /\ 1 # j + 1 /\ stack'[j] = stack[j + 1]
    BY <1>1
  <1>3. StackReached'
    BY <1>2, SameTree DEF StackReached
  <1>4. StackApart'
    <2> SUFFICES ASSUME NEW j \in 1..Len(stack'), NEW m \in 1..Len(stack'), j # m
                 PROVE  ~ AtOrBelow(stack'[j], stack'[m])
      BY SameTree DEF StackApart, AtOrBelow
    <2>1. /\ j + 1 \in 1..Len(stack) /\ stack'[j] = stack[j + 1]
          /\ m + 1 \in 1..Len(stack) /\ stack'[m] = stack[m + 1]
          /\ j + 1 # m + 1
      BY <1>2
    <2> QED
      BY <2>1 DEF StackApart
  <1>5. ASSUME NEW n, Ahead(n), ~ AtOrBelow(n, Head(stack)) PROVE Ahead(n)'
    <2>1. PICK j \in 1..Len(stack) : AtOrBelow(n, stack[j])
      BY <1>5 DEF Ahead
    <2>2. j # 1
      BY <1>2, <1>5, <2>1
    <2>3. j - 1 \in 1..Len(stack') /\ stack'[j - 1] = stack[j]
      BY <1>2, <2>1, <2>2
    <2> QED
      BY <2>1, <2>3 DEF Ahead, AtOrBelow
  <1> QED
    BY <1>2, <1>3, <1>4, <1>5

\* A node below one that the walk does not enter, or below a leaf, has not to be
\* collected or cut.
LEMMA NothingBelow ==
    ASSUME TypeOK, NEW h \in Nodes, NEW n \in Nodes, Reached(n), AtOrBelow(n, h),
           ~ Valid(h) \/ FittingBoundary(h) \/ OversizedLeaf(h)
    PROVE  n = h
  <1> SUFFICES ASSUME n # h PROVE FALSE
    OBVIOUS
  <1>1. h \in tree.above[n]
    BY DEF AtOrBelow
  <1>2. Valid(h) /\ ~ FittingBoundary(h)
    BY <1>1 DEF Reached
  <1>3. tree.children[h] = << >>
    BY <1>2 DEF OversizedLeaf
  <1>4. PICK j \in 1..Len(tree.children[h]) : AtOrBelow(n, tree.children[h][j])
    BY <1>1, BelowAChild DEF TypeOK
  <1> QED
    BY <1>3, <1>4

LEMMA FittingIsNoOversizedLeaf ==
    ASSUME TypeOK, NEW n \in Nodes, FittingBoundary(n)
    PROVE  ~ OversizedLeaf(n)
  <1>1. Span(n) \in Int
    BY NodeFields DEF Span
  <1> QED
    BY <1>1, SizeAssumption DEF FittingBoundary, OversizedLeaf

\* Every node is the root or below it.
LEMMA RootAboveAll ==
    ASSUME WellFormed(tree)
    PROVE  \A n \in Nodes : AtOrBelow(n, 1)
  <1> DEFINE Bad == {n \in Nodes : ~ AtOrBelow(n, 1)}
  <1> SUFFICES ASSUME Bad # {} PROVE FALSE
    OBVIOUS
  <1>1. Bad \subseteq Nat
    BY NodeNumbers
  <1>2. PICK n \in Bad : \A y \in Bad : n <= y
    BY <1>1, LeastNumber
  <1>3. n \in Nodes \ {1} /\ 1 \notin tree.above[n]
    BY <1>2 DEF AtOrBelow
  <1>4. /\ tree.parent[n] \in Nodes /\ tree.parent[n] < n
        /\ tree.above[n] = {tree.parent[n]} \cup tree.above[tree.parent[n]]
        /\ n \in Nat /\ tree.parent[n] \in Nat
    BY <1>3, NodeNumbers
  <1>5. tree.parent[n] \in Bad
    BY <1>3, <1>4 DEF AtOrBelow
  <1> QED
    BY <1>2, <1>4, <1>5

\* Before its first step the walk has everything ahead of it.
LEMMA FreshAhead ==
    ASSUME WellFormed(tree), stack = << 1 >>, atoms = << >>, ls = "idle"
    PROVE  WalkInv
  <1>3. StackReached /\ StackApart
    BY NodeNumbers DEF StackReached, StackApart
  <1>4. CollectedApart /\ OnlyOutermost /\ CollectedOnce /\ OnlyCutLeaves /\ CutSoFar
    BY DEF CollectedApart, OnlyOutermost, CollectedOnce, OnlyCutLeaves, CutSoFar
  <1>5. \A n \in Nodes : AtOrBelow(n, 1)
    BY RootAboveAll
  <1>6. \A n \in Nodes : Ahead(n)
    BY <1>5 DEF Ahead
  <1>7. NoneLost /\ NoLeafLost
    BY <1>6 DEF NoneLost, NoLeafLost, Outermost, CutLeaves
  <1> QED
    BY <1>3, <1>4, <1>7 DEF WalkInv

LEMMA WalkInitially == Init => WalkInv
  BY FreshAhead, CollectAssumption DEF Init

LEMMA WalkSkipInvalid == TypeOK /\ WalkInv /\ SkipInvalid => WalkInv'
  <1> SUFFICES ASSUME TypeOK, WalkInv, SkipInvalid PROVE WalkInv'
    OBVIOUS
  <1> DEFINE h == Head(stack)
  <1>1. /\ stack # << >> /\ ls = "idle" /\ stack' = Tail(stack) /\ ~ Valid(h)
        /\ tree' = tree /\ lang' = lang /\ atoms' = atoms /\ ls' = ls /\ leaf' = leaf
    BY DEF SkipInvalid, Visiting, split
  <1>2. /\ StackReached /\ StackApart /\ CollectedApart /\ OnlyOutermost /\ CollectedOnce
        /\ NoneLost /\ OnlyCutLeaves /\ NoLeafLost
    BY DEF WalkInv
  <1>3. /\ h \in Nodes
        /\ \A j \in 1..Len(stack') : j + 1 \in 1..Len(stack) /\ stack'[j] = stack[j + 1]
        /\ StackReached' /\ StackApart'
        /\ \A n : Ahead(n) => AtOrBelow(n, h) \/ Ahead(n)'
    BY <1>1, <1>2, Popped
  <1>4. /\ Outermost' = Outermost /\ CutLeaves' = CutLeaves
        /\ \A n, a : AtOrBelow(n, a)' <=> AtOrBelow(n, a)
    BY <1>1, SameTree
  <1>5. \A n \in Nodes : Reached(n) => ~ AtOrBelow(n, h)
    BY <1>1, <1>3, NothingBelow DEF Reached
  <1>6. CollectedApart'
    BY <1>1, <1>2, <1>3 DEF CollectedApart, AtOrBelow
  <1>7. OnlyOutermost' /\ CollectedOnce' /\ OnlyCutLeaves'
    BY <1>1, <1>2, <1>4 DEF OnlyOutermost, CollectedOnce, OnlyCutLeaves
  <1>8. NoneLost'
    BY <1>1, <1>2, <1>3, <1>4, <1>5 DEF NoneLost, Outermost, Collected
  <1>9. NoLeafLost'
    BY <1>1, <1>2, <1>3, <1>4, <1>5 DEF NoLeafLost, CutLeaves, InSplit, Covered
  <1>10. CutSoFar'
    BY <1>1 DEF CutSoFar
  <1> QED
    BY <1>3, <1>6, <1>7, <1>8, <1>9, <1>10 DEF WalkInv

LEMMA WalkEmitBoundary == TypeOK /\ WalkInv /\ EmitBoundary => WalkInv'
  <1> SUFFICES ASSUME TypeOK, WalkInv, EmitBoundary PROVE WalkInv'
    OBVIOUS
  <1> DEFINE h == Head(stack)
             new == BoundaryAtom(h)
             last == Len(atoms) + 1
  <1>1. /\ stack # << >> /\ ls = "idle" /\ stack' = Tail(stack)
        /\ Valid(h) /\ FittingBoundary(h) /\ atoms' = Append(atoms, new)
        /\ tree' = tree /\ lang' = lang /\ ls' = ls /\ leaf' = leaf
    BY DEF EmitBoundary, Visiting, split
  <1>2. /\ StackReached /\ StackApart /\ CollectedApart /\ OnlyOutermost /\ CollectedOnce
        /\ NoneLost /\ OnlyCutLeaves /\ NoLeafLost
    BY DEF WalkInv
  <1>3. /\ h \in Nodes /\ 1 \in 1..Len(stack) /\ h = stack[1]
        /\ \A j \in 1..Len(stack') :
              j + 1 \in 1..Len(stack) /\ 1 # j + 1 /\ stack'[j] = stack[j + 1]
        /\ StackReached' /\ StackApart'
        /\ \A n : Ahead(n) => AtOrBelow(n, h) \/ Ahead(n)'
    BY <1>1, <1>2, Popped
  <1>4. /\ Outermost' = Outermost /\ CutLeaves' = CutLeaves
        /\ \A n, a : AtOrBelow(n, a)' <=> AtOrBelow(n, a)
    BY <1>1, SameTree
  <1>5. new.node = h /\ h # 0
    BY <1>3, NodeNumbers DEF BoundaryAtom, TypeOK
  <1>6. atoms \in Seq(AtomRecord)
    BY DEF TypeOK
  <1>7. /\ last \in 1..Len(atoms') /\ atoms'[last] = new
        /\ \A j \in 1..Len(atoms') : j = last \/ j \in 1..Len(atoms)
        /\ \A j \in 1..Len(atoms) : j # last /\ j \in 1..Len(atoms') /\ atoms'[j] = atoms[j]
        /\ \A n : Collected(n) => Collected(n)'
        /\ \A b, e : Covered(b, e) => Covered(b, e)'
    <2> HIDE DEF new
    <2> QED
      BY <1>1, <1>6, Appended
  <1>8. h \in Outermost
    BY <1>1, <1>2, <1>3 DEF Outermost, Reached, StackReached, Entered
  <1>9. \A n \in Nodes : Reached(n) /\ AtOrBelow(n, h) => n = h
    BY <1>1, <1>3, NothingBelow
  <1> HIDE DEF new, last
  <1>10. CollectedApart'
    <2> SUFFICES ASSUME NEW a \in 1..Len(atoms'), NEW j \in 1..Len(stack'),
                        atoms'[a].node # 0
                 PROVE  ~ AtOrBelow(atoms'[a].node, stack'[j])
      BY <1>1 DEF CollectedApart, AtOrBelow
    <2>1. CASE a = last
      BY <1>2, <1>3, <1>5, <1>7, <2>1 DEF StackApart
    <2>2. CASE a \in 1..Len(atoms)
      BY <1>2, <1>3, <1>7, <2>2 DEF CollectedApart
    <2> QED
      BY <1>7, <2>1, <2>2
  <1>11. OnlyOutermost'
    BY <1>2, <1>4, <1>5, <1>7, <1>8 DEF OnlyOutermost
  <1>12. CollectedOnce'
    <2>1. \A a \in 1..Len(atoms) : atoms[a].node # h
      BY <1>2, <1>3, <1>5 DEF CollectedApart, AtOrBelow
    <2> QED
      BY <1>2, <1>5, <1>7, <2>1 DEF CollectedOnce
  <1>13. NoneLost'
    <2>1. ASSUME NEW n \in Outermost PROVE Collected(n)' \/ Ahead(n)'
      <3>1. n \in Nodes /\ Reached(n)
        BY DEF Outermost
      <3>2. n # h => Collected(n) \/ Ahead(n)'
        BY <1>2, <1>3, <1>9, <3>1 DEF NoneLost
      <3>3. n = h => Collected(n)'
        BY <1>5, <1>7 DEF Collected
      <3> QED
        BY <1>7, <3>2, <3>3
    <2> QED
      BY <1>4, <2>1 DEF NoneLost
  <1>14. OnlyCutLeaves'
    BY <1>1, <1>2, <1>4, <1>5, <1>7 DEF OnlyCutLeaves
  <1>15. NoLeafLost'
    <2>1. ASSUME NEW n \in CutLeaves
          PROVE  Ahead(n)' \/ Covered(tree.startByte[n], tree.endByte[n])'
      <3>1. n \in Nodes /\ Reached(n) /\ n # h
        BY <1>1, <1>3, FittingIsNoOversizedLeaf DEF CutLeaves
      <3>2. Ahead(n) \/ Covered(tree.startByte[n], tree.endByte[n])
        BY <1>1, <1>2 DEF NoLeafLost, InSplit
      <3>3. Covered(tree.startByte[n], tree.endByte[n])
                => Covered(tree.startByte[n], tree.endByte[n])'
        BY <1>1, <1>7 DEF Covered
      <3> QED
        BY <1>3, <1>9, <3>1, <3>2, <3>3
    <2> QED
      BY <1>4, <2>1 DEF NoLeafLost
  <1>16. CutSoFar'
    BY <1>1 DEF CutSoFar
  <1> QED
    BY <1>3, <1>10, <1>11, <1>12, <1>13, <1>14, <1>15, <1>16 DEF WalkInv

LEMMA WalkSplitLeaf == TypeOK /\ WalkInv /\ SplitLeaf => WalkInv'
  <1> SUFFICES ASSUME TypeOK, WalkInv, SplitLeaf PROVE WalkInv'
    OBVIOUS
  <1> DEFINE h == Head(stack)
  <1>1. /\ stack # << >> /\ ls = "idle" /\ stack' = Tail(stack)
        /\ Valid(h) /\ OversizedLeaf(h) /\ Split!Call(LeafOf(h))
        /\ tree' = tree /\ lang' = lang
    BY DEF SplitLeaf, Visiting
  <1>2. /\ StackReached /\ StackApart /\ CollectedApart /\ OnlyOutermost /\ CollectedOnce
        /\ NoneLost /\ OnlyCutLeaves /\ NoLeafLost
    BY DEF WalkInv
  <1>3. /\ h \in Nodes /\ 1 \in 1..Len(stack) /\ h = stack[1]
        /\ \A j \in 1..Len(stack') : j + 1 \in 1..Len(stack) /\ stack'[j] = stack[j + 1]
        /\ StackReached' /\ StackApart'
        /\ \A n : Ahead(n) => AtOrBelow(n, h) \/ Ahead(n)'
    BY <1>1, <1>2, Popped
  <1>4. /\ Outermost' = Outermost /\ CutLeaves' = CutLeaves
        /\ \A n, a : AtOrBelow(n, a)' <=> AtOrBelow(n, a)
    BY <1>1, SameTree
  <1>5. /\ leaf'.startByte = tree.startByte[h] /\ SP!Size(leaf') = Span(h)
        /\ chunkStart' = 0 /\ ls' = "line" /\ atoms' = atoms
    BY <1>1, <1>3, CallStartsWell
  <1>6. tree.startByte[h] \in Nat /\ tree.endByte[h] \in Nat
    BY <1>3, NodeFields
  <1>7. tree.endByte[h] = leaf'.startByte + SP!Size(leaf')
    BY <1>5, <1>6 DEF Span
  <1>8. \A n : n = h => InSplit(n)'
    BY <1>1, <1>5, <1>7 DEF InSplit, SP!Size
  <1>9. h \in CutLeaves
    BY <1>1, <1>2, <1>3, FittingIsNoOversizedLeaf DEF CutLeaves, Reached, StackReached, Entered
  <1>10. \A n \in Nodes : Reached(n) /\ AtOrBelow(n, h) => n = h
    BY <1>1, <1>3, NothingBelow
  <1>11. CollectedApart'
    BY <1>1, <1>2, <1>3, <1>5 DEF CollectedApart, AtOrBelow
  <1>12. OnlyOutermost' /\ CollectedOnce' /\ OnlyCutLeaves'
    BY <1>1, <1>2, <1>4, <1>5 DEF OnlyOutermost, CollectedOnce, OnlyCutLeaves
  <1>13. NoneLost'
    <2>1. ASSUME NEW n \in Outermost PROVE Collected(n) \/ Ahead(n)'
      <3>1. n \in Nodes /\ Reached(n) /\ n # h
        BY <1>1, <1>3, FittingIsNoOversizedLeaf DEF Outermost
      <3> QED
        BY <1>2, <1>3, <1>10, <3>1 DEF NoneLost
    <2> QED
      BY <1>4, <1>5, <2>1 DEF NoneLost, Collected
  <1>14. NoLeafLost'
    <2>1. ASSUME NEW n \in CutLeaves
          PROVE  Ahead(n)' \/ InSplit(n)' \/ Covered(tree.startByte[n], tree.endByte[n])
      <3>1. n \in Nodes /\ Reached(n)
        BY DEF CutLeaves
      <3>2. Ahead(n) \/ Covered(tree.startByte[n], tree.endByte[n])
        BY <1>1, <1>2 DEF NoLeafLost, InSplit
      <3> QED
        BY <1>3, <1>8, <1>10, <3>1, <3>2
    <2> QED
      BY <1>1, <1>4, <1>5, <2>1 DEF NoLeafLost, Covered
  <1>15. CutSoFar'
    <2>1. \E n \in CutLeaves' : InSplit(n)'
      BY <1>4, <1>8, <1>9
    <2>2. Covered(leaf.startByte, leaf.startByte + chunkStart)'
      <3>1. leaf'.startByte..(leaf'.startByte + chunkStart') - 1 = {}
        BY <1>5, <1>6
      <3> QED
        BY <3>1 DEF Covered
    <2> QED
      BY <2>1, <2>2 DEF CutSoFar
  <1> QED
    BY <1>3, <1>11, <1>12, <1>13, <1>14, <1>15 DEF WalkInv

LEMMA WalkDescend == TypeOK /\ WalkInv /\ Descend => WalkInv'
  <1> SUFFICES ASSUME TypeOK, WalkInv, Descend PROVE WalkInv'
    OBVIOUS
  <1> DEFINE h == Head(stack)
             c == tree.children[h]
             d == Tail(stack)
  <1>1. /\ stack # << >> /\ ls = "idle" /\ stack' = c \o d
        /\ Valid(h) /\ ~ FittingBoundary(h) /\ ~ OversizedLeaf(h)
        /\ tree' = tree /\ lang' = lang /\ atoms' = atoms /\ ls' = ls /\ leaf' = leaf
    BY DEF Descend, Visiting, split
  <1>2. /\ StackReached /\ StackApart /\ CollectedApart /\ OnlyOutermost /\ CollectedOnce
        /\ NoneLost /\ OnlyCutLeaves /\ NoLeafLost
    BY DEF WalkInv
  <1>3. /\ WellFormed(tree) /\ stack \in Seq(Nodes)
        /\ h \in Nodes /\ 1 \in 1..Len(stack) /\ h = stack[1] /\ d \in Seq(Nodes)
        /\ Len(d) = Len(stack) - 1 /\ Len(stack) \in Nat
        /\ \A j \in 1..Len(d) : j + 1 \in 1..Len(stack) /\ 1 # j + 1 /\ d[j] = stack[j + 1]
    BY <1>1 DEF TypeOK
  <1>4. c \in Seq(Nodes) /\ Len(c) \in Nat
    BY <1>3, NodeFields
  <1>5. \A j \in 1..Len(c) :
            c[j] \in Nodes \ {1} /\ h < c[j] /\ tree.above[c[j]] = {h} \cup tree.above[h]
    BY <1>3, ChildFacts
  <1>6. \A j, m \in 1..Len(c) : j # m => c[j] # c[m]
    BY <1>3 DEF WellFormed, Shape, Nodes
  <1>7. \A j \in 1..Len(c) : tree.parent[c[j]] = h
    BY <1>3 DEF WellFormed, Shape, Nodes
  <1> HIDE DEF h, c, d
  <1>8. /\ Len(stack') = Len(c) + Len(d)
        /\ \A j \in 1..Len(stack') :
              \/ j \in 1..Len(c) /\ stack'[j] = c[j]
              \/ /\ j \in Int /\ Len(c) < j /\ j - Len(c) \in 1..Len(d)
                 /\ stack'[j] = d[j - Len(c)]
    BY ONLY <1>1, <1>3, <1>4, Concatenation
  <1>9. /\ \A j \in 1..Len(c) : j \in 1..Len(stack') /\ stack'[j] = c[j]
        /\ \A j \in 1..Len(d) : Len(c) + j \in 1..Len(stack') /\ stack'[Len(c) + j] = d[j]
    BY ONLY <1>1, <1>3, <1>4
  <1>10. /\ Outermost' = Outermost /\ CutLeaves' = CutLeaves
         /\ \A n : Entered(n)' <=> Entered(n)
         /\ \A n, a : AtOrBelow(n, a)' <=> AtOrBelow(n, a)
    BY <1>1, SameTree
  <1>11. Entered(h) /\ \A a \in tree.above[h] : Entered(a)
    BY <1>1, <1>2, <1>3 DEF StackReached, Entered
  <1>12. \A j \in 1..Len(d) : ~ AtOrBelow(d[j], h) /\ ~ AtOrBelow(h, d[j])
    BY <1>2, <1>3 DEF StackApart
  <1>13. ASSUME NEW n \in Nodes, NEW j \in 1..Len(c), AtOrBelow(n, c[j])
         PROVE  AtOrBelow(n, h)
    <2>1. CASE n = c[j]
      BY <1>5, <2>1 DEF AtOrBelow
    <2>2. CASE c[j] \in tree.above[n]
      BY <1>3, <1>5, <1>7, <2>2, AboveIsUpwardClosed DEF AtOrBelow
    <2> QED
      BY <1>13, <2>1, <2>2 DEF AtOrBelow
  <1>14. StackReached'
    <2> SUFFICES ASSUME NEW j \in 1..Len(stack'), NEW a \in tree.above[stack'[j]]
                 PROVE  Entered(a)
      BY <1>1, <1>10 DEF StackReached
    <2>1. CASE j \in 1..Len(c) /\ stack'[j] = c[j]
      BY <1>5, <1>11, <2>1
    <2>2. CASE j - Len(c) \in 1..Len(d) /\ stack'[j] = d[j - Len(c)]
      BY <1>2, <1>3, <2>2 DEF StackReached
    <2> QED
      BY <1>8, <2>1, <2>2
  <1>15. StackApart'
    <2> SUFFICES ASSUME NEW j \in 1..Len(stack'), NEW m \in 1..Len(stack'), j # m
                 PROVE  ~ AtOrBelow(stack'[j], stack'[m])
      BY <1>1 DEF StackApart, AtOrBelow
    <2> DEFINE jd == j - Len(c)
               md == m - Len(c)
    <2>1. CASE j \in 1..Len(c) /\ stack'[j] = c[j] /\ m \in 1..Len(c) /\ stack'[m] = c[m]
      <3>1. c[j] # c[m]
        BY <1>6, <2>1
      <3>2. c[m] \notin tree.above[c[j]]
        <4>1. \A a \in {h} \cup tree.above[h] : a <= h
          BY <1>3, NodeNumbers
        <4>2. h < c[m] /\ h \in Nat /\ c[m] \in Nat
          BY <1>3, <1>5, <2>1, NodeNumbers
        <4>3. \A a \in {h} \cup tree.above[h] : a \in Nat
          BY <1>3, NodeNumbers
        <4> QED
          BY <1>5, <2>1, <4>1, <4>2, <4>3
      <3> QED
        BY <2>1, <3>1, <3>2 DEF AtOrBelow
    <2>2. CASE j \in 1..Len(c) /\ stack'[j] = c[j] /\ md \in 1..Len(d) /\ stack'[m] = d[md]
      <3>1. ~ AtOrBelow(h, d[md]) /\ ~ AtOrBelow(d[md], h)
        BY <1>12, <2>2
      <3>2. d[md] # c[j]
        BY <1>5, <2>2, <3>1 DEF AtOrBelow
      <3>3. d[md] \notin tree.above[c[j]]
        BY <1>5, <2>2, <3>1 DEF AtOrBelow
      <3> QED
        BY <2>2, <3>2, <3>3 DEF AtOrBelow
    <2>3. CASE jd \in 1..Len(d) /\ stack'[j] = d[jd] /\ m \in 1..Len(c) /\ stack'[m] = c[m]
      <3>1. ~ AtOrBelow(d[jd], h) /\ d[jd] \in Nodes
        BY <1>3, <1>12, <2>3
      <3> QED
        BY <1>13, <2>3, <3>1
    <2>4. CASE /\ jd \in 1..Len(d) /\ stack'[j] = d[jd]
               /\ md \in 1..Len(d) /\ stack'[m] = d[md]
      <3>1. jd + 1 # md + 1
        BY <1>4, <2>4
      <3> QED
        BY <1>2, <1>3, <2>4, <3>1 DEF StackApart
    <2> QED
      BY <1>8, <2>1, <2>2, <2>3, <2>4
  <1>16. CollectedApart'
    <2> SUFFICES ASSUME NEW a \in 1..Len(atoms), NEW j \in 1..Len(stack'),
                        atoms[a].node # 0
                 PROVE  ~ AtOrBelow(atoms[a].node, stack'[j])
      BY <1>1 DEF CollectedApart, AtOrBelow
    <2>1. atoms[a].node \in Nodes /\ ~ AtOrBelow(atoms[a].node, h)
      BY <1>2, <1>3 DEF OnlyOutermost, Outermost, CollectedApart
    <2>2. CASE j \in 1..Len(c) /\ stack'[j] = c[j]
      BY <1>13, <2>1, <2>2
    <2>3. CASE j - Len(c) \in 1..Len(d) /\ stack'[j] = d[j - Len(c)]
      BY <1>2, <1>3, <2>3 DEF CollectedApart
    <2> QED
      BY <1>8, <2>2, <2>3
  <1>17. \A n \in Nodes : Ahead(n) /\ n # h => Ahead(n)'
    <2> SUFFICES ASSUME NEW n \in Nodes, NEW m \in 1..Len(stack), AtOrBelow(n, stack[m]), n # h
                 PROVE  \E j \in 1..Len(stack') : AtOrBelow(n, stack'[j])
      BY <1>10 DEF Ahead, AtOrBelow
    <2>1. CASE m = 1
      <3>1. h \in tree.above[n]
        BY <1>3, <2>1 DEF AtOrBelow
      <3>2. PICK j \in 1..Len(c) : AtOrBelow(n, c[j])
        BY <1>3, <3>1, BelowAChild DEF c
      <3> QED
        BY <1>9, <3>2
    <2>2. CASE m # 1
      <3>1. m - 1 \in 1..Len(d) /\ d[m - 1] = stack[m]
        BY <1>3, <2>2
      <3> QED
        BY <1>9, <3>1
    <2> QED
      BY <2>1, <2>2
  <1>18. OnlyOutermost' /\ CollectedOnce' /\ OnlyCutLeaves'
    BY <1>1, <1>2, <1>10 DEF OnlyOutermost, CollectedOnce, OnlyCutLeaves
  <1>19. NoneLost'
    <2>1. \A n \in Outermost : n \in Nodes /\ n # h
      BY <1>1 DEF Outermost
    <2> QED
      BY <1>1, <1>2, <1>10, <1>17, <2>1 DEF NoneLost, Collected
  <1>20. NoLeafLost'
    <2>1. \A n \in CutLeaves : n \in Nodes /\ n # h
      BY <1>1 DEF CutLeaves
    <2> QED
      BY <1>1, <1>2, <1>10, <1>17, <2>1 DEF NoLeafLost, InSplit, Covered
  <1>21. CutSoFar'
    BY <1>1 DEF CutSoFar
  <1> QED
    BY <1>14, <1>15, <1>16, <1>18, <1>19, <1>20, <1>21 DEF WalkInv

LEMMA WalkSplitStep == IInv /\ WalkInv /\ SplitStep => WalkInv'
  <1> SUFFICES ASSUME IInv, WalkInv, SplitStep PROVE WalkInv'
    OBVIOUS
  <1>1. SP!Next /\ tree' = tree /\ lang' = lang /\ stack' = stack
    BY SameStep DEF SplitStep
  <1>2. ls # "idle"
    BY <1>1 DEF SP!Next, SP!FlushAccumulated, SP!KeepAccumulated, SP!SplitByBytes,
          SP!NextLine, SP!Return
  <1>3. SP!Progress
    BY <1>2 DEF IInv, Splitting
  <1>4. /\ SP!Progress' /\ leaf' = leaf
        /\ \/ UNCHANGED <<atoms, chunkStart>>
           \/ \E end : SP!GoodCut(end) /\ SP!Flush(end)
    BY <1>1, <1>3, SP!ProgressStep, SizeAssumption
  <1>5. /\ StackReached /\ StackApart /\ CollectedApart /\ OnlyOutermost /\ CollectedOnce
        /\ NoneLost /\ OnlyCutLeaves /\ NoLeafLost /\ CutSoFar
    BY DEF WalkInv
  <1>6. /\ Nodes' = Nodes /\ Outermost' = Outermost /\ CutLeaves' = CutLeaves
        /\ \A n : Entered(n)' <=> Entered(n)
        /\ \A n, a : AtOrBelow(n, a)' <=> AtOrBelow(n, a)
        /\ \A n : Ahead(n)' <=> Ahead(n)
    BY <1>1, SameTree DEF Ahead
  <1>7. StackReached' /\ StackApart'
    BY <1>1, <1>5, <1>6 DEF StackReached, StackApart
  <1>8. atoms \in Seq(AtomRecord) /\ TypeOK
    BY DEF IInv, TypeOK
  <1>9. /\ leaf.startByte \in Nat /\ chunkStart \in Nat /\ SP!Size(leaf) \in Nat
        /\ chunkStart' \in Nat
    <2>1. leaf.startByte \in Nat /\ SP!Size(leaf) \in Nat /\ chunkStart \in 0..SP!Size(leaf)
      BY <1>3, SP!LineEnds, SizeAssumption DEF SP!Progress, SP!Leaf
    <2>2. chunkStart' \in 0..SP!Size(leaf')
      BY <1>4 DEF SP!Progress
    <2> QED
      BY <1>4, <2>1, <2>2
  <1>10. PICK q \in CutLeaves : InSplit(q)
    BY <1>2, <1>5 DEF CutSoFar
  <1>11. Covered(leaf.startByte, leaf.startByte + chunkStart)
    BY <1>2, <1>5 DEF CutSoFar
  \* The atoms that were there stay, and at most a line atom of the leaf is added.
  <1>12. /\ CollectedApart' /\ OnlyOutermost' /\ CollectedOnce' /\ OnlyCutLeaves'
         /\ \A n : Collected(n) => Collected(n)'
         /\ \A b, e : Covered(b, e) => Covered(b, e)'
         /\ Covered(leaf.startByte, leaf.startByte + chunkStart)'
    <2>1. CASE UNCHANGED <<atoms, chunkStart>>
      BY <1>1, <1>4, <1>5, <1>6, <1>11, <2>1
         DEF CollectedApart, OnlyOutermost, CollectedOnce, OnlyCutLeaves, Collected, Covered
    <2>2. CASE \E end : SP!GoodCut(end) /\ SP!Flush(end)
      <3>1. PICK end : SP!GoodCut(end) /\ SP!Flush(end)
        BY <2>2
      <3> DEFINE x == [startByte  |-> leaf.startByte + chunkStart,
                       endByte    |-> leaf.startByte + end,
                       startLine  |-> chunkStartRow + 1,
                       endLine    |-> leaf.startRow + SP!Newlines(chunkStart, end) + 1,
                       node       |-> 0,
                       parent     |-> 0,
                       isTopLevel |-> FALSE,
                       lang       |-> leaf.lang]
                 last == Len(atoms) + 1
      <3>2. end \in 1..SP!Size(leaf) /\ chunkStart < end
        BY <1>9, <3>1, SizeAssumption DEF SP!GoodCut
      <3>3. atoms' = Append(atoms, x) /\ chunkStart' = end
        BY <1>9, <3>1, <3>2 DEF SP!Flush
      <3>4. /\ x.node = 0 /\ x.startByte = leaf.startByte + chunkStart
            /\ x.endByte = leaf.startByte + end
        OBVIOUS
      <3> HIDE DEF x
      <3>5. /\ last \in 1..Len(atoms') /\ atoms'[last] = x
            /\ \A j \in 1..Len(atoms') : j = last \/ j \in 1..Len(atoms)
            /\ \A j \in 1..Len(atoms) : j # last /\ j \in 1..Len(atoms') /\ atoms'[j] = atoms[j]
            /\ \A n : Collected(n) => Collected(n)'
            /\ \A b, e : Covered(b, e) => Covered(b, e)'
        BY <1>8, <3>3, Appended
      <3> HIDE DEF last
      <3>6. CollectedApart'
        <4> SUFFICES ASSUME NEW a \in 1..Len(atoms'), NEW j \in 1..Len(stack),
                            atoms'[a].node # 0
                     PROVE  ~ AtOrBelow(atoms'[a].node, stack[j])
          BY <1>1 DEF CollectedApart, AtOrBelow
        <4>1. a \in 1..Len(atoms) /\ atoms'[a] = atoms[a]
          BY <3>4, <3>5
        <4> QED
          BY <1>5, <4>1 DEF CollectedApart
      <3>7. OnlyOutermost' /\ CollectedOnce'
        BY <1>5, <1>6, <3>4, <3>5 DEF OnlyOutermost, CollectedOnce
      <3>8. OnlyCutLeaves'
        <4>1. /\ tree.startByte[q] <= x.startByte
              /\ x.endByte <= tree.endByte[q]
          BY <1>9, <1>10, <3>2, <3>4 DEF InSplit
        <4>2. ASSUME NEW j \in 1..Len(atoms'), atoms'[j].node = 0
              PROVE  \E n \in CutLeaves : /\ tree.startByte[n] <= atoms'[j].startByte
                                          /\ atoms'[j].endByte <= tree.endByte[n]
          <5>1. CASE j = last
            BY <1>10, <3>5, <4>1, <5>1
          <5>2. CASE j \in 1..Len(atoms)
            BY <1>5, <3>5, <4>2, <5>2 DEF OnlyCutLeaves
          <5> QED
            BY <3>5, <5>1, <5>2
        <4> QED
          BY <1>1, <1>6, <4>2 DEF OnlyCutLeaves
      <3>9. Covered(leaf.startByte, leaf.startByte + chunkStart)'
        <4> SUFFICES ASSUME NEW y \in leaf.startByte..(leaf.startByte + end) - 1
                     PROVE  \E j \in 1..Len(atoms') :
                                /\ atoms'[j].node = 0
                                /\ atoms'[j].startByte <= y /\ y < atoms'[j].endByte
          BY <1>4, <3>3 DEF Covered
        <4>1. CASE y \in leaf.startByte..(leaf.startByte + chunkStart) - 1
          <5>1. PICK j \in 1..Len(atoms) :
                    atoms[j].node = 0 /\ atoms[j].startByte <= y /\ y < atoms[j].endByte
            BY <1>11, <4>1 DEF Covered
          <5> QED
            BY <3>5, <5>1
        <4>2. CASE y >= leaf.startByte + chunkStart
          <5>1. x.startByte <= y /\ y < x.endByte
            BY <1>9, <3>2, <3>4, <4>2
          <5> QED
            BY <3>4, <3>5, <5>1
        <4> QED
          BY <1>9, <3>2, <4>1, <4>2
      <3> QED
        BY <3>5, <3>6, <3>7, <3>8, <3>9
    <2> QED
      BY <1>4, <2>1, <2>2
  <1>13. NoneLost'
    BY <1>5, <1>6, <1>12 DEF NoneLost
  <1>14. CutSoFar'
    <2>1. ls' # "idle" => \A n : InSplit(n) => InSplit(n)'
      BY <1>1, <1>4 DEF InSplit, SP!Size
    <2> QED
      BY <1>6, <1>10, <1>12, <2>1 DEF CutSoFar
  <1>15. NoLeafLost'
    <2> SUFFICES ASSUME NEW n \in CutLeaves
                 PROVE  Ahead(n)' \/ InSplit(n)' \/ Covered(tree.startByte[n], tree.endByte[n])'
      BY <1>6 DEF NoLeafLost
    <2>1. CASE Ahead(n)
      BY <1>6, <2>1
    <2>2. CASE Covered(tree.startByte[n], tree.endByte[n])
      <3>1. \A b, e : b = tree.startByte[n] /\ e = tree.endByte[n] => Covered(b, e)'
        BY <1>12, <2>2
      <3> QED
        BY <1>1, <3>1 DEF Covered
    <2>3. CASE InSplit(n) /\ ls' # "idle"
      BY <1>1, <1>4, <2>3 DEF InSplit, SP!Size
    <2>4. CASE InSplit(n) /\ ls' = "idle"
      <3>1. chunkStart' = SP!Size(leaf')
        BY <1>4, <2>4 DEF SP!Progress, SP!AllFlushed
      <3>2. tree'.startByte[n] = leaf'.startByte /\ tree'.endByte[n] = leaf'.startByte + chunkStart'
        BY <1>1, <1>4, <2>4, <3>1 DEF InSplit, SP!Size
      <3> QED
        BY <1>12, <3>2 DEF Covered
    <2> QED
      BY <1>5, <2>1, <2>2, <2>3, <2>4 DEF NoLeafLost
  <1> QED
    BY <1>7, <1>12, <1>13, <1>14, <1>15 DEF WalkInv

LEMMA WalkStep == IInv /\ WalkInv /\ [Next]_vars => WalkInv'
  <1> SUFFICES ASSUME IInv, WalkInv, [Next]_vars PROVE WalkInv'
    OBVIOUS
  <1>1. TypeOK
    BY DEF IInv
  <1>2. CASE UNCHANGED vars
    <2>1. UNCHANGED <<tree, lang, stack, atoms, leaf, chunkStart, ls>>
      BY <1>2 DEF vars, split
    <2>2. /\ Outermost' = Outermost /\ CutLeaves' = CutLeaves
          /\ \A n : Entered(n)' <=> Entered(n)
          /\ \A n, a : AtOrBelow(n, a)' <=> AtOrBelow(n, a)
      BY <2>1, SameTree
    <2> QED
      BY <2>1, <2>2 DEF WalkInv, StackReached, StackApart, CollectedApart, OnlyOutermost,
         CollectedOnce, NoneLost, OnlyCutLeaves, NoLeafLost, CutSoFar, Collected, Covered,
         Ahead, InSplit, SP!Size
  <1> QED
    BY <1>1, <1>2, WalkSkipInvalid, WalkEmitBoundary, WalkSplitLeaf, WalkDescend, WalkSplitStep
       DEF Next

LEMMA WalkInvariance == Spec => []WalkInv
  BY WalkInitially, WalkStep, Invariance, PTL DEF Spec

\* The atoms that collectAtoms makes of nodes are the outermost boundaries that
\* fit in a chunk, all of them and each once, in a tree of any size and shape.
THEOREM CollectsExactly == Spec => []ExactlyOutermost
  <1>1. ASSUME WalkInv PROVE ExactlyOutermost
    <2>1. OnlyOutermost /\ CollectedOnce /\ NoneLost
      BY <1>1 DEF WalkInv
    <2>2. Done => \A n : ~ Ahead(n)
      BY DEF Done, Ahead
    <2> QED
      BY <2>1, <2>2 DEF ExactlyOutermost, OnlyOutermost, CollectedOnce, NoneLost, Collected
  <1> QED
    BY <1>1, WalkInvariance, PTL

\* No byte of an oversized leaf that the walk comes to is left out, and line
\* atoms lie in such leaves only.
THEOREM CutsEveryLeaf == Spec => []LeavesTiled
  <1>1. ASSUME WalkInv PROVE LeavesTiled
    <2>1. OnlyCutLeaves /\ NoLeafLost
      BY <1>1 DEF WalkInv
    <2>2. Done => \A n : ~ Ahead(n) /\ ~ InSplit(n)
      BY DEF Done, Ahead, InSplit
    <2> QED
      BY <2>1, <2>2 DEF LeavesTiled, OnlyCutLeaves, NoLeafLost, CutLeaves, Covered
  <1> QED
    BY <1>1, WalkInvariance, PTL

-----------------------------------------------------------------------------
(***************************************************************************)
(* Where the atoms lie: each in the range of a node that the walk reached. *)
(***************************************************************************)

\* No node on the way from the root to n ends before it starts.
Sound(n) == Valid(n) /\ \A a \in tree.above[n] : Valid(a)

\* A node lies in the range of each one above it.
LEMMA RangesNested ==
    ASSUME WellFormed(tree), NEW n \in Nodes, Sound(n), NEW a \in tree.above[n]
    PROVE  /\ tree.startByte[a] <= tree.startByte[n]
           /\ tree.endByte[n] <= tree.endByte[a]
  <1> DEFINE In(m) == tree.startByte[a] <= tree.startByte[m] /\ tree.endByte[m] <= tree.endByte[a]
             Bad == {m \in Nodes : Sound(m) /\ a \in tree.above[m] /\ ~ In(m)}
  <1> SUFFICES ASSUME Bad # {} PROVE FALSE
    OBVIOUS
  <1>1. Bad \subseteq Nat
    BY NodeNumbers
  <1>2. PICK m \in Bad : \A y \in Bad : m <= y
    BY <1>1, LeastNumber
  <1> DEFINE p == tree.parent[m]
  <1>3. m \in Nodes \ {1} /\ Sound(m) /\ a \in tree.above[m] /\ ~ In(m)
    BY <1>2, NodeNumbers
  <1>4. /\ p \in Nodes /\ p < m /\ m \in Nat /\ p \in Nat /\ a \in Nodes
        /\ tree.above[m] = {p} \cup tree.above[p]
    BY <1>3, NodeNumbers
  <1>5. Sound(p) /\ Valid(m)
    BY <1>3, <1>4 DEF Sound
  <1>6. tree.startByte[p] <= tree.startByte[m] /\ tree.endByte[m] <= tree.endByte[p]
    <2>1. PICK j \in 1..Len(tree.children[p]) : tree.children[p][j] = m
      BY <1>3 DEF WellFormed, Shape, Nodes
    <2> QED
      BY <1>4, <1>5, <2>1 DEF WellFormed, Extents, Nodes, Valid, Sound
  <1>7. p # a
    BY <1>3, <1>6
  <1>8. In(p)
    <2>1. p \notin Bad
      BY <1>2, <1>4
    <2> QED
      BY <1>3, <1>4, <1>5, <1>7, <2>1
  <1>9. \A x \in {a, p, m} : tree.startByte[x] \in Nat /\ tree.endByte[x] \in Nat
    BY <1>3, <1>4 DEF WellFormed, Extents, Nodes
  <1> QED
    BY <1>3, <1>6, <1>8, <1>9

\* Two nodes neither of which is above the other have no byte in common.
LEMMA RangesApart ==
    ASSUME WellFormed(tree), NEW n \in Nodes, NEW m \in Nodes, Sound(n), Sound(m),
           ~ AtOrBelow(n, m), ~ AtOrBelow(m, n)
    PROVE  tree.endByte[n] <= tree.startByte[m] \/ tree.endByte[m] <= tree.startByte[n]
  <1> DEFINE Apart(x, y) == \/ tree.endByte[x] <= tree.startByte[y]
                            \/ tree.endByte[y] <= tree.startByte[x]
             Strangers(x, y) == /\ Sound(x) /\ Sound(y)
                                /\ ~ AtOrBelow(x, y) /\ ~ AtOrBelow(y, x)
             Bad == {s \in Nat : \E x, y \in Nodes :
                        s = x + y /\ Strangers(x, y) /\ ~ Apart(x, y)}
  <1> SUFFICES ASSUME ~ Apart(n, m) PROVE FALSE
    OBVIOUS
  <1>1. n + m \in Bad
    BY NodeNumbers
  <1>2. Bad \subseteq Nat /\ Bad # {}
    BY <1>1
  <1>3. PICK s \in Bad : \A z \in Bad : s <= z
    <2> HIDE DEF Bad
    <2> QED
      BY <1>2, LeastNumber
  <1>4. PICK x \in Nodes : \E y \in Nodes :
            x < y /\ s = x + y /\ Strangers(x, y) /\ ~ Apart(x, y)
    <2>1. PICK x \in Nodes : \E y \in Nodes : s = x + y /\ Strangers(x, y) /\ ~ Apart(x, y)
      BY <1>3
    <2>2. PICK y \in Nodes : s = x + y /\ Strangers(x, y) /\ ~ Apart(x, y)
      BY <2>1
    <2>3. x \in Nat /\ y \in Nat /\ x # y
      BY <2>2, NodeNumbers DEF AtOrBelow
    <2>4. x < y \/ y < x
      BY <2>3
    <2>5. s = y + x /\ Strangers(y, x) /\ ~ Apart(y, x)
      BY <2>2, <2>3
    <2> QED
      BY <2>2, <2>4, <2>5
  <1>5. PICK y \in Nodes : x < y /\ s = x + y /\ Strangers(x, y) /\ ~ Apart(x, y)
    BY <1>4
  <1> HIDE DEF Bad
  <1> DEFINE p == tree.parent[y]
  <1>6. x \in Nat \ {0} /\ y \in Nodes \ {1} /\ y \in Nat
    BY <1>5, NodeNumbers
  <1>7. /\ p \in Nodes /\ p < y /\ p \in Nat
        /\ tree.above[y] = {p} \cup tree.above[p]
    BY <1>6, NodeNumbers
  <1>8. Sound(p) /\ Sound(x) /\ Sound(y)
    BY <1>5, <1>7 DEF Sound
  <1>9. x # p /\ x \notin tree.above[p]
    BY <1>5, <1>7 DEF AtOrBelow
  <1>10. /\ tree.startByte[p] <= tree.startByte[y]
         /\ tree.endByte[y] <= tree.endByte[p]
    BY <1>7, <1>8, RangesNested
  <1>11. \A z \in Nodes : tree.startByte[z] \in Nat /\ tree.endByte[z] \in Nat
    BY DEF WellFormed, Extents, Nodes
  <1>12. CASE p \in tree.above[x]
    <2>1. PICK j \in 1..Len(tree.children[p]) : AtOrBelow(x, tree.children[p][j])
      BY <1>7, <1>12, BelowAChild
    <2> DEFINE d == tree.children[p][j]
    <2>2. PICK q \in 1..Len(tree.children[p]) : tree.children[p][q] = y
      BY <1>6 DEF WellFormed, Shape, Nodes
    <2>3. d # y
      BY <1>5, <2>1
    <2>4. d \in Nodes /\ (d = x \/ d \in tree.above[x])
      BY <1>7, <2>1, ChildFacts DEF AtOrBelow
    <2>5. Valid(d) /\ Valid(y)
      BY <1>8, <2>4 DEF Sound
    <2>6. Apart(d, y)
      <3>1. j # q /\ j \in Int /\ q \in Int
        BY <2>2, <2>3
      <3>2. j < q \/ q < j
        BY <3>1
      <3> QED
        BY <1>7, <2>2, <2>5, <3>2 DEF WellFormed, Extents, Nodes, Valid
    <2>7. /\ tree.startByte[d] <= tree.startByte[x]
          /\ tree.endByte[x] <= tree.endByte[d]
      <3>1. CASE d = x
        BY <1>11, <3>1
      <3>2. CASE d \in tree.above[x]
        BY <1>8, <3>2, RangesNested
      <3> QED
        BY <2>4, <3>1, <3>2
    <2>8. \A z \in {x, y, d} : tree.startByte[z] \in Nat /\ tree.endByte[z] \in Nat
      BY <1>6, <1>11, <2>4
    <2>9. Apart(x, y)
      <3> HIDE DEF d
      <3> QED
        BY <2>6, <2>7, <2>8
    <2> QED
      BY <1>5, <2>9
  <1>13. CASE p \notin tree.above[x]
    <2>1. Strangers(x, p)
      BY <1>8, <1>9, <1>13 DEF AtOrBelow
    <2>2. x + p \in Nat /\ x + p < s
      BY <1>5, <1>6, <1>7
    <2>3. x + p \notin Bad
      BY <1>3, <1>5, <1>6, <2>2
    <2>4. Apart(x, p)
      BY <1>7, <2>1, <2>2, <2>3 DEF Bad
    <2> QED
      BY <1>5, <1>7, <1>10, <1>11, <2>4
  <1> QED
    BY <1>12, <1>13

\* Atom x is that of boundary n, or a piece of leaf n.
MadeOf(n, x) ==
    /\ Reached(n)
    /\ tree.startByte[n] <= x.startByte /\ x.endByte <= tree.endByte[n]
    /\ \/ /\ FittingBoundary(n) /\ x.node = n
          /\ x.startByte = tree.startByte[n] /\ x.endByte = tree.endByte[n]
       \/ tree.children[n] = << >> /\ x.node = 0 /\ x.startByte < x.endByte

FromNodes ==
    /\ \A j \in 1..Len(atoms) : atoms[j].lang = lang /\ \E n \in Nodes : MadeOf(n, atoms[j])
    /\ ls # "idle" => leaf.lang = lang

\* What a walk is from its first step on.
WalkFacts == IInv /\ WalkInv /\ FromNodes

\* A walk that is about to begin.
Fresh ==
    /\ WellFormed(tree) /\ lang \in Languages
    /\ stack = << 1 >> /\ atoms = << >> /\ ls = "idle"

LEMMA FreshWalk == Fresh => WalkFacts
  <1> SUFFICES ASSUME Fresh PROVE WalkFacts
    OBVIOUS
  <1> QED
    BY FreshTyped, FreshAhead DEF WalkFacts, FromNodes, Fresh

LEMMA MadeOnce ==
    ASSUME tree' = tree, lang' = lang
    PROVE  \A n, x : MadeOf(n, x)' <=> MadeOf(n, x)
  BY DEF MadeOf, Reached, Valid, FittingBoundary, InTopLevel, InNested, Span

LEMMA FromNodesStep == IInv /\ WalkInv /\ FromNodes /\ [Next]_vars => FromNodes'
  <1> SUFFICES ASSUME IInv, WalkInv, FromNodes, [Next]_vars PROVE FromNodes'
    OBVIOUS
  <1>1. TypeOK /\ atoms \in Seq(AtomRecord)
    BY DEF IInv, TypeOK
  <1>2. tree' = tree /\ lang' = lang
    BY DEF Next, vars, SkipInvalid, EmitBoundary, SplitLeaf, Descend, SplitStep
  <1>3. Nodes' = Nodes /\ \A n, x : MadeOf(n, x)' <=> MadeOf(n, x)
    BY <1>2, MadeOnce DEF Nodes
  \* It is enough that what is appended, if anything is, comes from a node.
  <1>4. ASSUME NEW x, atoms' = Append(atoms, x), x.lang = lang,
               \E n \in Nodes : MadeOf(n, x), ls' # "idle" => leaf'.lang = lang
        PROVE  FromNodes'
    <2>1. /\ atoms'[Len(atoms) + 1] = x
          /\ \A j \in 1..Len(atoms') : j = Len(atoms) + 1 \/ j \in 1..Len(atoms)
          /\ \A j \in 1..Len(atoms) : atoms'[j] = atoms[j]
      BY <1>1, <1>4, Appended
    <2> QED
      BY <1>2, <1>3, <1>4, <2>1 DEF FromNodes
  <1>5. ASSUME atoms' = atoms, ls' # "idle" => leaf'.lang = lang
        PROVE  FromNodes'
    BY <1>2, <1>3, <1>5 DEF FromNodes
  <1>6. CASE SkipInvalid \/ Descend \/ UNCHANGED vars
    <2>1. atoms' = atoms /\ ls' = ls /\ leaf' = leaf
      BY <1>6 DEF SkipInvalid, Descend, vars, split
    <2> QED
      BY <1>5, <2>1 DEF FromNodes
  <1>7. CASE EmitBoundary
    <2> DEFINE h == Head(stack)
               x == BoundaryAtom(h)
    <2>1. /\ stack # << >> /\ ls' = "idle" /\ atoms' = Append(atoms, x)
          /\ Valid(h) /\ FittingBoundary(h)
      BY <1>7 DEF EmitBoundary, Visiting, split
    <2>2. h \in Nodes /\ 1 \in 1..Len(stack) /\ h = stack[1]
      BY <1>1, <2>1 DEF TypeOK
    <2>3. Reached(h)
      BY <2>1, <2>2 DEF WalkInv, StackReached, Reached, Entered
    <2>4. tree.startByte[h] \in Nat /\ tree.endByte[h] \in Nat
      BY <1>1, <2>2, NodeFields
    <2>5. MadeOf(h, x) /\ x.lang = lang
      BY <2>1, <2>3, <2>4 DEF MadeOf, BoundaryAtom
    <2> HIDE DEF x, h
    <2> QED
      BY <1>4, <2>1, <2>2, <2>5
  <1>8. CASE SplitLeaf
    BY <1>5, <1>8 DEF SplitLeaf, Split!Call, LeafOf
  <1>9. CASE SplitStep
    <2>1. SP!Next
      BY <1>9, SameStep DEF SplitStep
    <2>2. ls # "idle"
      BY <2>1 DEF SP!Next, SP!FlushAccumulated, SP!KeepAccumulated, SP!SplitByBytes,
            SP!NextLine, SP!Return
    <2>3. SP!Progress
      BY <2>2 DEF IInv, Splitting
    <2>4. /\ leaf' = leaf
          /\ \/ UNCHANGED <<atoms, chunkStart>>
             \/ \E end : SP!GoodCut(end) /\ SP!Flush(end)
      BY <2>1, <2>3, SP!ProgressStep, SizeAssumption
    <2>5. leaf'.lang = lang
      BY <2>2, <2>4 DEF FromNodes
    <2>6. CASE \E end : SP!GoodCut(end) /\ SP!Flush(end)
      <3>1. PICK end : SP!GoodCut(end) /\ SP!Flush(end)
        BY <2>6
      <3> DEFINE x == [startByte  |-> leaf.startByte + chunkStart,
                       endByte    |-> leaf.startByte + end,
                       startLine  |-> chunkStartRow + 1,
                       endLine    |-> leaf.startRow + SP!Newlines(chunkStart, end) + 1,
                       node       |-> 0,
                       parent     |-> 0,
                       isTopLevel |-> FALSE,
                       lang       |-> leaf.lang]
      <3>2. /\ leaf.startByte \in Nat /\ SP!Size(leaf) \in Nat /\ chunkStart \in Nat
        BY <2>3, SP!LineEnds, SizeAssumption DEF SP!Progress, SP!Leaf
      <3>3. end \in 1..SP!Size(leaf) /\ chunkStart < end
        BY <3>1, <3>2, SizeAssumption DEF SP!GoodCut
      <3>4. atoms' = Append(atoms, x)
        BY <3>1, <3>2, <3>3 DEF SP!Flush
      <3>5. PICK q \in CutLeaves : InSplit(q)
        BY <2>2 DEF WalkInv, CutSoFar
      <3>6. MadeOf(q, x)
        <4>1. Reached(q) /\ tree.children[q] = << >>
          BY DEF CutLeaves, OversizedLeaf
        <4>2. tree.startByte[q] <= x.startByte /\ x.endByte <= tree.endByte[q]
              /\ x.startByte < x.endByte /\ x.node = 0
          BY <3>5, <3>2, <3>3 DEF InSplit
        <4> QED
          BY <4>1, <4>2 DEF MadeOf
      <3>7. x.lang = lang /\ q \in Nodes
        BY <2>4, <2>5 DEF CutLeaves
      <3> HIDE DEF x
      <3> QED
        BY <1>4, <2>5, <3>4, <3>6, <3>7
    <2> QED
      BY <1>5, <2>4, <2>5, <2>6
  <1> QED
    BY <1>6, <1>7, <1>8, <1>9 DEF Next

LEMMA WalkFactsStep == WalkFacts /\ [Next]_vars => WalkFacts'
  BY Inductive, WalkStep, FromNodesStep DEF WalkFacts

-----------------------------------------------------------------------------
(***************************************************************************)
(* What a caller of collectAtoms may rely on.                              *)
(***************************************************************************)

\* Atoms carry the language of the walk and lie in the range of the root.
LEMMA AtomsWithinRoot ==
    ASSUME WalkFacts, NEW j \in 1..Len(atoms)
    PROVE  /\ atoms[j].lang = lang
           /\ Valid(1)
           /\ tree.startByte[1] <= atoms[j].startByte /\ atoms[j].endByte <= tree.endByte[1]
  <1>1. WellFormed(tree) /\ atoms \in Seq(AtomRecord)
    BY DEF WalkFacts, IInv, TypeOK
  <1>2. PICK n \in Nodes : MadeOf(n, atoms[j])
    BY DEF WalkFacts, FromNodes
  <1>3. AtOrBelow(n, 1) /\ Sound(n) /\ Valid(1)
    BY <1>1, <1>2, RootAboveAll DEF MadeOf, Reached, Sound, AtOrBelow
  <1>4. \A x \in {1, n} : tree.startByte[x] \in Nat /\ tree.endByte[x] \in Nat
    BY <1>1, NodeNumbers DEF WellFormed, Extents, Nodes
  <1>5. /\ tree.startByte[1] <= tree.startByte[n]
        /\ tree.endByte[n] <= tree.endByte[1]
    <2>1. CASE n = 1
      BY <1>4, <2>1
    <2>2. CASE 1 \in tree.above[n]
      BY <1>1, <1>3, <2>2, RangesNested
    <2> QED
      BY <1>3, <2>1, <2>2 DEF AtOrBelow
  <1>6. atoms[j].startByte \in Nat /\ atoms[j].endByte \in Nat
    <2>1. atoms[j] \in AtomRecord
      BY <1>1
    <2> QED
      BY <2>1 DEF AtomRecord
  <1>7. /\ tree.startByte[n] <= atoms[j].startByte /\ atoms[j].endByte <= tree.endByte[n]
    BY <1>2 DEF MadeOf
  <1> QED
    BY <1>3, <1>5, <1>6, <1>7, <1>4 DEF WalkFacts, FromNodes

\* If no boundary is empty, no atom is.
LEMMA AtomsHaveText ==
    ASSUME WalkFacts, NEW j \in 1..Len(atoms),
           \A n \in Nodes : InTopLevel(n) \/ InNested(n) => tree.startByte[n] # tree.endByte[n]
    PROVE  atoms[j].startByte < atoms[j].endByte
  <1>1. PICK n \in Nodes : MadeOf(n, atoms[j])
    BY DEF WalkFacts, FromNodes
  <1>2. tree.startByte[n] \in Nat /\ tree.endByte[n] \in Nat
    BY NodeFields DEF WalkFacts, IInv
  <1> QED
    BY <1>1, <1>2 DEF MadeOf, Reached, Valid, ValidNode, FittingBoundary

\* An atom lies in the range of a node, around it or beside it: in it if it is
\* made of the node or of one below, around it if of one above.
LEMMA AtomsAboutNodes ==
    ASSUME WalkFacts, NEW j \in 1..Len(atoms), NEW c \in Nodes, Sound(c)
    PROVE  \/ tree.startByte[c] <= atoms[j].startByte /\ atoms[j].endByte <= tree.endByte[c]
           \/ atoms[j].startByte <= tree.startByte[c] /\ tree.endByte[c] <= atoms[j].endByte
           \/ atoms[j].endByte <= tree.startByte[c]
           \/ tree.endByte[c] <= atoms[j].startByte
  <1> DEFINE x == atoms[j]
  <1>1. WellFormed(tree) /\ x \in AtomRecord
    BY DEF WalkFacts, IInv, TypeOK
  <1>2. PICK n \in Nodes : MadeOf(n, x)
    BY DEF WalkFacts, FromNodes
  <1>3. Sound(n)
    BY <1>2 DEF MadeOf, Reached, Sound
  <1>4. /\ tree.startByte[n] \in Nat /\ tree.endByte[n] \in Nat
        /\ tree.startByte[c] \in Nat /\ tree.endByte[c] \in Nat
        /\ x.startByte \in Nat /\ x.endByte \in Nat
    BY <1>1, NodeFields DEF AtomRecord, WalkFacts, IInv
  <1>5. tree.startByte[n] <= x.startByte /\ x.endByte <= tree.endByte[n]
    BY <1>2 DEF MadeOf
  <1> HIDE DEF x
  <1>6. CASE n = c
    BY <1>5, <1>6 DEF x
  <1>7. CASE c \in tree.above[n]
    <2>1. tree.startByte[c] <= tree.startByte[n] /\ tree.endByte[n] <= tree.endByte[c]
      BY <1>1, <1>3, <1>7, RangesNested
    <2> QED
      BY <1>4, <1>5, <2>1 DEF x
  <1>8. CASE n \in tree.above[c]
    <2>1. tree.startByte[n] <= tree.startByte[c] /\ tree.endByte[c] <= tree.endByte[n]
      BY <1>1, <1>8, RangesNested
    <2>2. tree.children[n] # << >>
      <3>1. PICK m \in 1..Len(tree.children[n]) : AtOrBelow(c, tree.children[n][m])
        BY <1>1, <1>8, BelowAChild
      <3> QED
        BY <3>1
    <2>3. x.startByte = tree.startByte[n] /\ x.endByte = tree.endByte[n]
      BY <1>2, <2>2 DEF MadeOf
    <2> QED
      BY <2>1, <2>3 DEF x
  <1>9. CASE ~ AtOrBelow(n, c) /\ ~ AtOrBelow(c, n)
    <2>1. tree.endByte[n] <= tree.startByte[c] \/ tree.endByte[c] <= tree.startByte[n]
      BY <1>1, <1>3, <1>9, RangesApart
    <2> QED
      BY <1>4, <1>5, <2>1 DEF x
  <1> QED
    BY <1>6, <1>7, <1>8, <1>9 DEF AtOrBelow

\* When the walk is over, each outermost boundary has its atom.
LEMMA BoundaryHasAtom ==
    ASSUME WalkFacts, Done, NEW n \in Outermost
    PROVE  \E j \in 1..Len(atoms) : /\ atoms[j].startByte = tree.startByte[n]
                                    /\ atoms[j].endByte = tree.endByte[n]
                                    /\ atoms[j].lang = lang
  <1>1. WellFormed(tree) /\ n \in Nodes
    BY DEF WalkFacts, IInv, TypeOK, Outermost
  <1>2. n # 0
    BY <1>1, NodeNumbers
  <1>3. PICK j \in 1..Len(atoms) : atoms[j].node = n
    BY DEF WalkFacts, WalkInv, NoneLost, Collected, Ahead, Done
  <1> QED
    BY <1>2, <1>3 DEF WalkFacts, FromNodes, MadeOf
=============================================================================
