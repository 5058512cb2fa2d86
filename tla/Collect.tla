------------------------------- MODULE Collect -------------------------------
(***************************************************************************)
(* collectAtoms of chunker.go: the depth-first walk that decides which     *)
(* nodes of a syntax tree become atoms.  The recursion is a stack of nodes *)
(* that are still to be visited, the next one first.                       *)
(*                                                                         *)
(* The trees are those of SyntaxTree.                                      *)
(***************************************************************************)
EXTENDS Atoms, SyntaxTree, FiniteSets

CONSTANTS
    Languages,   \* the names of the languages
    TopLevel,    \* kindMap[lang].topLevel and kindMap[lang].nested,
    Nested,      \*    for each language lang
    Trees        \* the trees that tree-sitter can return

ASSUME CollectAssumption ==
    /\ Languages \subseteq STRING
    /\ \A t \in Trees : WellFormed(t)

VARIABLES
    tree,    \* the tree walked
    lang,    \* langCfg.Name
    stack,   \* the nodes to visit
    atoms,   \* the atoms collected so far
    leaf, k, lineOffset, chunkStart, chunkStartRow, ls   \* lineSplitAtom's

split == <<leaf, k, lineOffset, chunkStart, chunkStartRow, ls>>
vars  == <<tree, lang, stack, atoms, split>>

\* A call of lineSplitAtom appends to the same atoms.
Split == INSTANCE LineSplit WITH Leaves <- {}

-----------------------------------------------------------------------------
Nodes    == NodesOf(tree)
Valid(n) == ValidNode(tree, n)
Span(n)  == tree.endByte[n] - tree.startByte[n]

InTopLevel(n) == tree.kind[n] \in TopLevel[lang]
InNested(n)   == tree.kind[n] \in Nested[lang]

\* Mutant: boundaries of any size.
AnyBoundary(n) == InTopLevel(n) \/ InNested(n)

\* A semantic boundary that fits in a chunk: the walk stops there.
FittingBoundary(n) ==
    (InTopLevel(n) \/ InNested(n)) /\ Span(n) <= MaxChunkSize

OversizedLeaf(n) == Span(n) > MaxChunkSize /\ tree.children[n] = << >>

hasTopLevelAncestor(n) == \E a \in tree.above[n] : InTopLevel(a)

\* The nearest ancestor of a top-level kind, where the walk of extractParentName
\* ends: a set of one node or none.
NearestTopLevel(n) ==
    {a \in tree.above[n] :
        InTopLevel(a) /\ \A b \in tree.above[n] : InTopLevel(b) => b <= a}

\* The ancestor whose name is the parent symbol; a nameless one gives none.
extractParentName(n) ==
    IF \E a \in NearestTopLevel(n) : tree.named[a]
    THEN CHOOSE a \in NearestTopLevel(n) : tree.named[a]
    ELSE 0

BoundaryAtom(n) ==
    [startByte  |-> tree.startByte[n],
     endByte    |-> tree.endByte[n],
     startLine  |-> tree.startRow[n] + 1,
     endLine    |-> tree.endRow[n] + 1,
     node       |-> n,
     parent     |-> IF InNested(n) THEN extractParentName(n) ELSE 0,
     isTopLevel |-> InTopLevel(n) /\ (InNested(n) => ~ hasTopLevelAncestor(n)),
     lang       |-> lang]

LeafOf(n) ==
    [startByte |-> tree.startByte[n], startRow |-> tree.startRow[n],
     lineEnds  |-> tree.lineEnds[n],  lang     |-> lang]

-----------------------------------------------------------------------------
\* collectAtoms(root, ...).
Start(t, l) ==
    /\ tree' = t
    /\ lang' = l
    /\ stack' = << 1 >>

Visiting == stack # << >> /\ ls = "idle"

\* A node that ends before it starts is not looked into.
SkipInvalid ==
    /\ Visiting
    /\ ~ Valid(Head(stack))
    /\ stack' = Tail(stack)
    /\ UNCHANGED <<tree, lang, atoms, split>>

\* Mutant: no return after the atom is appended, the children are visited too.
EmitAndDescend ==
    LET n == Head(stack)
    IN  /\ Visiting /\ Valid(n) /\ FittingBoundary(n)
        /\ atoms' = Append(atoms, BoundaryAtom(n))
        /\ stack' = tree.children[n] \o Tail(stack)
        /\ UNCHANGED <<tree, lang, split>>

EmitBoundary ==
    LET n == Head(stack)
    IN  /\ Visiting
        /\ Valid(n)
        /\ FittingBoundary(n)
        /\ atoms' = Append(atoms, BoundaryAtom(n))
        /\ stack' = Tail(stack)
        /\ UNCHANGED <<tree, lang, split>>

\* Mutant: an oversized leaf has no children to visit and is passed over.
PassOverLeaf ==
    /\ Visiting /\ Valid(Head(stack)) /\ OversizedLeaf(Head(stack))
    /\ stack' = Tail(stack)
    /\ UNCHANGED <<tree, lang, atoms, split>>

SplitLeaf ==
    LET n == Head(stack)
    IN  /\ Visiting
        /\ Valid(n)
        /\ OversizedLeaf(n)
        /\ Split!Call(LeafOf(n))
        /\ stack' = Tail(stack)
        /\ UNCHANGED <<tree, lang>>

\* Mutant: breadth first.
DescendLater ==
    LET n == Head(stack)
    IN  /\ Visiting /\ Valid(n)
        /\ ~ FittingBoundary(n) /\ ~ OversizedLeaf(n)
        /\ stack' = Tail(stack) \o tree.children[n]
        /\ UNCHANGED <<tree, lang, atoms, split>>

\* Too large, or no boundary: the named children are visited in its place.
Descend ==
    LET n == Head(stack)
    IN  /\ Visiting
        /\ Valid(n)
        /\ ~ FittingBoundary(n) /\ ~ OversizedLeaf(n)
        /\ stack' = tree.children[n] \o Tail(stack)
        /\ UNCHANGED <<tree, lang, atoms, split>>

\* The walk waits while lineSplitAtom runs.
SplitStep ==
    /\ Split!Next
    /\ UNCHANGED <<tree, lang, stack>>

Next == SkipInvalid \/ EmitBoundary \/ SplitLeaf \/ Descend \/ SplitStep

-----------------------------------------------------------------------------
\* The walk on its own.
Init ==
    /\ tree \in Trees
    /\ lang \in Languages
    /\ stack = << 1 >>
    /\ atoms = << >>
    /\ leaf = [startByte |-> 0, startRow |-> 0, lineEnds |-> << 0 >>, lang |-> lang]
    /\ k = 1 /\ lineOffset = 0 /\ chunkStart = 0 /\ chunkStartRow = 0
    /\ ls = "idle"

\* The recursion runs in one goroutine: it keeps running.
Spec == Init /\ [][Next]_vars /\ WF_vars(Next)

Done == stack = << >> /\ ls = "idle"

-----------------------------------------------------------------------------
AtomRecord ==
    [startByte : Nat, endByte : Nat, startLine : Nat \ {0}, endLine : Nat \ {0},
     node : Nat, parent : Nat, isTopLevel : BOOLEAN, lang : Languages]

\* Every variable has the type collectAtoms gives it.
TypeOK ==
    /\ WellFormed(tree)
    /\ lang \in Languages
    /\ stack \in Seq(Nodes)
    /\ atoms \in Seq(AtomRecord)
    /\ ls \in {"line", "bytes", "idle"}

\* What the injections and mergeAtoms rely on: collectAtoms appends atoms in
\* document order, no byte is in two of them, and none is oversized.
SortedAtoms   == InDocumentOrder(atoms)
AtomsFitChunk == NoneOversized(atoms)

\* The definition of the walk's result without the walk: a node counts if
\* nothing above it is already an atom, or cut off.
Reached(n) == Valid(n) /\ \A a \in tree.above[n] : Valid(a) /\ ~ FittingBoundary(a)

Outermost == {n \in Nodes : Reached(n) /\ FittingBoundary(n)}

\* collectAtoms emits exactly the outermost semantic boundaries that fit in a
\* chunk, each once: none is lost below an oversized or a transparent node, none
\* is repeated inside another.
ExactlyOutermost ==
    /\ \A j \in 1..Len(atoms) : atoms[j].node \in Outermost \cup {0}
    /\ \A j, m \in 1..Len(atoms) : j # m /\ atoms[j].node # 0 => atoms[j].node # atoms[m].node
    /\ Done => \A n \in Outermost : \E j \in 1..Len(atoms) : atoms[j].node = n

\* An oversized leaf that the walk reaches is cut into line atoms that leave out
\* none of its bytes, and line atoms come from nowhere else.
LeavesTiled ==
    LET leaves == {n \in Nodes : Reached(n) /\ OversizedLeaf(n)}
        line   == {j \in 1..Len(atoms) : atoms[j].node = 0}
    IN  /\ \A j \in line : \E n \in leaves :
              /\ tree.startByte[n] <= atoms[j].startByte
              /\ atoms[j].endByte <= tree.endByte[n]
        /\ Done => \A n \in leaves : \A b \in tree.startByte[n]..tree.endByte[n] - 1 :
              \E j \in line : atoms[j].startByte <= b /\ b < atoms[j].endByte
=============================================================================
