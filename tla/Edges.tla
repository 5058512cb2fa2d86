-------------------------------- MODULE Edges --------------------------------
(***************************************************************************)
(* collectEdges of edges.go: a walk over a syntax tree that, at each node, *)
(* applies the edge rules of the language for the kind of the node, and    *)
(* goes on into its children whether a rule matched or not.  The recursion *)
(* is a stack of nodes that are still to be visited, the next one first.   *)
(*                                                                         *)
(* A tree has, besides what SyntaxTree says of it, of each node n:         *)
(*    tree.text[n]     strings.TrimSpace(Utf8Text(src)), and               *)
(*    tree.fields[n]   the nodes that ChildByFieldName finds: a function   *)
(*                     from names of fields.                               *)
(* Texts are trimmed throughout; module paths come without their quotes    *)
(* (cleanModulePath).                                                      *)
(***************************************************************************)
EXTENDS SyntaxTree, SequencesExt

CONSTANT Cases   \* the calls: records of a tree and of the language's tables

VARIABLES
    tree,    \* the tree walked
    es,      \* edgeSets, kindSets and NameField of the language, in one record
    stack,   \* the nodes to visit
    todo,    \* the rules that are still to be applied to the first of them
    edges,   \* the edges collected; owner and target node are not in the program
    ep       \* "node", "rules" or "returned"

vars == <<tree, es, stack, todo, edges, ep>>

Nodes == NodesOf(tree)
node  == Head(stack)
rule  == Head(todo)

\* The rules of the language: the kind of edge that is made of what is found at a
\* node of kind, in the fields target and qualifier of it.
Rule ==
    [kind : STRING, edge : {"call", "import", "inherit", "reference"},
     target : STRING, qualifier : STRING, descend : BOOLEAN]

\* The trees that collectEdges is called with.  Their nodes are numbered in
\* document order: all that a child contains comes before the next child.  None
\* starts in a row above that of the node it is in, and a field of a node is in
\* it.
Walkable(t) ==
    LET N == NodesOf(t)
        In(n, m) == n = m \/ m \in t.above[n]
    IN  /\ Shape(t)
        /\ \A n \in N : t.startRow[n] \in Nat
        /\ \A n \in N : \A m \in t.above[n] : t.startRow[m] <= t.startRow[n]
        /\ \A n \in N : \A f \in DOMAIN t.fields[n] :
              t.fields[n][f] \in N /\ n \in t.above[t.fields[n][f]]
        /\ \A n \in N : \A j, m \in 1..Len(t.children[n]) :
              j < m => \A x \in N : In(x, t.children[n][j]) => x < t.children[n][m]

-----------------------------------------------------------------------------
\* ChildByFieldName, as a set of one node or none.
Field(n, f) == IF f \in DOMAIN tree.fields[n] THEN {tree.fields[n][f]} ELSE {}

TextOf(S) == IF S = {} THEN "" ELSE tree.text[CHOOSE n \in S : TRUE]

NameOf(n) == IF es.nameField = "" THEN "" ELSE TextOf(Field(n, es.nameField))

\* The loop over p := n, p.Parent(), ... that passes over the nodes outside S: the
\* one it stops at, 0 for nil.
FirstUp(n, S) ==
    LET up[p \in 0..Len(tree.kind)] ==
            IF p = 0 \/ p \in S THEN p ELSE up[tree.parent[p]]
    IN  up[n]

TopLevels == {p \in Nodes : tree.kind[p] \in es.topLevel}

\* Mutant: the walk starts at the node itself.
ParentFromItself(n) ==
    LET p == FirstUp(n, TopLevels) IN IF p = 0 THEN "" ELSE NameOf(p)

\* The nearest top-level definition above n decides, even if it has no name.
extractParentName(n) ==
    LET p == FirstUp(tree.parent[n], TopLevels) IN IF p = 0 THEN "" ELSE NameOf(p)

\* The definitions with a name; enclosingDefinition passes over the others.
Definitions ==
    {p \in Nodes : tree.kind[p] \in es.topLevel \cup es.nested /\ NameOf(p) # ""}

enclosingDefinition(n) ==
    LET d == FirstUp(n, Definitions)
    IN  IF d = 0 THEN [source |-> "", sourceParent |-> "", sourceLine |-> 0]
        ELSE [source       |-> NameOf(d),
              sourceParent |-> IF tree.kind[d] \in es.nested THEN extractParentName(d) ELSE "",
              sourceLine   |-> tree.startRow[d] + 1]

\* The nodes of the kinds at n or below, in document order, without the subtree
\* of exclude and without going into a match.
Matches(kinds, exclude) ==
    LET found[n \in Nodes] ==
            IF n = exclude THEN << >>
            ELSE IF tree.kind[n] \in kinds THEN << n >>
            ELSE FlattenSeq([m \in 1..Len(tree.children[n]) |-> found[tree.children[n][m]]])
    IN  found

collectNamedKinds(n) ==
    LET c == tree.children[n]
    IN  FlattenSeq([m \in 1..Len(c) |-> Matches(es.nameKinds, 0)[c[m]]])

\* firstDescendantOfKinds
firstModule(n, exclude) ==
    LET m == Matches(es.moduleKinds, exclude)[n] IN IF m = << >> THEN {} ELSE {m[1]}

\* The first sibling of the module of an alias kind.
Alias(module) ==
    LET c == IF module = 1 THEN << >> ELSE tree.children[tree.parent[module]]
        a == SelectSeq(c, LAMBDA n : tree.kind[n] \in es.aliasKinds /\ n # module)
    IN  IF a = << >> THEN "" ELSE tree.text[a[1]]

MakeEdge(kind, owner, at, target, qualifier, line) ==
    LET d == enclosingDefinition(owner)
    IN  [kind |-> kind, source |-> d.source, sourceParent |-> d.sourceParent,
         sourceLine |-> d.sourceLine, target |-> target, qualifier |-> qualifier,
         line |-> line, owner |-> owner, at |-> at]

\* buildImportEdgeExcluding: the edges it makes, one or none.
buildImportEdge(n, exclude) ==
    LET module == firstModule(n, exclude)
        m      == CHOOSE p \in module : TRUE
    IN  IF TextOf(module) = "" THEN << >>
        ELSE << MakeEdge("import", n, m, tree.text[m], Alias(m), tree.startRow[n] + 1) >>

\* appendEdge: no edge without a name, nor a reference to what has the name of
\* the definition that it is in.
appendEdge(owner, at, kind, qualifier, name) ==
    LET own == kind = "reference" /\ qualifier = "" /\ name = enclosingDefinition(owner).source
    IN  IF name = "" \/ own THEN << >>
        ELSE << MakeEdge(kind, owner, at, name, qualifier, tree.startRow[at] + 1) >>

\* One edge for each name below the node of root, if there is one.
NamedBelow(owner, root, kind) ==
    LET names == IF root = {} THEN << >> ELSE collectNamedKinds(CHOOSE n \in root : TRUE)
    IN  FlattenSeq([m \in 1..Len(names) |->
            appendEdge(owner, names[m], kind, "", tree.text[names[m]])])

-----------------------------------------------------------------------------
\* targetNode and decomposeTarget.
Target == IF rule.target = "" THEN {node} ELSE Field(node, rule.target)

target == CHOOSE n \in Target : TRUE

IsQualified == tree.kind[target] \in DOMAIN es.qualified

TargetName ==
    IF IsQualified THEN TextOf(Field(target, es.qualified[tree.kind[target]].name))
    ELSE tree.text[target]

TargetQualifier ==
    LET q == IF rule.qualifier = "" THEN {} ELSE Field(node, rule.qualifier)
    IN  IF q # {} THEN TextOf(q)
        ELSE IF IsQualified THEN TextOf(Field(target, es.qualified[tree.kind[target]].qualifier))
        ELSE ""

\* The rules for a kind of node, in the order of the language's list.
RulesFor(kind) ==
    FlattenSeq([r \in 1..Len(es.rules) |->
        IF es.rules[r].kind = kind THEN << es.rules[r] >> ELSE << >>])

Applying == ep = "rules" /\ todo # << >>

\* The rule at hand is applied and adds the edges of s.
Emit(s) ==
    /\ edges' = edges \o s
    /\ todo' = Tail(todo)
    /\ UNCHANGED <<tree, es, stack, ep>>

\* A rule for a single target; its name, when there is one.
Single == rule.edge # "import" /\ ~ rule.descend

Named == Target # {} /\ TargetName # ""

\* A call that the language spells like a function call but means otherwise.
Override ==
    rule.edge = "call" /\ TargetQualifier = "" /\ TargetName \in DOMAIN es.callNames

-----------------------------------------------------------------------------
\* A language without rules has no edges.
Disabled ==
    /\ ep = "node"
    /\ es.rules = << >>
    /\ stack' = << >>
    /\ ep' = "returned"
    /\ UNCHANGED <<tree, es, todo, edges>>

Visit ==
    /\ ep = "node"
    /\ stack # << >>
    /\ es.rules # << >>
    /\ todo' = RulesFor(tree.kind[node])
    /\ ep' = "rules"
    /\ UNCHANGED <<tree, es, stack, edges>>

ApplyImport ==
    /\ Applying
    /\ rule.edge = "import"
    /\ Emit(buildImportEdge(node, 0))

\* The names below the field of the rule, or below the node itself.
ApplyDescend ==
    /\ Applying
    /\ rule.edge # "import"
    /\ rule.descend
    /\ Emit(NamedBelow(node, Target, rule.edge))

NoName ==
    /\ Applying
    /\ Single
    /\ ~ Named
    /\ Emit(<< >>)

\* applyCallNameOverride
OverrideImport ==
    /\ Applying /\ Single /\ Named
    /\ Override
    /\ es.callNames[TargetName] = "import"
    /\ Emit(buildImportEdge(node, target))

OverrideOther ==
    /\ Applying /\ Single /\ Named
    /\ Override
    /\ es.callNames[TargetName] # "import"
    /\ Emit(NamedBelow(node, Field(node, "arguments"), es.callNames[TargetName]))

ApplyTarget ==
    /\ Applying /\ Single /\ Named
    /\ ~ Override
    /\ Emit(appendEdge(node, target, rule.edge, TargetQualifier, TargetName))

\* Mutants: a match is not looked into; the children come last.
BelowUnmatched ==
    /\ ep = "rules" /\ todo = << >>
    /\ stack' = IF \E m \in 1..Len(edges) : edges[m].owner = node THEN Tail(stack)
                ELSE tree.children[node] \o Tail(stack)
    /\ ep' = "node"
    /\ UNCHANGED <<tree, es, todo, edges>>

BelowLater ==
    /\ ep = "rules" /\ todo = << >>
    /\ stack' = Tail(stack) \o tree.children[node]
    /\ ep' = "node"
    /\ UNCHANGED <<tree, es, todo, edges>>

Below ==
    /\ ep = "rules"
    /\ todo = << >>
    /\ stack' = tree.children[node] \o Tail(stack)
    /\ ep' = "node"
    /\ UNCHANGED <<tree, es, todo, edges>>

Return ==
    /\ ep = "node"
    /\ stack = << >>
    /\ ep' = "returned"
    /\ UNCHANGED <<tree, es, todo, stack, edges>>

Next ==
    \/ Disabled \/ Visit \/ Below \/ Return
    \/ ApplyImport \/ ApplyDescend \/ NoName
    \/ OverrideImport \/ OverrideOther \/ ApplyTarget

-----------------------------------------------------------------------------
Called(c) ==
    /\ tree = c.tree
    /\ es = c.es
    /\ stack = << 1 >>
    /\ todo = << >>
    /\ edges = << >>
    /\ ep = "node"

Init == \E c \in Cases : Called(c)

\* The walk runs in one goroutine: it keeps running.
Spec == Init /\ [][Next]_vars /\ WF_vars(Next)

-----------------------------------------------------------------------------
EdgeIndex == 1..Len(edges)

Inside(n, m) == n = m \/ m \in tree.above[n]

\* The definitions with a name that n lies in.
Around(n) == {d \in Definitions : Inside(n, d)}

\* Of definitions around one node, the innermost, as a set of one node or none.
Innermost(S) == {n \in S : \A m \in S : m <= n}

\* The name of the one of S that is innermost, or none.
NameOfInnermost(S) ==
    LET d == Innermost(S) IN IF d = {} THEN "" ELSE NameOf(CHOOSE x \in d : TRUE)

\* What rule r finds at node n under its plain name, neither qualified nor
\* reclassified by its name: a set of one node or none.
Found(n, r) ==
    {c \in IF r.target = "" THEN {n} ELSE Field(n, r.target) :
        /\ r.kind = tree.kind[n] /\ r.edge \in {"call", "reference"} /\ ~ r.descend
        /\ tree.text[c] # "" /\ tree.kind[c] \notin DOMAIN es.qualified
        /\ ~ (r.edge = "call" /\ tree.text[c] \in DOMAIN es.callNames)}

\* The name c, found at n, can be that of the definition around n itself: that
\* has this name, and it is a name of the same kind (of a type, of a constant).
CanBeItself(n, c) ==
    \E d \in Innermost(Around(n)) : \E f \in Field(d, es.nameField) :
        tree.text[f] = tree.text[c] /\ tree.kind[f] = tree.kind[c]

\* The calls and the references of the tree, by these names.
PlainNames ==
    {[kind |-> es.rules[f[2]].edge, source |-> NameOfInnermost(Around(f[1])),
      target |-> tree.text[f[3]], line |-> tree.startRow[f[3]] + 1,
      itself |-> CanBeItself(f[1], f[3])] :
        f \in {g \in Nodes \X (1..Len(es.rules)) \X Nodes : g[3] \in Found(g[1], es.rules[g[2]])}}

\* The edge x has the name and the line of definition d and, if d is one of the
\* nested kinds, the name of the innermost top-level definition that d lies in.
AttributedTo(x, d) ==
    LET outer == {a \in TopLevels : a # d /\ Inside(d, a)}
    IN  /\ x.source = NameOf(d)
        /\ x.sourceLine = tree.startRow[d] + 1
        /\ x.sourceParent = IF tree.kind[d] \in es.nested THEN NameOfInnermost(outer) ELSE ""

\* enclosingDefinition attributes an edge to a definition that contains the
\* whole of what the edge was found in, with no named definition in between;
\* an edge at file level lies in none.
SourceEncloses ==
    \A m \in EdgeIndex :
        LET x      == edges[m]
            around == Around(x.owner)
        IN  /\ x.source = "" <=> around = {}
            /\ x.source = "" => x.sourceLine = 0 /\ x.sourceParent = ""
            /\ x.source # "" =>
                  /\ \E d \in around :
                        AttributedTo(x, d) /\ \A b \in around : Inside(d, b)
                  /\ x.sourceLine <= x.line

\* Edges come in the document order of what they were found in, of which
\* dedupeEdges keeps the first.
DocumentOrder ==
    \A m, p \in EdgeIndex : m < p => edges[m].owner <= edges[p].owner
=============================================================================
