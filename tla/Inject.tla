-------------------------------- MODULE Inject -------------------------------
(***************************************************************************)
(* The split phase of analyze (chunker.go): collectAtoms on the tree of    *)
(* the file, then applyInjections, which re-parses the embedded content of *)
(* each container node with a grammar of its own and puts the atoms of     *)
(* that parse in the place of the container's.                             *)
(*                                                                         *)
(* Parsers and trees are C objects: what is `held' has been made and not   *)
(* been closed by injectContainer's deferred calls yet.                    *)
(***************************************************************************)
EXTENDS Atoms, SyntaxTree

CONSTANTS
    Languages, TopLevel, Nested,   \* the tables of kinds, as for Collect
    FileLang,                      \* the Name of the LanguageConfig of the file
    Rules,                         \* its Injections: a sequence of InjectionRule
    Roots,                         \* the trees of the file
    Parsed(_, _, _)                \* Parsed(l, t, n): the trees tree-sitter can make,
                                   \*    with the grammar of l, of the text of node n of t

\* An InjectionRule; grammars maps an attribute value to the Name of a config,
\* which in langs is never that of the file itself.
ASSUME RuleAssumption ==
    /\ Len(Rules) \in Nat
    /\ \A m \in 1..Len(Rules) :
          /\ {Rules[m].container, Rules[m].content, Rules[m].attr, Rules[m].default} \subseteq STRING
          /\ \A v \in DOMAIN Rules[m].grammars : Rules[m].grammars[v] \in Languages \ {FileLang}

\* A definition or an element consists of at least a keyword or a tag.
BoundariesHaveText(t, l) ==
    \A n \in NodesOf(t) : t.kind[n] \in TopLevel[l] \cup Nested[l] => t.startByte[n] # t.endByte[n]

\* Below a container of one rule there is none of a rule for another kind: the
\* content of a script is text to the grammar of the file.
ContainersApart(t) ==
    \A n \in NodesOf(t) : \A a \in t.above[n] : \A p, q \in 1..Len(Rules) :
        t.kind[a] = Rules[p].container /\ t.kind[n] = Rules[q].container => t.kind[a] = t.kind[n]

\* The trees: no node of the file's ends before it starts, and the tree of a text
\* that is included by SetIncludedRanges lies in its range.
ASSUME TreeAssumption ==
    /\ Languages \subseteq STRING /\ FileLang \in Languages
    /\ \A t \in Roots : /\ WellFormed(t) /\ \A n \in NodesOf(t) : ValidNode(t, n)
                        /\ BoundariesHaveText(t, FileLang)
                        /\ ContainersApart(t)
    /\ \A l \in Languages, t \in Roots : \A n \in NodesOf(t) : \A p \in Parsed(l, t, n) :
          /\ WellFormed(p)
          /\ BoundariesHaveText(p, l)
          /\ ValidNode(p, 1) => t.startByte[n] <= p.startByte[1] /\ p.endByte[1] <= t.endByte[n]

VARIABLES
    root,         \* the tree of the file
    wantEdges,    \* called by Analyze, not by ChunkFile
    atoms,        \* the atoms of the file
    r,            \* the rule applied
    todo,         \* collectNodesByKind: the nodes to look at
    containers,   \* the containers it found
    ci,           \* the container at hand
    held,         \* the parser and the tree that injectContainer has open
    edgeTrees,    \* the calls of collectEdges: a sequence of container and language
    ip,           \* where the phase is
    tree, lang, stack, collected,                        \* collectAtoms's,
    leaf, k, lineOffset, chunkStart, chunkStartRow, ls,  \* lineSplitAtom's,
    given, start, end, replacements, j, inserted, result, rp   \* replaceAtomsInRange's

walkVars   == <<tree, lang, stack, collected, leaf, k, lineOffset, chunkStart, chunkStartRow, ls>>
spliceVars == <<given, start, end, replacements, j, inserted, result, rp>>
ruleVars   == <<r, todo, containers, ci>>
vars       == <<root, wantEdges, atoms, ruleVars, held, edgeTrees, ip, walkVars, spliceVars>>

Walk   == INSTANCE Collect WITH atoms <- collected, Trees <- {}
Splice == INSTANCE Replace WITH AnyAtom <- {}, Calls <- {}

rule      == Rules[r]
container == containers[ci]

-----------------------------------------------------------------------------
\* findChildByKind: the first child of the kind, in a set, or none.  The code goes
\* over anonymous children too, the "<" and the "/>"; a tree has the named ones
\* only, which is all if ContentKind is the kind of a named node, as raw_text is.
findChildByKind(n, kd) ==
    LET c == root.children[n]
    IN  {c[m] : m \in {p \in 1..Len(c) : root.kind[c[p]] = kd
                                           /\ \A q \in 1..p - 1 : root.kind[c[q]] # kd}}

\* The content that is worth parsing.
Content(n, kd) == {c \in findChildByKind(n, kd) : root.startByte[c] # root.endByte[c]}

\* findStartTag and attrValue: root.attributes[n] are the attributes of the start
\* tag of n; value "" stands for one without a value, which is passed over.
attrValue(n, name) ==
    LET a   == root.attributes[n]
        has == {m \in 1..Len(a) : a[m].name = name /\ a[m].value # ""}
    IN  IF has = {} THEN "" ELSE a[CHOOSE m \in has : \A q \in has : m <= q].value

langName(n) ==
    LET v == IF rule.attr = "" THEN "" ELSE attrValue(n, rule.attr)
    IN  IF v = "" THEN rule.default ELSE v

-----------------------------------------------------------------------------
\* c.collectAtoms(root, ...) of analyze.
WalkFile ==
    /\ ip = "file"
    /\ Walk!Next
    /\ UNCHANGED <<root, wantEdges, atoms, ruleVars, held, edgeTrees, ip, spliceVars>>

FileWalked ==
    /\ ip = "file"
    /\ Walk!Done
    /\ atoms' = collected
    /\ edgeTrees' = IF wantEdges THEN << <<0, FileLang>> >> ELSE << >>
    /\ ip' = "rule"
    /\ UNCHANGED <<root, wantEdges, ruleVars, held, walkVars, spliceVars>>

-----------------------------------------------------------------------------
\* applyInjection: the next rule looks for its containers from the root on.
NextRule ==
    /\ ip = "rule"
    /\ r <= Len(Rules)
    /\ todo' = << 1 >>
    /\ containers' = << >>
    /\ ip' = "find"
    /\ UNCHANGED <<root, wantEdges, atoms, r, ci, held, edgeTrees, walkVars, spliceVars>>

\* A node of the kind is a container; the search does not go into it.
FindMatch ==
    /\ ip = "find"
    /\ todo # << >>
    /\ root.kind[Head(todo)] = rule.container
    /\ containers' = Append(containers, Head(todo))
    /\ todo' = Tail(todo)
    /\ UNCHANGED <<root, wantEdges, atoms, r, ci, held, edgeTrees, ip, walkVars, spliceVars>>

FindBelow ==
    /\ ip = "find"
    /\ todo # << >>
    /\ root.kind[Head(todo)] # rule.container
    /\ todo' = root.children[Head(todo)] \o Tail(todo)
    /\ UNCHANGED <<root, wantEdges, atoms, r, containers, ci, held, edgeTrees, ip,
                   walkVars, spliceVars>>

AllFound ==
    /\ ip = "find"
    /\ todo = << >>
    /\ ci' = 1
    /\ ip' = "container"
    /\ UNCHANGED <<root, wantEdges, atoms, r, todo, containers, held, edgeTrees,
                   walkVars, spliceVars>>

RuleDone ==
    /\ ip = "container"
    /\ ci > Len(containers)
    /\ r' = r + 1
    /\ ip' = "rule"
    /\ UNCHANGED <<root, wantEdges, atoms, todo, containers, ci, held, edgeTrees,
                   walkVars, spliceVars>>

Return ==
    /\ ip = "rule"
    /\ r > Len(Rules)
    /\ ip' = "returned"
    /\ UNCHANGED <<root, wantEdges, atoms, ruleVars, held, edgeTrees, walkVars, spliceVars>>

-----------------------------------------------------------------------------
\* injectContainer returns atoms2; the deferred calls close what it has open.
Leave(atoms2) ==
    /\ atoms' = atoms2
    /\ held' = {}
    /\ ci' = ci + 1
    /\ ip' = "container"

\* No content, an empty one, or a language that the rule has no grammar for.
NotInjected ==
    /\ ip = "container"
    /\ ci <= Len(containers)
    /\ \/ Content(container, rule.content) = {}
       \/ langName(container) \notin DOMAIN rule.grammars
    /\ Leave(atoms)
    /\ UNCHANGED <<root, wantEdges, r, todo, containers, edgeTrees, walkVars, spliceVars>>

OpenParser ==
    /\ ip = "container"
    /\ ci <= Len(containers)
    /\ Content(container, rule.content) # {}
    /\ langName(container) \in DOMAIN rule.grammars
    /\ held' = {"parser"}
    /\ ip' = "parser"
    /\ UNCHANGED <<root, wantEdges, atoms, ruleVars, edgeTrees, walkVars, spliceVars>>

\* SetLanguage or SetIncludedRanges fails, or Parse gives no tree.
ParseFails ==
    /\ ip = "parser"
    /\ Leave(atoms)
    /\ UNCHANGED <<root, wantEdges, r, todo, containers, edgeTrees, walkVars, spliceVars>>

\* Parse over the range of the content; collectAtoms starts at the root of its tree.
Parse ==
    /\ ip = "parser"
    /\ \E c \in Content(container, rule.content) :
          LET l == rule.grammars[langName(container)]
          IN  /\ tree' \in Parsed(l, root, c)
              /\ lang' = l
    /\ stack' = << 1 >>
    /\ collected' = << >>
    /\ held' = {"parser", "tree"}
    /\ ip' = "inject"
    /\ UNCHANGED <<root, wantEdges, atoms, ruleVars, edgeTrees, spliceVars,
                   leaf, k, lineOffset, chunkStart, chunkStartRow, ls>>

WalkInjected ==
    /\ ip = "inject"
    /\ Walk!Next
    /\ UNCHANGED <<root, wantEdges, atoms, ruleVars, held, edgeTrees, ip, spliceVars>>

\* Mutant: the edges collected so far are overwritten.
EdgesOverwritten == edgeTrees' = IF wantEdges THEN << <<container, lang>> >> ELSE edgeTrees

\* collectEdges comes before the look at the atoms.
EdgesInjected == edgeTrees' = IF wantEdges THEN Append(edgeTrees, <<container, lang>>)
                              ELSE edgeTrees

\* Mutant: no look at the atoms, none take the place of the container's.
ReplaceByNothing ==
    /\ ip = "inject" /\ Walk!Done /\ collected = << >>
    /\ EdgesInjected
    /\ Splice!Call(atoms, root.startByte[container], root.endByte[container], collected)
    /\ ip' = "splice"
    /\ UNCHANGED <<root, wantEdges, atoms, ruleVars, held, walkVars>>

NothingCollected ==
    /\ ip = "inject"
    /\ Walk!Done
    /\ collected = << >>
    /\ EdgesInjected
    /\ Leave(atoms)
    /\ UNCHANGED <<root, wantEdges, r, todo, containers, walkVars, spliceVars>>

\* Mutant: the range of the content instead of the container's.
ReplaceContent ==
    /\ ip = "inject" /\ Walk!Done /\ collected # << >>
    /\ EdgesInjected
    /\ \E c \in Content(container, rule.content) :
          Splice!Call(atoms, root.startByte[c], root.endByte[c], collected)
    /\ ip' = "splice"
    /\ UNCHANGED <<root, wantEdges, atoms, ruleVars, held, walkVars>>

ReplaceAtoms ==
    /\ ip = "inject"
    /\ Walk!Done
    /\ collected # << >>
    /\ EdgesInjected
    /\ Splice!Call(atoms, root.startByte[container], root.endByte[container], collected)
    /\ ip' = "splice"
    /\ UNCHANGED <<root, wantEdges, atoms, ruleVars, held, walkVars>>

SpliceStep ==
    /\ ip = "splice"
    /\ Splice!ReplaceNext
    /\ UNCHANGED <<root, wantEdges, atoms, ruleVars, held, edgeTrees, ip, walkVars>>

Replaced ==
    /\ ip = "splice"
    /\ rp = "returned"
    /\ Leave(result)
    /\ UNCHANGED <<root, wantEdges, r, todo, containers, edgeTrees, walkVars, spliceVars>>

Next ==
    \/ WalkFile \/ FileWalked
    \/ NextRule \/ FindMatch \/ FindBelow \/ AllFound \/ RuleDone \/ Return
    \/ NotInjected \/ OpenParser \/ ParseFails \/ Parse
    \/ WalkInjected \/ NothingCollected \/ ReplaceAtoms \/ SpliceStep \/ Replaced

-----------------------------------------------------------------------------
Init ==
    /\ root \in Roots
    /\ wantEdges \in BOOLEAN
    /\ atoms = << >>
    /\ r = 1 /\ todo = << >> /\ containers = << >> /\ ci = 1
    /\ held = {}
    /\ edgeTrees = << >>
    /\ ip = "file"
    /\ tree = root /\ lang = FileLang /\ stack = << 1 >> /\ collected = << >>
    /\ leaf = [startByte |-> 0, startRow |-> 0, lineEnds |-> << 0 >>, lang |-> FileLang]
    /\ k = 1 /\ lineOffset = 0 /\ chunkStart = 0 /\ chunkStartRow = 0 /\ ls = "idle"
    /\ given = << >> /\ start = 0 /\ end = 0 /\ replacements = << >>
    /\ j = 1 /\ inserted = FALSE /\ result = << >> /\ rp = "returned"

\* analyze runs in one goroutine: it keeps running.
Spec == Init /\ [][Next]_vars /\ WF_vars(Next)

-----------------------------------------------------------------------------
Within(a, n) == root.startByte[n] <= a.startByte /\ a.endByte <= root.endByte[n]

\* A tree is read only while it is open, and injectContainer leaves nothing open
\* on any of its ways out.
OpenWhileRead ==
    /\ ip \in {"inject", "splice"} => held = {"parser", "tree"}
    /\ ip = "parser" => held = {"parser"}
    /\ ip \in {"file", "rule", "find", "container", "returned"} => held = {}

\* replaceAtomsInRange is called only on what it expects.
CalledAligned ==
    ip = "splice" => Splice!Aligned(given, start, end, replacements)

\* A container is represented by the atoms of one parse: those of the file or
\* those of the injected grammar, never by some of each.
NoMixture ==
    \A m \in 1..Len(containers) : \A p, q \in 1..Len(atoms) :
        Within(atoms[p], containers[m]) /\ Within(atoms[q], containers[m]) =>
            atoms[p].lang = atoms[q].lang

\* The outermost boundaries of the file that fit in a chunk.
FileBoundary(n) ==
    LET kd == TopLevel[FileLang] \cup Nested[FileLang]
        fitting(m) == root.kind[m] \in kd /\ root.endByte[m] - root.startByte[m] <= MaxChunkSize
    IN  fitting(n) /\ \A a \in root.above[n] : ~ fitting(a)

\* Analyze sees the edges of every tree that its atoms come from, the file's
\* first; ChunkFile collects none.
EdgesOfEveryTree ==
    /\ ~ wantEdges => edgeTrees = << >>
    /\ wantEdges /\ ip # "file" =>
        /\ edgeTrees # << >> /\ edgeTrees[1] = <<0, FileLang>>
        /\ \A p \in 1..Len(atoms) : \E m \in 1..Len(edgeTrees) :
              /\ edgeTrees[m][2] = atoms[p].lang
              /\ edgeTrees[m][1] # 0 => Within(atoms[p], edgeTrees[m][1])
=============================================================================
