------------------------------- MODULE EdgeList -------------------------------
(***************************************************************************)
(* What Analyze makes of the edges of a file: collectEdges walks a tree    *)
(* and appends to the slice that holds the edges of the trees walked       *)
(* before (the file's own and those of injections); dedupeEdges filters    *)
(* the whole slice.  The walk is Edges, the filter is Dedupe, whose names  *)
(* this module has as its own.                                             *)
(***************************************************************************)
EXTENDS Dedupe

CONSTANT Calls   \* the walks: records of a tree, of the language's tables and
                 \*    of the edges collected earlier

VARIABLES tree, es, stack, todo, edges, ep   \* of the walk

walk == <<tree, es, stack, todo, edges, ep>>

Walk == INSTANCE Edges WITH Cases <- Calls

\* The trees are as tree-sitter makes them, the rules as EdgeRules has them.
ASSUME CallsAssumption ==
    \A c \in Calls :
        /\ Walk!Walkable(c.tree)
        /\ c.es.rules \in Seq(Walk!Rule)
        /\ c.earlier \in Seq(AnyEdge)

\* The fields that an Edge of the program has.
AsEdge(x) ==
    [kind |-> x.kind, source |-> x.source, sourceParent |-> x.sourceParent,
     sourceLine |-> x.sourceLine, target |-> x.target, qualifier |-> x.qualifier,
     line |-> x.line, language |-> es.language]

-----------------------------------------------------------------------------
WalkStep ==
    /\ dp = "walk"
    /\ Walk!Next
    /\ UNCHANGED vars

\* The slice is complete: it is passed to dedupeEdges.
HandOver ==
    /\ dp = "walk"
    /\ ep = "returned"
    /\ given' = given \o [m \in 1..Len(edges) |-> AsEdge(edges[m])]
    /\ array' = given'
    /\ dp' = "start"
    /\ UNCHANGED <<n, i, inherited, seen, walk>>

DedupeStep ==
    /\ Next
    /\ UNCHANGED walk

ListNext == WalkStep \/ HandOver \/ DedupeStep

ListInit ==
    /\ \E c \in Calls : Walk!Called(c) /\ given = c.earlier
    /\ array = given
    /\ n = 0
    /\ i = 1
    /\ inherited = {}
    /\ seen = {}
    /\ dp = "walk"

\* One goroutine runs both: it keeps running.
ListSpec == ListInit /\ [][ListNext]_<<vars, walk>> /\ WF_<<vars, walk>>(ListNext)

-----------------------------------------------------------------------------
\* enclosingDefinition attributes an edge to the innermost definition with a
\* name that contains what the edge was found in, and names the top-level
\* definition around that (see Edges).
SourceEncloses == Walk!SourceEncloses

\* The walk finds edges in document order, of which dedupeEdges keeps the first.
DocumentOrder == Walk!DocumentOrder

Reports(x, p) ==
    x.kind = p.kind /\ x.source = p.source /\ x.target = p.target /\ x.line = p.line

\* The result has the relation p, or it need not: a reference is left out for an
\* inherit edge between the same two, or when it can be a definition referring
\* to itself.
Accounted(p) ==
    \/ \E m \in 1..n : Reports(array[m], p)
    \/ /\ p.kind = "reference"
       /\ \/ p.itself
          \/ \E m \in 1..n : /\ array[m].kind = "inherit"
                             /\ array[m].source = p.source
                             /\ array[m].target = p.target

\* A reference to something else that has the name of the definition it is in.
ToNamesake(p) == p.kind = "reference" /\ p.target = p.source /\ ~ p.itself

\* "Traversal continues through matched nodes so that nested calls are not
\* lost": each call and each reference by a plain name (see Found in Edges), at
\* whatever depth, is in the result with its line and the name of the innermost
\* definition with a name around it, or is accounted for.  Nothing is said of
\* references to namesakes; SelfReferencesOmitted is about them.
Reported ==
    dp = "returned" =>
        \A p \in Walk!PlainNames : ToNamesake(p) \/ Accounted(p)

\* "skipping self-references", "a definition referring to itself": of the
\* references by a plain name, nothing else is left out.  appendEdge compares
\* names only, and a method P whose result is of the type P loses the reference
\* to that type.
SelfReferencesOmitted ==
    dp = "returned" => \A p \in Walk!PlainNames : Accounted(p)
=============================================================================
