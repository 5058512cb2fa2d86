-------------------------------- MODULE Dedupe --------------------------------
(***************************************************************************)
(* dedupeEdges of edges.go.  A first loop notes which definition inherits  *)
(* from what; a second one filters the edges in place: out := edges[:0]    *)
(* shares the array that the loop is still reading.                        *)
(***************************************************************************)
EXTENDS Integers, Sequences

CONSTANT AnyEdge   \* the edges: records of kind, source, sourceParent,
                   \*    sourceLine, target, qualifier, line and language

VARIABLES
    given,       \* the edges passed
    array,       \* the array below edges and out
    n,           \* len(out)
    i,           \* the index of the range loop
    inherited,   \* the pairs of Source and Target that an inherit edge joins
    seen,        \* the keys of out
    dp           \* where dedupeEdges is

vars == <<given, array, n, i, inherited, seen, dp>>

e      == array[i]
result == SubSeq(array, 1, n)

Pair(x) == <<x.source, x.target>>

\* edgeKey
Key(x) == <<x.kind, x.source, x.target, x.qualifier, x.line>>

Demoted(x) == x.kind = "reference" /\ Pair(x) \in inherited

-----------------------------------------------------------------------------
ReturnShort ==
    /\ dp = "start"
    /\ Len(given) < 2
    /\ n' = Len(given)
    /\ dp' = "returned"
    /\ UNCHANGED <<given, array, i, inherited, seen>>

Start ==
    /\ dp = "start"
    /\ Len(given) >= 2
    /\ dp' = "note"
    /\ UNCHANGED <<given, array, n, i, inherited, seen>>

NoteInherit ==
    /\ dp = "note"
    /\ i <= Len(array)
    /\ e.kind = "inherit"
    /\ inherited' = inherited \cup {Pair(e)}
    /\ i' = i + 1
    /\ UNCHANGED <<given, array, n, seen, dp>>

PassOther ==
    /\ dp = "note"
    /\ i <= Len(array)
    /\ e.kind # "inherit"
    /\ i' = i + 1
    /\ UNCHANGED <<given, array, n, inherited, seen, dp>>

\* out := edges[:0], and the second loop starts.
Filter ==
    /\ dp = "note"
    /\ i > Len(array)
    /\ i' = 1
    /\ dp' = "filter"
    /\ UNCHANGED <<given, array, n, inherited, seen>>

Demote ==
    /\ dp = "filter"
    /\ i <= Len(array)
    /\ Demoted(e)
    /\ i' = i + 1
    /\ UNCHANGED <<given, array, n, inherited, seen, dp>>

DropDuplicate ==
    /\ dp = "filter"
    /\ i <= Len(array)
    /\ ~ Demoted(e)
    /\ Key(e) \in seen
    /\ i' = i + 1
    /\ UNCHANGED <<given, array, n, inherited, seen, dp>>

\* Mutant: the edge is appended twice.
KeepTwice ==
    /\ dp = "filter" /\ i <= Len(array) /\ ~ Demoted(e) /\ Key(e) \notin seen
    /\ seen' = seen \cup {Key(e)}
    /\ array' = [array EXCEPT ![n + 1] = e, ![n + 2] = e]
    /\ n' = n + 2
    /\ i' = i + 1
    /\ UNCHANGED <<given, inherited, dp>>

\* out = append(out, e) writes into the shared array.
Keep ==
    /\ dp = "filter"
    /\ i <= Len(array)
    /\ ~ Demoted(e)
    /\ Key(e) \notin seen
    /\ seen' = seen \cup {Key(e)}
    /\ array' = [array EXCEPT ![n + 1] = e]
    /\ n' = n + 1
    /\ i' = i + 1
    /\ UNCHANGED <<given, inherited, dp>>

\* Mutant: the loop ends one edge early.
ReturnEarly ==
    /\ dp = "filter" /\ i >= Len(array)
    /\ dp' = "returned"
    /\ UNCHANGED <<given, array, n, i, inherited, seen>>

Return ==
    /\ dp = "filter"
    /\ i > Len(array)
    /\ dp' = "returned"
    /\ UNCHANGED <<given, array, n, i, inherited, seen>>

Next ==
    \/ ReturnShort \/ Start
    \/ NoteInherit \/ PassOther \/ Filter
    \/ Demote \/ DropDuplicate \/ Keep \/ Return

-----------------------------------------------------------------------------
Init ==
    /\ given \in Seq(AnyEdge)
    /\ array = given
    /\ n = 0
    /\ i = 1
    /\ inherited = {}
    /\ seen = {}
    /\ dp = "start"

\* The loops run in one goroutine: they keep running.
Spec == Init /\ [][Next]_vars /\ WF_vars(Next)

-----------------------------------------------------------------------------
\* Every variable has the type dedupeEdges gives it, and out never outgrows the
\* array it shares.
TypeOK ==
    /\ given \in Seq(AnyEdge) /\ array \in Seq(AnyEdge)
    /\ Len(array) = Len(given)
    /\ n \in 0..Len(array)
    /\ i \in 1..Len(array) + 1
    /\ dp \in {"start", "note", "filter", "returned"}

\* The filter never overwrites an edge it has yet to read.
UnreadUntouched ==
    dp = "filter" => \A m \in i..Len(array) : array[m] = given[m]

\* Alike(x, y): the fields that tell edges apart are the same.
Alike(x, y) ==
    /\ x.kind = y.kind /\ x.source = y.source /\ x.target = y.target
    /\ x.qualifier = y.qualifier /\ x.line = y.line

\* Every edge passed is represented by one that is returned: one that is alike,
\* or, for a reference, an inherit edge from the same source to the same target.
Represented(x) ==
    \E m \in 1..n :
        \/ Alike(array[m], x)
        \/ /\ x.kind = "reference" /\ array[m].kind = "inherit"
           /\ array[m].source = x.source /\ array[m].target = x.target

NothingLost == dp = "returned" => \A m \in 1..Len(given) : Represented(given[m])

\* No edge is returned twice.
NoTwins ==
    dp \in {"filter", "returned"} =>
        \A m, l \in 1..n : m # l => ~ Alike(array[m], array[l])
=============================================================================
