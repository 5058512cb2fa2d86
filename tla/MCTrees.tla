------------------------------- MODULE MCTrees -------------------------------
(***************************************************************************)
(* Small syntax trees for TLC.  A tree is described, in document order, by *)
(* one entry per node: the number of its parent, its kind, and the width   *)
(* of the text of its own that precedes its children.  One byte separates  *)
(* it from the node before.  Every third byte of the file is a newline.    *)
(***************************************************************************)
EXTENDS Integers, Sequences

Own(p, kd, w) == [parent |-> p, kind |-> kd, width |-> w]

\* Offset of the text of node n, the root's being at, and of the end of its last
\* descendant.
StartOf(d, at) ==
    LET start[n \in 1..Len(d)] ==
            IF n = 1 THEN at ELSE start[n - 1] + d[n - 1].width + 1
    IN  start

LastOf(d) ==
    LET last[n \in 1..Len(d)] ==
            LET below == {c \in n + 1..Len(d) : d[c].parent = n}
            IN  IF below = {} THEN n ELSE last[CHOOSE c \in below : \A e \in below : e <= c]
    IN  last

\* The node n and those above it; none for n = 0.
Ancestry(d) ==
    LET up[n \in 0..Len(d)] == IF n = 0 THEN {} ELSE {n} \cup up[d[n].parent]
    IN  up

Row(b) == b \div 3

\* The members of S, numbers from 1 to n, in their order.
Ascending(S, n) == SelectSeq([m \in 1..n |-> m], LAMBDA m : m \in S)

BuildAt(d, namedKinds, at) ==
    LET start  == StartOf(d, at)
        last   == LastOf(d)
        N      == 1..Len(d)
        from   == [n \in N |-> start[n]]
        to     == [n \in N |-> start[last[n]] + d[last[n]].width]
        breaks(n) == {b - from[n] : b \in {c \in from[n] + 1..to[n] : c % 3 = 0}}
    IN  [kind      |-> [n \in N |-> d[n].kind],
         parent    |-> [n \in N |-> d[n].parent],
         above     |-> [n \in N |-> Ancestry(d)[d[n].parent]],
         children  |-> [n \in N |-> Ascending({c \in N : d[c].parent = n}, Len(d))],
         startByte |-> from,
         endByte   |-> to,
         startRow  |-> [n \in N |-> Row(from[n])],
         endRow    |-> [n \in N |-> Row(to[n])],
         named     |-> [n \in N |-> d[n].kind \in namedKinds],
         lineEnds  |-> [n \in N |-> Append(Ascending(breaks(n), to[n] - from[n]), to[n] - from[n])]]

Build(d, namedKinds) == BuildAt(d, namedKinds, 0)

\* Node n of t ends before it starts.
Invert(t, n) == [t EXCEPT !.startByte[n] = t.endByte[n] + 1]

\* The descriptions of all trees of at most size nodes below a root of kind
\* rootKind: a new node hangs below the last one or below one of its ancestors.
Descriptions(size, rootKind, kinds, widths) ==
    LET D[n \in 1..size] ==
            IF n = 1 THEN {<< Own(0, rootKind, 0) >>}
            ELSE UNION {{Append(d, Own(p, kd, w)) :
                            p \in Ancestry(d)[Len(d)], kd \in kinds, w \in widths} : d \in D[n - 1]}
    IN  UNION {D[n] : n \in 1..size}
=============================================================================
