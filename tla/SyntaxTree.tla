------------------------------ MODULE SyntaxTree ------------------------------
(***************************************************************************)
(* The trees that tree-sitter hands to the chunker, as far as the chunker  *)
(* asks.  Nodes are numbered from 1, the root, with every parent before    *)
(* its children.  Of each node n of a tree t:                              *)
(*    t.kind[n]       Kind()                                               *)
(*    t.parent[n]     Parent(), 0 above the root                           *)
(*    t.above[n]      the nodes that p = p.Parent() passes on its way up   *)
(*    t.children[n]   NamedChild(0), NamedChild(1), ...                    *)
(*    t.startByte[n], t.endByte[n], t.startRow[n], t.endRow[n]             *)
(*    t.named[n]      ChildByFieldName(NameField) is there, with a text    *)
(*    t.lineEnds[n]   the ends, from startByte[n], of the lines that       *)
(*                    bytes.SplitAfter makes of the text of n; the last    *)
(*                    one is where n ends                                  *)
(***************************************************************************)
EXTENDS Integers, Sequences

NodesOf(t) == 1..Len(t.kind)

ValidNode(t, n) == t.startByte[n] <= t.endByte[n]

\* The shape: a tree in which parents and children agree.
Shape(t) ==
    LET N == NodesOf(t)
    IN  /\ t.kind \in Seq(STRING) /\ t.kind # << >>
        /\ t.parent[1] = 0
        /\ \A n \in N \ {1} :
              /\ t.parent[n] \in 1..n - 1
              /\ \E j \in 1..Len(t.children[t.parent[n]]) :
                    t.children[t.parent[n]][j] = n
        /\ \A n \in N :
              /\ t.children[n] \in Seq(N)
              /\ t.above[n] \subseteq 1..n - 1
              /\ t.above[n] = IF n = 1 THEN {} ELSE {t.parent[n]} \cup t.above[t.parent[n]]
              /\ \A j \in 1..Len(t.children[n]) : t.parent[t.children[n][j]] = n
              /\ \A j, m \in 1..Len(t.children[n]) :
                    j # m => t.children[n][j] # t.children[n][m]

\* The extents: children lie inside their parent, in order.  The chunker checks
\* that a node does not end before it starts; nothing is assumed of one that
\* does.
Extents(t) ==
    LET N == NodesOf(t)
    IN  /\ \A n \in N : /\ t.startByte[n] \in Nat /\ t.endByte[n] \in Nat
                        /\ t.startRow[n] \in Nat /\ t.endRow[n] \in Nat
                        /\ t.named[n] \in BOOLEAN
        /\ \A n \in N : \A j \in 1..Len(t.children[n]) :
              LET c == t.children[n][j]
              IN  ValidNode(t, n) /\ ValidNode(t, c) =>
                      t.startByte[n] <= t.startByte[c] /\ t.endByte[c] <= t.endByte[n]
        /\ \A n \in N : \A j, m \in 1..Len(t.children[n]) :
              LET c == t.children[n][j]
                  d == t.children[n][m]
              IN  j < m /\ ValidNode(t, c) /\ ValidNode(t, d) =>
                      t.endByte[c] <= t.startByte[d]

\* The lines of a text of the given size.
LinesOf(ends, size) ==
    /\ ends \in Seq(Nat) /\ ends # << >> /\ ends[Len(ends)] = size
    /\ \A j \in 1..Len(ends) - 1 : ends[j] \in 1..size
    /\ \A j, m \in 1..Len(ends) - 1 : j < m => ends[j] < ends[m]

Lines(t) ==
    \A n \in NodesOf(t) :
        ValidNode(t, n) => LinesOf(t.lineEnds[n], t.endByte[n] - t.startByte[n])

WellFormed(t) == Shape(t) /\ Extents(t) /\ Lines(t)
=============================================================================
