------------------------------ MODULE MCEdgeList ------------------------------
(***************************************************************************)
(* The files of MCFiles without earlier edges; and, behind up to four      *)
(* earlier edges, a file without edges and a Ruby class.  The earlier ones *)
(* are an inherit edge, references to the same and another target, and     *)
(* calls: two methods f of classes A and B on one line, and a function g   *)
(* on another.                                                             *)
(***************************************************************************)
EXTENDS EdgeList

Files == INSTANCE MCFiles

Edge(kd, s, p, t, ln) ==
    [kind |-> kd, source |-> s, sourceParent |-> p, sourceLine |-> 1, target |-> t,
     qualifier |-> "", line |-> ln, language |-> "vue"]

Some == {Edge("inherit", "A", "", "B", 1),
         Edge("reference", "A", "", "B", 1),
         Edge("reference", "A", "", "B", 2),
         Edge("reference", "g", "", "B", 1),
         Edge("call", "f", "A", "g", 1),
         Edge("call", "f", "B", "g", 1)}

Earlier(max) == UNION {[1..l -> Some] : l \in 0..max}

RbFile == Files!File(<< Files!RbClass("A", Files!RbMethod(Files!RbRun)) >>)

MCWalks == {[tree |-> c.tree, es |-> c.es, earlier |-> << >>] : c \in Files!Cases}

MCCalls ==
    MCWalks
        \cup {[tree |-> c.tree, es |-> c.es, earlier |-> s] :
                 c \in Files!NoRules, s \in Earlier(4)}
        \cup {[tree |-> RbFile, es |-> Files!Ruby, earlier |-> s] : s \in Earlier(2)}

MCAnyEdge ==
    [kind : {"call", "import", "inherit", "reference"}, source : STRING,
     sourceParent : STRING, sourceLine : Nat, target : STRING, qualifier : STRING,
     line : Nat, language : STRING]
=============================================================================
