---------------------------- MODULE Analyze_proofs ----------------------------
(***************************************************************************)
(* For every file's tree, every table of rules, every tree that tree-      *)
(* sitter can make of an embedded text and every pair of thresholds, a     *)
(* call of analyze keeps what its phases promise together. The invariants  *)
(* of the phases are those of the modules that prove them: CP is the walk  *)
(* of collectAtoms over the tree at hand, RP is replaceAtomsInRange, MP is *)
(* mergeAtoms. What is proved here is that each phase calls the next as it *)
(* expects, and what the chain of them preserves.                          *)
(***************************************************************************)
EXTENDS Analyze, TLAPS

CP == INSTANCE Collect_proofs WITH atoms <- collected, Trees <- {}
AP == INSTANCE Atoms_proofs WITH AtomSeqs <- {}, AnyAtom <- Join!Atom, Calls <- {}

-----------------------------------------------------------------------------
\* What the instances assume.
LEMMA WalkAssumption == CP!CollectAssumption
  BY TreeAssumption DEF CP!CollectAssumption

LEMMA SpliceAssumption == AP!CallAssumption
  BY DEF AP!CallAssumption, Join!Atom

LEMMA JoinAssumption == AP!AtomAssumption
  BY DEF AP!AtomAssumption

\* The phases take the same steps seen from the modules of their proofs.
LEMMA SameWalk ==
    /\ Walk!Next => CP!Next
    /\ Walk!Done <=> CP!Done
  <1>1. \A a, b : Walk!Split!Newlines(a, b) = CP!Split!Newlines(a, b)
    BY DEF Walk!Split!Newlines, CP!Split!Newlines, Walk!Split!Cardinality, CP!Split!Cardinality
  <1>2. \A e : Walk!Split!Flush(e) => CP!Split!Flush(e)
    BY <1>1 DEF Walk!Split!Flush, CP!Split!Flush
  <1>3. Walk!SplitStep => CP!SplitStep
    BY <1>2
       DEF Walk!SplitStep, CP!SplitStep,
           Walk!Split!Next, Walk!Split!FlushAccumulated, Walk!Split!KeepAccumulated,
           Walk!Split!SplitByBytes, Walk!Split!NextLine, Walk!Split!Return,
           Walk!Split!TooLong, Walk!Split!LineEnd, Walk!Split!Size, Walk!Split!local,
           CP!Split!Next, CP!Split!FlushAccumulated, CP!Split!KeepAccumulated,
           CP!Split!SplitByBytes, CP!Split!NextLine, CP!Split!Return,
           CP!Split!TooLong, CP!Split!LineEnd, CP!Split!Size, CP!Split!local
  <1>4. /\ \A n : Walk!Valid(n) <=> CP!Valid(n)
        /\ \A n : Walk!FittingBoundary(n) <=> CP!FittingBoundary(n)
        /\ \A n : Walk!OversizedLeaf(n) <=> CP!OversizedLeaf(n)
        /\ Walk!Visiting <=> CP!Visiting
    BY DEF Walk!Valid, CP!Valid, Walk!ValidNode, CP!ValidNode,
           Walk!FittingBoundary, CP!FittingBoundary, Walk!OversizedLeaf, CP!OversizedLeaf,
           Walk!InTopLevel, CP!InTopLevel, Walk!InNested, CP!InNested,
           Walk!Span, CP!Span, Walk!Visiting, CP!Visiting
  <1>5. Walk!SkipInvalid => CP!SkipInvalid
    BY <1>4 DEF Walk!SkipInvalid, CP!SkipInvalid, Walk!split, CP!split
  <1>6. Walk!EmitBoundary => CP!EmitBoundary
    <2>1. \A n : Walk!BoundaryAtom(n) = CP!BoundaryAtom(n)
      BY DEF Walk!BoundaryAtom, CP!BoundaryAtom, Walk!InNested, CP!InNested,
             Walk!InTopLevel, CP!InTopLevel, Walk!hasTopLevelAncestor, CP!hasTopLevelAncestor,
             Walk!extractParentName, CP!extractParentName,
             Walk!NearestTopLevel, CP!NearestTopLevel
    <2>2. QED
      BY <1>4, <2>1 DEF Walk!EmitBoundary, CP!EmitBoundary, Walk!split, CP!split
  <1>7. Walk!SplitLeaf => CP!SplitLeaf
    BY <1>4 DEF Walk!SplitLeaf, CP!SplitLeaf, Walk!LeafOf, CP!LeafOf,
                Walk!Split!Call, CP!Split!Call
  <1>8. Walk!Descend => CP!Descend
    BY <1>4 DEF Walk!Descend, CP!Descend, Walk!split, CP!split
  <1>9. Walk!Done <=> CP!Done
    BY DEF Walk!Done, CP!Done
  <1>10. QED
    BY <1>3, <1>5, <1>6, <1>7, <1>8, <1>9 DEF Walk!Next, CP!Next

LEMMA SameSplice == Splice!ReplaceNext => AP!ReplaceNext
  BY DEF Splice!ReplaceNext, AP!ReplaceNext, Splice!SkipOutside, AP!SkipOutside,
         Splice!Match, AP!Match, Splice!NoMatch, AP!NoMatch, Splice!Keep, AP!Keep,
         Splice!Insert, AP!Insert, Splice!Drop, AP!Drop, Splice!Return, AP!Return,
         Splice!InRange, AP!InRange, Splice!args, AP!args

LEMMA SameJoin == Join!Next => AP!Next
  BY DEF Join!Next, AP!Next, Join!ReturnNil, AP!ReturnNil, Join!EnterLoop, AP!EnterLoop,
         Join!CloseGroup, AP!CloseGroup, Join!ExtendGroup, AP!ExtendGroup,
         Join!CloseLast, AP!CloseLast, Join!Breaks, AP!Breaks, Join!Chunk, AP!Chunk

-----------------------------------------------------------------------------
\* The file's tree and the atoms of the file, for any tree t and atoms s.

InNode(t, n, x) == t.startByte[n] <= x.startByte /\ x.endByte <= t.endByte[n]

\* An atom and a node do not cut across each other.
About(t, n, x) ==
    \/ InNode(t, n, x)
    \/ x.startByte <= t.startByte[n] /\ t.endByte[n] <= x.endByte
    \/ x.endByte <= t.startByte[n]
    \/ t.endByte[n] <= x.startByte

ContainerKind(t, n) == \E q \in 1..Len(Rules) : t.kind[n] = Rules[q].container

\* The nodes that collectNodesByKind can find for some rule.
Containers(t) ==
    {n \in NodesOf(t) : ContainerKind(t, n) /\ \A a \in t.above[n] : t.kind[a] # t.kind[n]}

\* The ranges of nodes are those of a tree, and no container lies in another.
Geometry(t) ==
    /\ 1 \in NodesOf(t)
    /\ \A n \in NodesOf(t) :
          /\ t.startByte[n] \in Nat /\ t.endByte[n] \in Nat
          /\ t.startByte[n] <= t.endByte[n]
          /\ t.startByte[1] <= t.startByte[n] /\ t.endByte[n] <= t.endByte[1]
    /\ \A c, d \in Containers(t) :
          c = d \/ t.endByte[c] <= t.startByte[d] \/ t.endByte[d] <= t.startByte[c]

\* What applyInjections keeps of the atoms, whatever it has replaced so far.
FileAtoms(t, s) ==
    /\ s \in Seq(Join!Atom)
    /\ InDocumentOrder(s) /\ NoneOversized(s)
    /\ \A p \in 1..Len(s) :
          /\ s[p].startByte < s[p].endByte
          /\ InNode(t, 1, s[p])
          /\ \A c \in Containers(t) : About(t, c, s[p])

OneLanguageEach(t, s) ==
    \A c \in Containers(t) : \A p, q \in 1..Len(s) :
        InNode(t, c, s[p]) /\ InNode(t, c, s[q]) => s[p].lang = s[q].lang

Fitting(t, n) ==
    /\ t.kind[n] \in TopLevel[FileLang] \cup Nested[FileLang]
    /\ t.endByte[n] - t.startByte[n] <= MaxChunkSize

Outer(t, n) == Fitting(t, n) /\ \A a \in t.above[n] : ~ Fitting(t, a)

\* An outermost boundary has its atom, or lies in a container whose atoms have
\* been replaced.
BoundaryKept(t, s, n) ==
    \/ \E p \in 1..Len(s) : /\ s[p].lang = FileLang
                            /\ s[p].startByte = t.startByte[n] /\ s[p].endByte = t.endByte[n]
    \/ \E c \in Containers(t), p \in 1..Len(s) :
          /\ t.startByte[c] <= t.startByte[n] /\ t.endByte[n] <= t.endByte[c]
          /\ InNode(t, c, s[p])
          /\ s[p].lang # FileLang

BoundariesKept(t, s) == \A n \in NodesOf(t) : Outer(t, n) => BoundaryKept(t, s, n)

\* The edges of the trees that the atoms come from have been asked for.
EdgesAsked(t, s, e) ==
    \A p \in 1..Len(s) : \E m \in 1..Len(e) :
        /\ e[m][2] = s[p].lang
        /\ e[m][1] # 0 => InNode(t, e[m][1], s[p])

\* The atoms of language l that are to take the place of those of container c.
Injection(t, c, l, x) ==
    /\ x \in Seq(Join!Atom) /\ x # << >>
    /\ InDocumentOrder(x) /\ NoneOversized(x)
    /\ \A p \in 1..Len(x) :
          /\ x[p].lang = l
          /\ x[p].startByte < x[p].endByte
          /\ InNode(t, c, x[p])

\* v consists of x and of the atoms of s outside of c, or is s.
SpliceOf(t, c, s, x, v) ==
    \/ v = s
    \/ /\ \A m \in 1..Len(v) :
             \/ \E p \in 1..Len(x) : v[m] = x[p]
             \/ \E p \in 1..Len(s) : v[m] = s[p] /\ ~ InNode(t, c, s[p])
       /\ \A p \in 1..Len(x) : \E m \in 1..Len(v) : v[m] = x[p]
       /\ \A p \in 1..Len(s) : ~ InNode(t, c, s[p]) => \E m \in 1..Len(v) : v[m] = s[p]

-----------------------------------------------------------------------------
LEMMA AtomFields ==
    \A a \in Join!Atom : a.startByte \in Nat /\ a.endByte \in Nat /\ a.lang \in Languages
  BY DEF Join!Atom

LEMMA ElementTypes ==
    ASSUME NEW S, NEW s \in Seq(S)
    PROVE  Len(s) \in Nat /\ \A p \in 1..Len(s) : s[p] \in S
  OBVIOUS

\* Only the injected atoms lie in the container of an injection and in another.
LEMMA InOneContainer ==
    ASSUME NEW t, Geometry(t), NEW c \in Containers(t), NEW d \in Containers(t),
           NEW x \in Join!Atom, x.startByte < x.endByte,
           InNode(t, c, x), InNode(t, d, x)
    PROVE  c = d
  <1>1. x.startByte \in Nat /\ x.endByte \in Nat
    BY AtomFields
  <1>2. c \in NodesOf(t) /\ d \in NodesOf(t)
    BY DEF Containers
  <1>3. /\ t.startByte[c] \in Nat /\ t.endByte[c] \in Nat
        /\ t.startByte[d] \in Nat /\ t.endByte[d] \in Nat
        /\ c = d \/ t.endByte[c] <= t.startByte[d] \/ t.endByte[d] <= t.startByte[c]
    BY <1>2 DEF Geometry
  <1>4. /\ t.startByte[c] <= x.startByte /\ x.endByte <= t.endByte[c]
        /\ t.startByte[d] <= x.startByte /\ x.endByte <= t.endByte[d]
    BY DEF InNode
  <1>5. QED
    BY <1>1, <1>3, <1>4

\* The atoms of an injection are placed as those of the file are.
LEMMA InjectedPlace ==
    ASSUME NEW t, Geometry(t), NEW c \in Containers(t),
           NEW x \in Join!Atom, InNode(t, c, x)
    PROVE  /\ InNode(t, 1, x)
           /\ \A d \in Containers(t) : About(t, d, x)
  <1>1. x.startByte \in Nat /\ x.endByte \in Nat
    BY AtomFields
  <1>2. c \in NodesOf(t)
    BY DEF Containers
  <1>3. /\ t.startByte[c] \in Nat /\ t.endByte[c] \in Nat
        /\ t.startByte[1] \in Nat /\ t.endByte[1] \in Nat
        /\ t.startByte[1] <= t.startByte[c] /\ t.endByte[c] <= t.endByte[1]
    BY <1>2 DEF Geometry
  <1>4. t.startByte[c] <= x.startByte /\ x.endByte <= t.endByte[c]
    BY DEF InNode
  <1>5. InNode(t, 1, x)
    BY <1>1, <1>3, <1>4 DEF InNode
  <1>6. ASSUME NEW d \in Containers(t) PROVE About(t, d, x)
    <2>1. d \in NodesOf(t)
      BY DEF Containers
    <2>2. /\ t.startByte[d] \in Nat /\ t.endByte[d] \in Nat
          /\ c = d \/ t.endByte[c] <= t.startByte[d] \/ t.endByte[d] <= t.startByte[c]
      BY <2>1 DEF Geometry
    <2>3. QED
      BY <1>1, <1>3, <1>4, <2>2 DEF About, InNode
  <1>7. QED
    BY <1>5, <1>6

\* Putting the atoms of an injection in the place of those of its container keeps
\* all that applyInjections keeps.
LEMMA SpliceKeeps ==
    ASSUME NEW t, Geometry(t), NEW c \in Containers(t), NEW l, l # FileLang,
           NEW s, FileAtoms(t, s), NEW x, Injection(t, c, l, x),
           NEW v \in Seq(Join!Atom), InDocumentOrder(v), NoneOversized(v),
           SpliceOf(t, c, s, x, v)
    PROVE  /\ FileAtoms(t, v)
           /\ OneLanguageEach(t, s) => OneLanguageEach(t, v)
           /\ BoundariesKept(t, s) => BoundariesKept(t, v)
           /\ \A e : EdgesAsked(t, s, e) /\ (\E m \in 1..Len(e) : e[m] = <<c, l>>)
                         => EdgesAsked(t, v, e)
  <1>1. CASE v = s
    BY <1>1
  <1>2. CASE v # s
    <2> DEFINE New(m) == \E p \in 1..Len(x) : v[m] = x[p]
               Old(m) == \E p \in 1..Len(s) : v[m] = s[p] /\ ~ InNode(t, c, s[p])
    <2>1. /\ \A m \in 1..Len(v) : New(m) \/ Old(m)
          /\ \A p \in 1..Len(x) : \E m \in 1..Len(v) : v[m] = x[p]
          /\ \A p \in 1..Len(s) :
                ~ InNode(t, c, s[p]) => \E m \in 1..Len(v) : v[m] = s[p]
      BY <1>2 DEF SpliceOf
    <2>2. /\ \A m \in 1..Len(v) : v[m] \in Join!Atom
          /\ \A p \in 1..Len(s) : s[p] \in Join!Atom
          /\ \A p \in 1..Len(x) : x[p] \in Join!Atom
          /\ Len(x) \in Nat /\ 1 \in 1..Len(x)
      <3>1. s \in Seq(Join!Atom) /\ x \in Seq(Join!Atom) /\ x # << >>
        BY DEF FileAtoms, Injection
      <3> HIDE DEF New, Old
      <3>2. QED
        BY <3>1, ElementTypes
    <2>3. ASSUME NEW m \in 1..Len(v), New(m)
          PROVE  v[m].lang = l /\ v[m].startByte < v[m].endByte /\ InNode(t, c, v[m])
      BY <2>3 DEF Injection
    <2>4. ASSUME NEW m \in 1..Len(v), Old(m)
          PROVE  /\ v[m].startByte < v[m].endByte /\ ~ InNode(t, c, v[m])
                 /\ InNode(t, 1, v[m]) /\ \A d \in Containers(t) : About(t, d, v[m])
      BY <2>4 DEF FileAtoms
    <2>5. FileAtoms(t, v)
      <3>1. ASSUME NEW m \in 1..Len(v)
            PROVE  /\ v[m].startByte < v[m].endByte
                   /\ InNode(t, 1, v[m]) /\ \A d \in Containers(t) : About(t, d, v[m])
        <4> HIDE DEF New, Old
        <4>1. CASE New(m)
          BY <4>1, <2>2, <2>3, InjectedPlace
        <4>2. CASE Old(m)
          BY <4>2, <2>4
        <4>3. QED
          BY <4>1, <4>2, <2>1
      <3>2. QED
        BY <3>1 DEF FileAtoms
    <2>6. ASSUME NEW d \in Containers(t), NEW m \in 1..Len(v), InNode(t, d, v[m])
          PROVE  (d = c /\ New(m)) \/ (d # c /\ Old(m))
      <3> HIDE DEF New, Old
      <3>1. CASE New(m)
        BY <3>1, <2>2, <2>3, <2>6, InOneContainer
      <3>2. CASE Old(m)
        BY <3>2, <2>4, <2>6
      <3>3. QED
        BY <3>1, <3>2, <2>1
    <2>7. ASSUME OneLanguageEach(t, s) PROVE OneLanguageEach(t, v)
      <3>1. ASSUME NEW d \in Containers(t), NEW m \in 1..Len(v), NEW n \in 1..Len(v),
                   InNode(t, d, v[m]), InNode(t, d, v[n])
            PROVE  v[m].lang = v[n].lang
        <4>1. CASE d = c
          <5>1. New(m) /\ New(n)
            BY <4>1, <3>1, <2>6
          <5> HIDE DEF New, Old
          <5>2. QED
            BY <5>1, <2>3
        <4>2. CASE d # c
          <5>1. Old(m) /\ Old(n)
            BY <4>2, <3>1, <2>6
          <5>2. PICK p \in 1..Len(s) : v[m] = s[p]
            BY <5>1
          <5>3. PICK q \in 1..Len(s) : v[n] = s[q]
            BY <5>1
          <5>4. QED
            BY <5>2, <5>3, <3>1, <2>7 DEF OneLanguageEach
        <4>3. QED
          BY <4>1, <4>2
      <3>2. QED
        BY <3>1 DEF OneLanguageEach
    <2>8. ASSUME BoundariesKept(t, s) PROVE BoundariesKept(t, v)
      <3>0. PICK w \in 1..Len(v) : v[w] = x[1]
        BY <2>1, <2>2
      <3>1. v[w].lang # FileLang /\ InNode(t, c, v[w])
        BY <3>0, <2>2 DEF Injection
      <3>2. ASSUME NEW n \in NodesOf(t),
                   t.startByte[c] <= t.startByte[n], t.endByte[n] <= t.endByte[c]
            PROVE  BoundaryKept(t, v, n)
        BY <3>1, <3>2 DEF BoundaryKept
      <3>3. ASSUME NEW n \in NodesOf(t), Outer(t, n) PROVE BoundaryKept(t, v, n)
        <4>1. BoundaryKept(t, s, n)
          BY <3>3, <2>8 DEF BoundariesKept
        <4>2. CASE \E p \in 1..Len(s) :
                      /\ s[p].lang = FileLang
                      /\ s[p].startByte = t.startByte[n] /\ s[p].endByte = t.endByte[n]
          <5>1. PICK p \in 1..Len(s) :
                      /\ s[p].lang = FileLang
                      /\ s[p].startByte = t.startByte[n] /\ s[p].endByte = t.endByte[n]
            BY <4>2
          <5>2. CASE InNode(t, c, s[p])
            BY <5>1, <5>2, <3>2 DEF InNode
          <5>3. CASE ~ InNode(t, c, s[p])
            <6>1. PICK m \in 1..Len(v) : v[m] = s[p]
              BY <5>3, <2>1
            <6>2. QED
              BY <6>1, <5>1 DEF BoundaryKept
          <5>4. QED
            BY <5>2, <5>3
        <4>3. CASE \E d \in Containers(t), p \in 1..Len(s) :
                      /\ t.startByte[d] <= t.startByte[n] /\ t.endByte[n] <= t.endByte[d]
                      /\ InNode(t, d, s[p])
                      /\ s[p].lang # FileLang
          <5>1. PICK d \in Containers(t) : \E p \in 1..Len(s) :
                      /\ t.startByte[d] <= t.startByte[n] /\ t.endByte[n] <= t.endByte[d]
                      /\ InNode(t, d, s[p])
                      /\ s[p].lang # FileLang
            BY <4>3
          <5>2. PICK p \in 1..Len(s) :
                      /\ t.startByte[d] <= t.startByte[n] /\ t.endByte[n] <= t.endByte[d]
                      /\ InNode(t, d, s[p])
                      /\ s[p].lang # FileLang
            BY <5>1
          <5>3. CASE InNode(t, c, s[p])
            <6>1. s[p] \in Join!Atom /\ s[p].startByte < s[p].endByte
              BY <2>2 DEF FileAtoms
            <6>2. d = c
              BY <6>1, <5>2, <5>3, InOneContainer
            <6>3. QED
              BY <6>2, <5>2, <3>2
          <5>4. CASE ~ InNode(t, c, s[p])
            <6>1. PICK m \in 1..Len(v) : v[m] = s[p]
              BY <5>4, <2>1
            <6>2. InNode(t, d, v[m]) /\ v[m].lang # FileLang
              BY <6>1, <5>2
            <6>3. QED
              BY <6>2, <5>2 DEF BoundaryKept
          <5>5. QED
            BY <5>3, <5>4
        <4>4. QED
          BY <4>1, <4>2, <4>3 DEF BoundaryKept
      <3>4. QED
        BY <3>3 DEF BoundariesKept
    <2>9. ASSUME NEW e, EdgesAsked(t, s, e), \E m \in 1..Len(e) : e[m] = <<c, l>>
          PROVE  EdgesAsked(t, v, e)
      <3>1. ASSUME NEW p \in 1..Len(v)
            PROVE  \E m \in 1..Len(e) : /\ e[m][2] = v[p].lang
                                        /\ e[m][1] # 0 => InNode(t, e[m][1], v[p])
        <4>1. CASE New(p)
          <5>1. v[p].lang = l /\ InNode(t, c, v[p])
            BY <4>1, <2>3
          <5>2. PICK m \in 1..Len(e) : e[m] = <<c, l>>
            BY <2>9
          <5>3. e[m][1] = c /\ e[m][2] = l
            BY <5>2
          <5>4. QED
            BY <5>1, <5>3
        <4>2. CASE Old(p)
          BY <4>2, <2>9 DEF EdgesAsked
        <4>3. QED
          BY <4>1, <4>2, <2>1
      <3>2. QED
        BY <3>1 DEF EdgesAsked
    <2>10. QED
      BY <2>5, <2>7, <2>8, <2>9
  <1>3. QED
    BY <1>1, <1>2

\* The elements of two sequences, one behind the other, and of a part of one.
LEMMA JoinedElements ==
    ASSUME NEW S, NEW s \in Seq(S), NEW u \in Seq(S)
    PROVE  /\ s \o u \in Seq(S) /\ Len(s \o u) = Len(s) + Len(u)
           /\ Len(s) \in Nat /\ Len(u) \in Nat
           /\ \A m \in 1..Len(s) : (s \o u)[m] = s[m]
           /\ \A m \in 1..Len(u) : (s \o u)[Len(s) + m] = u[m]
           /\ \A m \in 1..Len(s \o u) : m \in 1..Len(s) \/ m - Len(s) \in 1..Len(u)
           /\ \A m \in 1..Len(s \o u) : ~ m \in 1..Len(s) => (s \o u)[m] = u[m - Len(s)]
  OBVIOUS

LEMMA PartElements ==
    ASSUME NEW S, NEW s \in Seq(S), NEW a \in 1..Len(s) + 1, NEW b \in 0..Len(s)
    PROVE  /\ SubSeq(s, a, b) \in Seq(S)
           /\ \A m \in 1..Len(SubSeq(s, a, b)) :
                 a + m - 1 \in a..b /\ SubSeq(s, a, b)[m] = s[a + m - 1]
           /\ \A m \in a..b : m - a + 1 \in 1..Len(SubSeq(s, a, b))
                              /\ SubSeq(s, a, b)[m - a + 1] = s[m]
  OBVIOUS

\* The elements of w are those of s and of u.
Consists(w, s, u) ==
    /\ \A m \in 1..Len(w) : \/ \E p \in 1..Len(s) : w[m] = s[p]
                           \/ \E p \in 1..Len(u) : w[m] = u[p]
    /\ \A p \in 1..Len(s) : \E m \in 1..Len(w) : w[m] = s[p]
    /\ \A p \in 1..Len(u) : \E m \in 1..Len(w) : w[m] = u[p]

LEMMA Either ==
    ASSUME NEW S, NEW s \in Seq(S), NEW u \in Seq(S), NEW w, w = s \o u
    PROVE  w \in Seq(S) /\ Consists(w, s, u)
  <1>0. /\ s \o u \in Seq(S) /\ Len(s \o u) = Len(s) + Len(u)
        /\ Len(s) \in Nat /\ Len(u) \in Nat
        /\ \A m \in 1..Len(s) : (s \o u)[m] = s[m]
        /\ \A m \in 1..Len(u) : (s \o u)[Len(s) + m] = u[m]
        /\ \A m \in 1..Len(s \o u) : m \in 1..Len(s) \/ m - Len(s) \in 1..Len(u)
        /\ \A m \in 1..Len(s \o u) : ~ m \in 1..Len(s) => (s \o u)[m] = u[m - Len(s)]
    BY JoinedElements
  <1>1. /\ Len(w) = Len(s) + Len(u)
        /\ Len(s) \in Nat /\ Len(u) \in Nat
        /\ \A m \in 1..Len(s) : w[m] = s[m]
        /\ \A m \in 1..Len(u) : w[Len(s) + m] = u[m]
        /\ \A m \in 1..Len(w) : m \in 1..Len(s) \/ m - Len(s) \in 1..Len(u)
        /\ \A m \in 1..Len(w) : ~ m \in 1..Len(s) => w[m] = u[m - Len(s)]
    BY <1>0
  <1>2. w \in Seq(S)
    BY <1>0
  <1>3. ASSUME NEW m \in 1..Len(w)
        PROVE  (\E p \in 1..Len(s) : w[m] = s[p]) \/ (\E p \in 1..Len(u) : w[m] = u[p])
    BY <1>1
  <1>4. ASSUME NEW p \in 1..Len(s) PROVE \E m \in 1..Len(w) : w[m] = s[p]
    <2>1. p \in 1..Len(w) /\ w[p] = s[p]
      BY <1>1
    <2>2. QED
      BY <2>1
  <1>5. ASSUME NEW p \in 1..Len(u) PROVE \E m \in 1..Len(w) : w[m] = u[p]
    <2>1. Len(s) + p \in 1..Len(w) /\ w[Len(s) + p] = u[p]
      BY <1>1
    <2>2. QED
      BY <2>1
  <1>6. QED
    BY <1>2, <1>3, <1>4, <1>5 DEF Consists

\* v consists of x and of the elements of s that are not at f..g.
PutInPlace(s, x, f, g, v) ==
    /\ \A m \in 1..Len(v) : \/ \E p \in 1..Len(x) : v[m] = x[p]
                           \/ \E p \in 1..Len(s) : v[m] = s[p] /\ ~ p \in f..g
    /\ \A p \in 1..Len(x) : \E m \in 1..Len(v) : v[m] = x[p]
    /\ \A p \in 1..Len(s) : ~ p \in f..g => \E m \in 1..Len(v) : v[m] = s[p]

LEMMA SpliceElements ==
    ASSUME NEW S, NEW s \in Seq(S), NEW x \in Seq(S),
           NEW f \in 1..Len(s), NEW g \in f..Len(s), NEW v,
           v = SubSeq(s, 1, f - 1) \o x \o SubSeq(s, g + 1, Len(s))
    PROVE  PutInPlace(s, x, f, g, v)
  <1> DEFINE h == SubSeq(s, 1, f - 1)
             t == SubSeq(s, g + 1, Len(s))
             hx == h \o x
  <1>0. Len(s) \in Nat /\ f \in Nat /\ g \in Nat /\ f <= g /\ g <= Len(s) /\ 1 <= f
    BY ElementTypes
  <1>1. /\ h \in Seq(S)
        /\ \A m \in 1..Len(h) : 1 + m - 1 \in 1..f - 1 /\ h[m] = s[1 + m - 1]
        /\ \A m \in 1..f - 1 : m - 1 + 1 \in 1..Len(h) /\ h[m - 1 + 1] = s[m]
    <2>1. 1 \in 1..Len(s) + 1 /\ f - 1 \in 0..Len(s)
      BY <1>0
    <2>2. QED
      BY <2>1, PartElements
  <1>2. /\ t \in Seq(S)
        /\ \A m \in 1..Len(t) : g + 1 + m - 1 \in g + 1..Len(s) /\ t[m] = s[g + 1 + m - 1]
        /\ \A m \in g + 1..Len(s) : m - (g + 1) + 1 \in 1..Len(t)
                                    /\ t[m - (g + 1) + 1] = s[m]
    <2>1. g + 1 \in 1..Len(s) + 1 /\ Len(s) \in 0..Len(s)
      BY <1>0
    <2>2. QED
      BY <2>1, PartElements
  <1> HIDE DEF h, t
  <1>3. /\ hx \in Seq(S)
        /\ \A m \in 1..Len(hx) : (\E p \in 1..Len(h) : hx[m] = h[p])
                                 \/ (\E p \in 1..Len(x) : hx[m] = x[p])
        /\ \A p \in 1..Len(h) : \E m \in 1..Len(hx) : hx[m] = h[p]
        /\ \A p \in 1..Len(x) : \E m \in 1..Len(hx) : hx[m] = x[p]
    <2>1. h \in Seq(S) /\ hx = h \o x
      BY <1>1
    <2> HIDE DEF hx
    <2>2. hx \in Seq(S) /\ Consists(hx, h, x)
      BY ONLY <2>1, x \in Seq(S), Either
    <2>3. QED
      BY <2>2 DEF Consists
  <1> HIDE DEF hx
  <1>4. /\ v = hx \o t
        /\ \A m \in 1..Len(v) : (\E p \in 1..Len(hx) : v[m] = hx[p])
                                \/ (\E p \in 1..Len(t) : v[m] = t[p])
        /\ \A p \in 1..Len(hx) : \E m \in 1..Len(v) : v[m] = hx[p]
        /\ \A p \in 1..Len(t) : \E m \in 1..Len(v) : v[m] = t[p]
    <2>1. v = hx \o t
      BY DEF hx, h, t
    <2>2. hx \in Seq(S) /\ t \in Seq(S)
      BY <1>2, <1>3
    <2>3. Consists(v, hx, t)
      BY ONLY <2>1, <2>2, Either
    <2>4. QED
      BY <2>1, <2>3 DEF Consists
  <1>5. \A p \in 1..Len(h) : \E q \in 1..Len(s) : h[p] = s[q] /\ ~ q \in f..g
    <2>1. ASSUME NEW p \in 1..Len(h)
          PROVE  p \in 1..Len(s) /\ h[p] = s[p] /\ ~ p \in f..g
      <3>1. Len(h) \in Nat
        BY <1>1, ElementTypes
      <3>2. QED
        BY <3>1, <1>0, <1>1
    <2>2. QED
      BY <2>1
  <1>6. \A p \in 1..Len(t) : \E q \in 1..Len(s) : t[p] = s[q] /\ ~ q \in f..g
    <2>1. ASSUME NEW p \in 1..Len(t)
          PROVE  g + p \in 1..Len(s) /\ t[p] = s[g + p] /\ ~ g + p \in f..g
      <3>1. Len(t) \in Nat
        BY <1>2, ElementTypes
      <3>2. g + 1 + p - 1 = g + p
        BY <3>1, <1>0
      <3>3. g + p \in g + 1..Len(s) /\ t[p] = s[g + p]
        BY <3>2, <1>2
      <3>4. QED
        BY <3>1, <3>3, <1>0
    <2>2. QED
      BY <2>1
  <1>7. ASSUME NEW p \in 1..Len(s), ~ p \in f..g
        PROVE  (\E q \in 1..Len(h) : h[q] = s[p]) \/ (\E q \in 1..Len(t) : t[q] = s[p])
    <2>1. CASE p < f
      <3>1. p \in 1..f - 1 /\ p - 1 + 1 = p
        BY <2>1, <1>0
      <3>2. QED
        BY <3>1, <1>1
    <2>2. CASE ~ p < f
      <3>1. p \in g + 1..Len(s)
        BY <2>2, <1>0, <1>7
      <3>2. QED
        BY <3>1, <1>2
    <2>3. QED
      BY <2>1, <2>2
  <1>8. ASSUME NEW m \in 1..Len(v)
        PROVE  \/ \E p \in 1..Len(x) : v[m] = x[p]
               \/ \E p \in 1..Len(s) : v[m] = s[p] /\ ~ p \in f..g
    <2>1. CASE \E p \in 1..Len(hx) : v[m] = hx[p]
      <3>1. PICK p \in 1..Len(hx) : v[m] = hx[p]
        BY <2>1
      <3>2. (\E q \in 1..Len(h) : hx[p] = h[q]) \/ (\E q \in 1..Len(x) : hx[p] = x[q])
        BY <1>3
      <3>3. QED
        BY <3>1, <3>2, <1>5
    <2>2. CASE \E p \in 1..Len(t) : v[m] = t[p]
      BY <2>2, <1>6
    <2>3. QED
      BY <2>1, <2>2, <1>4
  <1>9. ASSUME NEW p \in 1..Len(x) PROVE \E m \in 1..Len(v) : v[m] = x[p]
    <2>1. PICK q \in 1..Len(hx) : hx[q] = x[p]
      BY <1>3
    <2>2. QED
      BY <2>1, <1>4
  <1>10. ASSUME NEW p \in 1..Len(s), ~ p \in f..g
         PROVE  \E m \in 1..Len(v) : v[m] = s[p]
    <2>1. CASE \E q \in 1..Len(h) : h[q] = s[p]
      <3>1. PICK q \in 1..Len(h) : h[q] = s[p]
        BY <2>1
      <3>2. PICK n \in 1..Len(hx) : hx[n] = h[q]
        BY <1>3
      <3>3. QED
        BY <3>1, <3>2, <1>4
    <2>2. CASE \E q \in 1..Len(t) : t[q] = s[p]
      BY <2>2, <1>4
    <2>3. QED
      BY <2>1, <2>2, <1>7, <1>10
  <1>11. QED
    BY <1>8, <1>9, <1>10 DEF PutInPlace

-----------------------------------------------------------------------------
\* The trees.  FP is the walk over the file's tree, whatever tree is walked now:
\* it lends its facts about the ranges of nodes.
FP == INSTANCE Collect_proofs WITH atoms <- collected, Trees <- {}, tree <- root

\* The instances say the same of the shape of a tree.
LEMMA SameShape ==
    \A t : /\ WellFormed(t) <=> CP!WellFormed(t)
           /\ WellFormed(t) <=> FP!WellFormed(t)
  <1>1. \A ends, size : /\ LinesOf(ends, size) <=> CP!LinesOf(ends, size)
                        /\ LinesOf(ends, size) <=> FP!LinesOf(ends, size)
    BY DEF LinesOf, CP!LinesOf, FP!LinesOf
  <1>2. \A t : /\ Shape(t) <=> CP!Shape(t)
               /\ Shape(t) <=> FP!Shape(t)
    BY DEF Shape, CP!Shape, FP!Shape, NodesOf, CP!NodesOf, FP!NodesOf
  <1>3. \A t : /\ Extents(t) <=> CP!Extents(t)
               /\ Extents(t) <=> FP!Extents(t)
    BY DEF Extents, CP!Extents, FP!Extents, NodesOf, CP!NodesOf, FP!NodesOf,
           ValidNode, CP!ValidNode, FP!ValidNode
  <1>4. \A t : /\ Lines(t) <=> CP!Lines(t)
               /\ Lines(t) <=> FP!Lines(t)
    BY <1>1 DEF Lines, CP!Lines, FP!Lines, NodesOf, CP!NodesOf, FP!NodesOf,
           ValidNode, CP!ValidNode, FP!ValidNode
  <1>5. QED
    BY <1>2, <1>3, <1>4 DEF WellFormed, CP!WellFormed, FP!WellFormed

LEMMA FileWalkAssumption == FP!CollectAssumption
  BY TreeAssumption DEF FP!CollectAssumption

\* What TreeAssumption says of the nodes of a file's tree.
LEMMA RootNodes ==
    ASSUME root \in Roots
    PROVE  /\ WellFormed(root) /\ FP!WellFormed(root) /\ 1 \in NodesOf(root)
           /\ \A n \in NodesOf(root) :
                 /\ n \in FP!Nodes /\ FP!Sound(n) /\ ValidNode(root, n)
                 /\ n # 0
                 /\ root.startByte[n] \in Nat /\ root.endByte[n] \in Nat
                 /\ root.startByte[n] <= root.endByte[n]
                 /\ root.children[n] \in Seq(NodesOf(root))
                 /\ root.above[n] \subseteq NodesOf(root)
  <1>1. WellFormed(root) /\ \A n \in NodesOf(root) : ValidNode(root, n)
    BY TreeAssumption
  <1>2. FP!WellFormed(root)
    BY <1>1, SameShape
  <1>3. /\ FP!Nodes \subseteq Nat \ {0} /\ 1 \in FP!Nodes
        /\ \A n \in FP!Nodes : \A a \in root.above[n] : a \in FP!Nodes /\ a < n
    BY <1>2, FP!NodeNumbers, FileWalkAssumption, SizeAssumption
  <1>4. FP!Nodes = NodesOf(root)
    BY DEF FP!Nodes, FP!NodesOf, NodesOf
  <1>5. ASSUME NEW n \in NodesOf(root)
        PROVE  root.startByte[n] \in Nat /\ root.endByte[n] \in Nat
    BY <1>1 DEF WellFormed, Extents
  <1>6. ASSUME NEW n \in NodesOf(root)
        PROVE  root.children[n] \in Seq(NodesOf(root))
    BY <1>1 DEF WellFormed, Shape
  <1>7. \A n \in NodesOf(root) : FP!Valid(n) /\ root.startByte[n] <= root.endByte[n]
    BY <1>1 DEF FP!Valid, FP!ValidNode, ValidNode
  <1>8. \A n \in NodesOf(root) : FP!Sound(n)
    BY <1>3, <1>4, <1>7 DEF FP!Sound
  <1>9. QED
    BY <1>1, <1>2, <1>3, <1>4, <1>5, <1>6, <1>7, <1>8

\* ContainersApart and the ranges of a tree: containers do not overlap.
LEMMA RootGeometry == root \in Roots => Geometry(root)
  <1> SUFFICES ASSUME root \in Roots PROVE Geometry(root)
    OBVIOUS
  <1>1. /\ WellFormed(root) /\ FP!WellFormed(root) /\ 1 \in NodesOf(root)
        /\ \A n \in NodesOf(root) :
              /\ n \in FP!Nodes /\ FP!Sound(n)
              /\ root.startByte[n] \in Nat /\ root.endByte[n] \in Nat
              /\ root.startByte[n] <= root.endByte[n]
    BY RootNodes
  <1>2. ASSUME NEW n \in NodesOf(root)
        PROVE  root.startByte[1] <= root.startByte[n] /\ root.endByte[n] <= root.endByte[1]
    <2>1. n = 1 \/ 1 \in root.above[n]
      BY <1>1, FP!RootAboveAll, FileWalkAssumption, SizeAssumption DEF FP!AtOrBelow
    <2>2. CASE 1 \in root.above[n]
      BY <2>2, <1>1, FP!RangesNested, FileWalkAssumption, SizeAssumption
    <2>3. QED
      BY <2>1, <2>2, <1>1
  <1>3. ASSUME NEW c \in Containers(root), NEW d \in Containers(root)
        PROVE  ~ c \in root.above[d]
    <2>1. /\ c \in NodesOf(root) /\ d \in NodesOf(root)
          /\ ContainerKind(root, c) /\ ContainerKind(root, d)
          /\ \A a \in root.above[d] : root.kind[a] # root.kind[d]
      BY DEF Containers
    <2>2. ContainersApart(root)
      BY TreeAssumption
    <2>3. QED
      BY <2>1, <2>2 DEF ContainersApart, ContainerKind
  <1>4. ASSUME NEW c \in Containers(root), NEW d \in Containers(root), c # d
        PROVE  root.endByte[c] <= root.startByte[d] \/ root.endByte[d] <= root.startByte[c]
    <2>1. c \in NodesOf(root) /\ d \in NodesOf(root)
      BY DEF Containers
    <2>2. ~ FP!AtOrBelow(c, d) /\ ~ FP!AtOrBelow(d, c)
      BY <1>3, <1>4 DEF FP!AtOrBelow
    <2>3. QED
      BY <2>1, <2>2, <1>1, FP!RangesApart, FileWalkAssumption, SizeAssumption
  <1>5. QED
    BY <1>1, <1>2, <1>4 DEF Geometry

-----------------------------------------------------------------------------
\* The inductive invariant of the split phase.

\* The rule at hand, the nodes still to be looked at and the containers found.
Place ==
    /\ root \in Roots
    /\ r \in Nat \ {0}
    /\ ip \in {"find", "container", "parser", "inject", "splice"} => r \in 1..Len(Rules)
    /\ todo \in Seq(NodesOf(root))
    /\ ip = "find" =>
          \A m \in 1..Len(todo) : \A a \in root.above[todo[m]] : root.kind[a] # rule.container
    /\ containers \in Seq(Containers(root))
    /\ ci \in Nat \ {0}
    /\ ip \in {"parser", "inject", "splice"} => ci \in 1..Len(containers)
    /\ ip = "parser" => langName(container) \in DOMAIN rule.grammars

\* A walk is under way over the file's tree or over that of an injection, in the
\* range of its container.
Walking ==
    /\ ip = "file" => CP!WalkFacts /\ tree = root /\ lang = FileLang
    /\ ip = "inject" =>
          /\ CP!WalkFacts /\ lang # FileLang /\ BoundariesHaveText(tree, lang)
          /\ ValidNode(tree, 1) => /\ root.startByte[container] <= tree.startByte[1]
                                   /\ tree.endByte[1] <= root.endByte[container]
    /\ ip \notin {"file", "inject"} => ls = "idle"

\* The atoms, once those of the file have been collected.
Kept ==
    IF ip = "file"
    THEN atoms = << >>
    ELSE FileAtoms(root, atoms) /\ OneLanguageEach(root, atoms) /\ BoundariesKept(root, atoms)

\* The calls of collectEdges.
Asked ==
    /\ edgeTrees \in Seq(Nat \X Languages)
    /\ ~ wantEdges \/ ip = "file" => edgeTrees = << >>
    /\ wantEdges /\ ip # "file" =>
          /\ edgeTrees # << >> /\ edgeTrees[1] = <<0, FileLang>>
          /\ EdgesAsked(root, atoms, edgeTrees)
    /\ wantEdges /\ ip = "splice" =>
          \E m \in 1..Len(edgeTrees) : edgeTrees[m] = <<container, lang>>

\* replaceAtomsInRange is at work on the container at hand.
Splicing ==
    ip = "splice" =>
        /\ given = atoms
        /\ start = root.startByte[container] /\ end = root.endByte[container]
        /\ lang \in Languages \ {FileLang}
        /\ Injection(root, container, lang, replacements)
        /\ AP!ReplaceIInv /\ AP!SpliceInv

SplitInv == Place /\ Walking /\ Kept /\ Asked /\ Splicing /\ OpenWhileRead

-----------------------------------------------------------------------------
\* What a walk hands over, in terms of the phases that take it.
LEMMA WalkedAtoms ==
    ASSUME CP!WalkFacts
    PROVE  /\ collected \in Seq(Join!Atom)
           /\ InDocumentOrder(collected) /\ NoneOversized(collected)
           /\ CP!WellFormed(tree) /\ lang \in Languages
           /\ \A p \in 1..Len(collected) : collected[p].lang = lang
  <1>1. /\ collected \in Seq(CP!AtomRecord) /\ CP!SortedAtoms /\ CP!AtomsFitChunk
        /\ CP!WellFormed(tree) /\ lang \in Languages
    BY DEF CP!WalkFacts, CP!IInv, CP!TypeOK
  <1>2. CP!AtomRecord = Join!Atom
    BY DEF CP!AtomRecord, Join!Atom
  <1>3. InDocumentOrder(collected) /\ NoneOversized(collected)
    BY <1>1 DEF CP!SortedAtoms, CP!AtomsFitChunk, CP!InDocumentOrder, CP!NoneOversized,
                InDocumentOrder, NoneOversized
  <1>4. \A p \in 1..Len(collected) : collected[p].lang = lang
    BY CP!AtomsWithinRoot, WalkAssumption, SizeAssumption
  <1>5. QED
    BY <1>1, <1>2, <1>3, <1>4

LEMMA WalkedHaveText ==
    ASSUME CP!WalkFacts, BoundariesHaveText(tree, lang)
    PROVE  \A p \in 1..Len(collected) : collected[p].startByte < collected[p].endByte
  <1>1. \A n \in CP!Nodes : CP!InTopLevel(n) \/ CP!InNested(n) =>
            tree.startByte[n] # tree.endByte[n]
    BY DEF BoundariesHaveText, CP!Nodes, CP!NodesOf, NodesOf, CP!InTopLevel, CP!InNested
  <1>2. QED
    BY <1>1, CP!AtomsHaveText, WalkAssumption, SizeAssumption

\* The atoms of the file's tree: applyInjections starts from what it keeps.
LEMMA FileWalkedAtoms ==
    ASSUME root \in Roots, CP!WalkFacts, tree = root, lang = FileLang
    PROVE  /\ FileAtoms(root, collected)
           /\ OneLanguageEach(root, collected)
           /\ Walk!Done => BoundariesKept(root, collected)
  <1>1. /\ collected \in Seq(Join!Atom)
        /\ InDocumentOrder(collected) /\ NoneOversized(collected)
        /\ \A p \in 1..Len(collected) : collected[p].lang = FileLang
    BY WalkedAtoms
  <1>2. \A p \in 1..Len(collected) : collected[p].startByte < collected[p].endByte
    <2>1. BoundariesHaveText(tree, lang)
      BY TreeAssumption
    <2>2. QED
      BY <2>1, WalkedHaveText
  <1>3. \A p \in 1..Len(collected) : InNode(root, 1, collected[p])
    BY CP!AtomsWithinRoot, WalkAssumption, SizeAssumption DEF InNode
  <1>4. \A n \in NodesOf(root) : n \in CP!Nodes /\ CP!Sound(n) /\ CP!Valid(n)
    BY RootNodes
       DEF CP!Nodes, CP!NodesOf, NodesOf, CP!Sound, FP!Sound, CP!Valid, FP!Valid,
           CP!ValidNode, FP!ValidNode
  <1>5. ASSUME NEW p \in 1..Len(collected), NEW c \in NodesOf(root)
        PROVE  About(root, c, collected[p])
    BY <1>4, CP!AtomsAboutNodes, WalkAssumption, SizeAssumption DEF About, InNode
  <1>6. FileAtoms(root, collected)
    BY <1>1, <1>2, <1>3, <1>5 DEF FileAtoms, Containers
  <1>7. OneLanguageEach(root, collected)
    BY <1>1 DEF OneLanguageEach
  <1>8. ASSUME Walk!Done, NEW n \in NodesOf(root), Outer(root, n)
        PROVE  BoundaryKept(root, collected, n)
    <2>1. \A m \in NodesOf(root) : CP!FittingBoundary(m) <=> Fitting(root, m)
      BY DEF CP!FittingBoundary, Fitting, CP!InTopLevel, CP!InNested, CP!Span
    <2>2. \A a \in root.above[n] : a \in NodesOf(root)
      BY RootNodes
    <2>3. n \in CP!Outermost
      BY <1>4, <1>8, <2>1, <2>2 DEF Outer, CP!Outermost, CP!Reached, CP!Sound
    <2>4. CP!Done
      BY <1>8, SameWalk
    <2>5. \E p \in 1..Len(collected) :
             /\ collected[p].startByte = tree.startByte[n]
             /\ collected[p].endByte = tree.endByte[n]
             /\ collected[p].lang = lang
      BY <2>3, <2>4, CP!BoundaryHasAtom, WalkAssumption, SizeAssumption
    <2>6. QED
      BY <2>5 DEF BoundaryKept
  <1>9. QED
    BY <1>6, <1>7, <1>8 DEF BoundariesKept

LEMMA AtContainer ==
    ASSUME Place, ip \in {"parser", "inject", "splice"}
    PROVE  container \in Containers(root)
  BY DEF Place, container

\* The atoms of an embedded tree lie in the range of their container.
LEMMA InjectedAtoms ==
    ASSUME Place, Walking, ip = "inject", collected # << >>
    PROVE  Injection(root, container, lang, collected)
  <1>1. /\ CP!WalkFacts /\ BoundariesHaveText(tree, lang)
        /\ ValidNode(tree, 1) => /\ root.startByte[container] <= tree.startByte[1]
                                 /\ tree.endByte[1] <= root.endByte[container]
    BY DEF Walking
  <1>2. /\ collected \in Seq(Join!Atom)
        /\ InDocumentOrder(collected) /\ NoneOversized(collected)
        /\ CP!WellFormed(tree)
        /\ \A p \in 1..Len(collected) : collected[p].lang = lang
    BY <1>1, WalkedAtoms
  <1>3. \A p \in 1..Len(collected) : collected[p].startByte < collected[p].endByte
    BY <1>1, WalkedHaveText
  <1>4. ASSUME NEW p \in 1..Len(collected) PROVE InNode(root, container, collected[p])
    <2>1. /\ CP!Valid(1)
          /\ tree.startByte[1] <= collected[p].startByte
          /\ collected[p].endByte <= tree.endByte[1]
      BY <1>1, CP!AtomsWithinRoot, WalkAssumption, SizeAssumption
    <2>2. /\ root.startByte[container] <= tree.startByte[1]
          /\ tree.endByte[1] <= root.endByte[container]
      BY <1>1, <2>1 DEF CP!Valid, CP!ValidNode, ValidNode
    <2>3. collected[p].startByte \in Nat /\ collected[p].endByte \in Nat
      BY <1>2, ElementTypes, AtomFields
    <2>4. /\ tree.startByte[1] \in Nat /\ tree.endByte[1] \in Nat
          /\ root.startByte[container] \in Nat /\ root.endByte[container] \in Nat
      <3>1. WellFormed(tree)
        BY <1>2, SameShape
      <3>2. 1 \in NodesOf(tree)
        BY <3>1 DEF WellFormed, Shape, NodesOf
      <3>3. container \in NodesOf(root)
        BY AtContainer DEF Containers
      <3>4. QED
        BY <3>1, <3>2, <3>3, RootNodes DEF WellFormed, Extents, Place
    <2>5. QED
      BY <2>1, <2>2, <2>3, <2>4 DEF InNode
  <1>5. QED
    BY <1>2, <1>3, <1>4 DEF Injection

\* replaceAtomsInRange is called on what it expects: as no atom is empty, one that
\* lies around the container and one in it are the same.
LEMMA AlignedCall ==
    ASSUME NEW t, Geometry(t), NEW c \in Containers(t), NEW l,
           NEW s, FileAtoms(t, s), NEW x, Injection(t, c, l, x)
    PROVE  AP!Aligned(s, t.startByte[c], t.endByte[c], x)
  <1> DEFINE from == t.startByte[c]
             to   == t.endByte[c]
             in(a) == a.startByte >= from /\ a.endByte <= to
             around(a) == a.startByte <= from /\ to <= a.endByte
  <1>1. from \in Nat /\ to \in Nat
    BY DEF Geometry, Containers
  <1>2. /\ s \in Seq(Join!Atom) /\ x \in Seq(Join!Atom)
        /\ InDocumentOrder(s) /\ NoneOversized(s) /\ InDocumentOrder(x) /\ NoneOversized(x)
    BY DEF FileAtoms, Injection
  <1>3. /\ \A k1 \in 1..Len(s) : s[k1].startByte \in Nat /\ s[k1].endByte \in Nat
        /\ \A k1 \in 1..Len(x) : x[k1].startByte \in Nat /\ x[k1].endByte \in Nat
        /\ Len(s) \in Nat /\ Len(x) \in Nat
    BY <1>2, ElementTypes, AtomFields
  <1>4. \A k1 \in 1..Len(x) : in(x[k1])
    BY <1>1, <1>3 DEF Injection, InNode
  <1>5. \A k1 \in 1..Len(s) : \/ in(s[k1]) \/ around(s[k1])
                              \/ s[k1].endByte <= from \/ to <= s[k1].startByte
    BY <1>1, <1>3 DEF FileAtoms, About, InNode
  <1>6. ASSUME NEW k1 \in 1..Len(s), NEW m \in 1..Len(s), in(s[k1]), around(s[m])
        PROVE  in(s[m])
    <2>1. s[k1].startByte < s[k1].endByte /\ s[m].startByte < s[m].endByte
      BY DEF FileAtoms
    <2>2. /\ k1 < m => s[k1].endByte <= s[m].startByte
          /\ m < k1 => s[m].endByte <= s[k1].startByte
      BY <1>2 DEF InDocumentOrder
    <2>3. k1 = m \/ k1 < m \/ m < k1
      BY <1>3
    <2>4. CASE k1 = m
      BY <1>6, <2>4
    <2>5. CASE k1 < m
      <3>1. s[k1].startByte < s[k1].endByte /\ s[k1].endByte <= s[m].startByte
        BY <2>1, <2>2, <2>5
      <3>2. s[m].startByte <= s[k1].startByte
        BY <1>1, <1>3, <1>6
      <3>3. QED
        BY <1>3, <3>1, <3>2
    <2>6. CASE m < k1
      <3>1. s[k1].startByte < s[k1].endByte /\ s[m].endByte <= s[k1].startByte
        BY <2>1, <2>2, <2>6
      <3>2. s[k1].endByte <= s[m].endByte
        BY <1>1, <1>3, <1>6
      <3>3. QED
        BY <1>3, <3>1, <3>2
    <2>7. QED
      BY <2>3, <2>4, <2>5, <2>6
  <1>7. /\ AP!InDocumentOrder(s) /\ AP!NoneOversized(s)
        /\ AP!InDocumentOrder(x) /\ AP!NoneOversized(x)
    BY <1>2 DEF InDocumentOrder, NoneOversized, AP!InDocumentOrder, AP!NoneOversized
  <1>8. QED
    BY <1>4, <1>5, <1>6, <1>7 DEF AP!Aligned

\* What replaceAtomsInRange returns, in terms of the container.
LEMMA SpliceResult ==
    ASSUME Place, Splicing, ip = "splice", rp = "returned"
    PROVE  /\ result \in Seq(Join!Atom)
           /\ InDocumentOrder(result) /\ NoneOversized(result)
           /\ SpliceOf(root, container, atoms, replacements, result)
  <1>1. /\ given = atoms
        /\ start = root.startByte[container] /\ end = root.endByte[container]
        /\ AP!ReplaceIInv /\ AP!SplicedIn
    BY DEF Splicing, AP!SpliceInv
  <1>2. /\ given \in Seq(Join!Atom) /\ replacements \in Seq(Join!Atom)
        /\ result \in Seq(Join!Atom)
        /\ start \in Nat /\ end \in Nat
        /\ AP!InDocumentOrder(result) /\ AP!NoneOversized(result)
    BY <1>1 DEF AP!ReplaceIInv, AP!ReplaceTypeOK, AP!ResultInOrder
  <1>3. InDocumentOrder(result) /\ NoneOversized(result)
    BY <1>2 DEF InDocumentOrder, NoneOversized, AP!InDocumentOrder, AP!NoneOversized
  <1>4. \A p \in 1..Len(given) : AP!InRange(given[p]) <=> InNode(root, container, given[p])
    <2>1. \A p \in 1..Len(given) : given[p].startByte \in Nat /\ given[p].endByte \in Nat
      BY <1>2, ElementTypes, AtomFields
    <2>2. QED
      BY <2>1, <1>1, <1>2 DEF AP!InRange, InNode
  <1> DEFINE hit == {p \in 1..Len(given) : AP!InRange(given[p])}
  <1>5. CASE hit = {} /\ result = given
    BY <1>5, <1>1, <1>2, <1>3 DEF SpliceOf
  <1>6. CASE \E f, g \in hit :
                /\ hit = f..g
                /\ result = SubSeq(given, 1, f - 1) \o replacements
                                \o SubSeq(given, g + 1, Len(given))
    <2>1. PICK f \in hit, g \in hit :
                /\ hit = f..g
                /\ result = SubSeq(given, 1, f - 1) \o replacements
                                \o SubSeq(given, g + 1, Len(given))
      BY <1>6
    <2>2. f \in 1..Len(given) /\ g \in f..Len(given)
      <3>1. f \in 1..Len(given) /\ g \in 1..Len(given) /\ f \in f..g
        BY <2>1
      <3>2. QED
        BY <3>1
    <2>3. PutInPlace(given, replacements, f, g, result)
      BY ONLY <1>2, <2>1, <2>2, SpliceElements
    <2>4. \A p \in 1..Len(given) : p \in f..g <=> InNode(root, container, given[p])
      BY <2>1, <1>4
    <2>5. SpliceOf(root, container, given, replacements, result)
      BY <2>3, <2>4 DEF SpliceOf, PutInPlace
    <2>6. QED
      BY <2>5, <1>1, <1>2, <1>3
  <1>7. QED
    BY <1>1, <1>5, <1>6 DEF AP!SplicedIn

-----------------------------------------------------------------------------
\* The steps of the split phase.
LEMMA SplitInitially == Init => SplitInv
  <1> SUFFICES ASSUME Init PROVE SplitInv
    OBVIOUS
  <1>1. /\ root \in Roots /\ r = 1 /\ todo = << >> /\ containers = << >> /\ ci = 1
        /\ atoms = << >> /\ edgeTrees = << >> /\ ip = "file" /\ held = {}
        /\ tree = root /\ lang = FileLang /\ stack = << 1 >> /\ collected = << >> /\ ls = "idle"
    BY DEF Init
  <1>2. CP!WalkFacts
    <2>1. WellFormed(tree) /\ lang \in Languages
      BY <1>1, TreeAssumption
    <2>2. CP!Fresh
      BY <1>1, <2>1, SameShape DEF CP!Fresh
    <2>3. QED
      BY <2>2, CP!FreshWalk, WalkAssumption, SizeAssumption
  <1>3. Place
    BY <1>1 DEF Place
  <1>4. QED
    BY <1>1, <1>2, <1>3 DEF SplitInv, Walking, Kept, Asked, Splicing, OpenWhileRead

\* The language of a container depends on the rule and on its attributes only.
LEMMA SameLangName ==
    ASSUME root' = root, rule' = rule
    PROVE  \A n : langName(n)' = langName(n)
  <1> DEFINE A(t, n, name) ==
               LET a   == t.attributes[n]
                   has == {m \in 1..Len(a) : a[m].name = name /\ a[m].value # ""}
               IN  IF has = {} THEN ""
                   ELSE a[CHOOSE m \in has : \A q \in has : m <= q].value
  <1>1. \A n, name : attrValue(n, name) = A(root, n, name)
    BY DEF attrValue
  <1>2. \A n, name : attrValue(n, name)' = A(root', n, name)
    BY DEF attrValue
  <1> HIDE DEF A
  <1>3. \A n, name : attrValue(n, name)' = attrValue(n, name)
    BY <1>1, <1>2
  <1>4. QED
    BY <1>3 DEF langName

\* The search for containers goes down the file's tree.
LEMMA PlaceStep == Place /\ Next => Place'
  <1> SUFFICES ASSUME Place, Next PROVE Place'
    OBVIOUS
  <1>0. /\ root \in Roots /\ r \in Nat \ {0}
        /\ ip \in {"find", "container", "parser", "inject", "splice"} => r \in 1..Len(Rules)
        /\ todo \in Seq(NodesOf(root)) /\ containers \in Seq(Containers(root))
        /\ ci \in Nat \ {0}
    BY DEF Place
  <1>1. CASE NextRule
    <2>1. /\ root' = root /\ r' = r /\ ci' = ci /\ ip' = "find"
          /\ todo' = << 1 >> /\ containers' = << >> /\ r <= Len(Rules)
      BY <1>1 DEF NextRule
    <2>2. 1 \in NodesOf(root) /\ root.above[1] = {}
      <3>1. 1 \in NodesOf(root) /\ WellFormed(root)
        BY <1>0, RootNodes
      <3>2. QED
        BY <3>1 DEF WellFormed, Shape
    <2>3. r \in 1..Len(Rules)
      BY <1>0, <2>1, RuleAssumption
    <2>4. QED
      BY <1>0, <2>1, <2>2, <2>3 DEF Place
  <1>2. CASE FindMatch
    <2> DEFINE n == Head(todo)
    <2>1. /\ root' = root /\ r' = r /\ ci' = ci /\ ip = "find" /\ ip' = "find" /\ todo # << >>
          /\ todo' = Tail(todo) /\ containers' = Append(containers, n)
          /\ root.kind[n] = rule.container
      BY <1>2 DEF FindMatch
    <2>2. /\ n \in NodesOf(root) /\ 1 \in 1..Len(todo) /\ n = todo[1]
          /\ todo' \in Seq(NodesOf(root))
          /\ \A m \in 1..Len(todo') : m + 1 \in 1..Len(todo) /\ todo'[m] = todo[m + 1]
      BY <1>0, <2>1
    <2>3. \A m \in 1..Len(todo) : \A a \in root.above[todo[m]] : root.kind[a] # rule.container
      BY <2>1 DEF Place
    <2>4. n \in Containers(root)
      <3>1. r \in 1..Len(Rules) /\ root.kind[n] = Rules[r].container
        BY <1>0, <2>1 DEF rule
      <3>2. ContainerKind(root, n)
        BY <3>1 DEF ContainerKind
      <3> HIDE DEF n
      <3>3. QED
        BY <2>1, <2>2, <2>3, <3>2 DEF Containers
    <2> HIDE DEF n
    <2>5. containers' \in Seq(Containers(root))
      BY <1>0, <2>1, <2>4
    <2>6. \A m \in 1..Len(todo') : \A a \in root.above[todo'[m]] : root.kind[a] # rule.container
      BY <2>2, <2>3
    <2>7. rule' = rule
      BY <2>1 DEF rule
    <2>8. QED
      BY <1>0, <2>1, <2>2, <2>5, <2>6, <2>7 DEF Place
  <1>3. CASE FindBelow
    <2> DEFINE n == Head(todo)
               c == root.children[n]
               t == Tail(todo)
    <2>1. /\ root' = root /\ r' = r /\ ci' = ci /\ ip = "find" /\ ip' = "find" /\ todo # << >>
          /\ todo' = c \o t /\ containers' = containers
          /\ root.kind[n] # rule.container
      BY <1>3 DEF FindBelow
    <2>2. /\ n \in NodesOf(root) /\ 1 \in 1..Len(todo) /\ n = todo[1]
          /\ t \in Seq(NodesOf(root))
          /\ \A m \in 1..Len(t) : m + 1 \in 1..Len(todo) /\ t[m] = todo[m + 1]
      BY <1>0, <2>1
    <2> HIDE DEF n, t
    <2>3. \A m \in 1..Len(todo) : \A a \in root.above[todo[m]] : root.kind[a] # rule.container
      BY <2>1 DEF Place
    <2>4. c \in Seq(NodesOf(root)) /\ WellFormed(root)
      BY <1>0, <2>2, RootNodes
    <2>5. ASSUME NEW m \in 1..Len(c)
          PROVE  root.above[c[m]] = {n} \cup root.above[n]
      <3>0. \A q \in NodesOf(root) : \A p \in 1..Len(root.children[q]) :
                root.parent[root.children[q][p]] = q
        BY <2>4 DEF WellFormed, Shape
      <3>1. c[m] \in NodesOf(root) /\ root.parent[c[m]] = n
        <4>1. root.parent[c[m]] = n
          BY <2>2, <3>0
        <4> HIDE DEF c
        <4>2. QED
          BY <2>4, <4>1
      <3>2. c[m] # 1
        <4>1. root.parent[1] = 0 /\ n # 0
          BY <1>0, <2>2, <2>4, RootNodes DEF WellFormed, Shape
        <4> HIDE DEF c
        <4>2. QED
          BY <3>1, <4>1
      <3> HIDE DEF c
      <3>3. QED
        BY <2>4, <3>1, <3>2 DEF WellFormed, Shape
    <2> HIDE DEF c
    <2>6. \A m \in 1..Len(c) : \A a \in root.above[c[m]] : root.kind[a] # rule.container
      BY <2>1, <2>2, <2>3, <2>5
    <2>7. \A m \in 1..Len(t) : \A a \in root.above[t[m]] : root.kind[a] # rule.container
      BY <2>2, <2>3
    <2>8. todo' \in Seq(NodesOf(root)) /\ Consists(todo', c, t)
      BY ONLY <2>1, <2>2, <2>4, Either
    <2>9. \A m \in 1..Len(todo') : \A a \in root.above[todo'[m]] : root.kind[a] # rule.container
      BY <2>6, <2>7, <2>8 DEF Consists
    <2>10. rule' = rule
      BY <2>1 DEF rule
    <2>11. QED
      BY <1>0, <2>1, <2>8, <2>9, <2>10 DEF Place
  <1>4. CASE AllFound
    BY <1>0, <1>4 DEF AllFound, Place
  <1>5. CASE RuleDone
    BY <1>0, <1>5 DEF RuleDone, Place
  <1>6. CASE OpenParser
    <2>1. /\ root' = root /\ r' = r /\ todo' = todo /\ containers' = containers /\ ci' = ci
          /\ ip = "container" /\ ip' = "parser" /\ ci <= Len(containers)
          /\ langName(container) \in DOMAIN rule.grammars
      BY <1>6 DEF OpenParser, ruleVars
    <2>2. rule' = rule /\ container' = container
      BY <2>1 DEF rule, container
    <2>3. \A n : langName(n)' = langName(n)
      BY <2>1, <2>2, SameLangName
    <2>4. (langName(container) \in DOMAIN rule.grammars)'
      BY <2>1, <2>2, <2>3
    <2>5. ci \in 1..Len(containers)
      BY <1>0, <2>1, ElementTypes
    <2>6. QED
      BY <1>0, <2>1, <2>4, <2>5 DEF Place
  <1>7. ASSUME UNCHANGED <<root, r, todo, containers>>,
               ip' \in {"file", "rule", "container", "inject", "splice", "returned"},
               ip' = "container" =>
                   ip \in {"container", "parser", "inject", "splice"} /\ ci' = ci + 1,
               ip' \in {"inject", "splice"} =>
                   ip \in {"parser", "inject", "splice"},
               ip' # "container" => ci' = ci
        PROVE  Place'
    <2>1. ip' \in {"inject", "splice"} => ci \in 1..Len(containers)
      BY <1>7 DEF Place
    <2>2. QED
      BY <1>0, <1>7, <2>1 DEF Place
  <1>8. CASE WalkFile
    BY <1>7, <1>8 DEF WalkFile, ruleVars
  <1>9. CASE FileWalked
    BY <1>7, <1>9 DEF FileWalked, ruleVars
  <1>10. CASE Return
    BY <1>7, <1>10 DEF Return, ruleVars
  <1>11. CASE NotInjected
    BY <1>7, <1>11 DEF NotInjected, Leave
  <1>12. CASE ParseFails
    BY <1>7, <1>12 DEF ParseFails, Leave
  <1>13. CASE Parse
    BY <1>7, <1>13 DEF Parse, ruleVars
  <1>14. CASE WalkInjected
    BY <1>7, <1>14 DEF WalkInjected, ruleVars
  <1>15. CASE NothingCollected
    BY <1>7, <1>15 DEF NothingCollected, Leave
  <1>16. CASE ReplaceAtoms
    BY <1>7, <1>16 DEF ReplaceAtoms, ruleVars
  <1>17. CASE SpliceStep
    BY <1>7, <1>17 DEF SpliceStep, ruleVars
  <1>18. CASE Replaced
    BY <1>7, <1>18 DEF Replaced, Leave
  <1>19. QED
    BY <1>1, <1>2, <1>3, <1>4, <1>5, <1>6, <1>8, <1>9, <1>10, <1>11, <1>12, <1>13, <1>14,
       <1>15, <1>16, <1>17, <1>18 DEF Next

\* What injectContainer has open.
LEMMA HeldStep == OpenWhileRead /\ Next => OpenWhileRead'
  <1> SUFFICES ASSUME OpenWhileRead, Next PROVE OpenWhileRead'
    OBVIOUS
  <1>1. CASE \/ WalkFile \/ FileWalked \/ NextRule \/ FindMatch \/ FindBelow \/ AllFound
             \/ RuleDone \/ Return \/ OpenParser
    BY <1>1 DEF OpenWhileRead, WalkFile, FileWalked, NextRule, FindMatch, FindBelow,
                AllFound, RuleDone, Return, OpenParser
  <1>2. CASE \/ NotInjected \/ ParseFails \/ Parse \/ WalkInjected \/ NothingCollected
             \/ ReplaceAtoms \/ SpliceStep \/ Replaced
    BY <1>2 DEF OpenWhileRead, NotInjected, ParseFails, Parse, WalkInjected,
                NothingCollected, ReplaceAtoms, SpliceStep, Replaced, Leave
  <1>3. QED
    BY <1>1, <1>2 DEF Next

\* The phases keep their own invariants.
LEMMA WalkFrame == Walk!Next => tree' = tree /\ lang' = lang
  BY DEF Walk!Next, Walk!SkipInvalid, Walk!EmitBoundary, Walk!SplitLeaf, Walk!Descend,
         Walk!SplitStep

LEMMA WalkGoesOn == CP!WalkFacts /\ Walk!Next => CP!WalkFacts'
  BY SameWalk, CP!WalkFactsStep, WalkAssumption, SizeAssumption

LEMMA WalkBegins == CP!Fresh => CP!WalkFacts
  BY CP!FreshWalk, WalkAssumption, SizeAssumption

\* replaceAtomsInRange has been called and has not looked at an atom yet.
SpliceReady ==
    /\ given \in Seq(Join!Atom) /\ replacements \in Seq(Join!Atom)
    /\ start \in Nat /\ end \in Nat
    /\ AP!Aligned(given, start, end, replacements)
    /\ j = 1 /\ inserted = FALSE /\ result = << >> /\ rp = "search"

LEMMA SpliceBegins == SpliceReady => AP!ReplaceIInv /\ AP!SpliceInv
  <1> SUFFICES ASSUME SpliceReady PROVE AP!ReplaceIInv /\ AP!SpliceInv
    OBVIOUS
  <1>1. AP!ReplaceIInv
    BY AP!Called, SpliceAssumption, JoinAssumption, SizeAssumption DEF SpliceReady
  <1>2. AP!SpliceInv
    BY DEF SpliceReady, AP!SpliceInv, AP!SplicedIn
  <1>3. QED
    BY <1>1, <1>2

LEMMA SpliceGoesOn ==
    AP!ReplaceIInv /\ AP!SpliceInv /\ Splice!ReplaceNext => AP!ReplaceIInv' /\ AP!SpliceInv'
  BY SameSplice, AP!ReplaceInductive, AP!SpliceStep,
     SpliceAssumption, JoinAssumption, SizeAssumption

\* The calls f are those of e and one for the tree of container c, in language l.
AskedAlso(t, s, e, c, l, f) ==
    /\ f \in Seq(Nat \X Languages)
    /\ EdgesAsked(t, s, e) => EdgesAsked(t, s, f)
    /\ e # << >> => f # << >> /\ f[1] = e[1]
    /\ \E m \in 1..Len(f) : f[m] = <<c, l>>

LEMMA AskedFurther ==
    ASSUME NEW t, NEW s, NEW e \in Seq(Nat \X Languages),
           NEW c \in Nat, NEW l \in Languages, NEW f, f = Append(e, <<c, l>>)
    PROVE  AskedAlso(t, s, e, c, l, f)
  <1>0. <<c, l>> \in Nat \X Languages
    OBVIOUS
  <1> DEFINE y == <<c, l>>
  <1>1. f = Append(e, y) /\ y \in Nat \X Languages
    BY <1>0
  <1> HIDE DEF y
  <1>2. /\ f \in Seq(Nat \X Languages) /\ Len(f) = Len(e) + 1 /\ Len(e) \in Nat
        /\ f[Len(e) + 1] = y
        /\ \A m \in 1..Len(e) : m \in 1..Len(f) /\ f[m] = e[m]
        /\ e # << >> => 1 \in 1..Len(e)
        /\ f # << >>
    BY <1>1
  <1>3. Len(e) + 1 \in 1..Len(f)
    BY <1>2
  <1>4. \E m \in 1..Len(f) : f[m] = y
    BY <1>2, <1>3
  <1>5. ASSUME EdgesAsked(t, s, e) PROVE EdgesAsked(t, s, f)
    <2>1. ASSUME NEW p \in 1..Len(s)
          PROVE  \E m \in 1..Len(f) : /\ f[m][2] = s[p].lang
                                      /\ f[m][1] # 0 => InNode(t, f[m][1], s[p])
      <3>1. PICK m \in 1..Len(e) : /\ e[m][2] = s[p].lang
                                   /\ e[m][1] # 0 => InNode(t, e[m][1], s[p])
        BY <1>5 DEF EdgesAsked
      <3>2. m \in 1..Len(f) /\ f[m] = e[m]
        BY <1>2
      <3>3. QED
        BY <3>1, <3>2
    <2>2. QED
      BY <2>1 DEF EdgesAsked
  <1>6. QED
    BY <1>2, <1>4, <1>5 DEF y, AskedAlso

LEMMA ContainerNode ==
    ASSUME Place, ip \in {"parser", "inject", "splice"}
    PROVE  container \in NodesOf(root) /\ container \in Nat /\ container # 0
  <1>1. container \in NodesOf(root)
    BY AtContainer DEF Containers
  <1>2. container # 0
    BY <1>1, RootNodes DEF Place
  <1>3. QED
    BY <1>1, <1>2, RootNodes DEF NodesOf, Place

\* Steps between a walk and a splice change no atom and ask for no edges.
LEMMA QuietStep ==
    ASSUME SplitInv, UNCHANGED <<root, wantEdges, atoms, edgeTrees, ls>>,
           ip \notin {"file", "inject", "splice"}, ip' \notin {"file", "inject", "splice"}
    PROVE  Walking' /\ Kept' /\ Asked' /\ Splicing'
  BY DEF SplitInv, Walking, Kept, Asked, Splicing

\* The other parts of the invariant, one step of the split phase after the other.
LEMMA WalkFileStep ==
    ASSUME SplitInv, WalkFile
    PROVE  Walking' /\ Kept' /\ Asked' /\ Splicing'
  <1>1. /\ ip = "file" /\ ip' = "file" /\ root' = root /\ edgeTrees' = edgeTrees
        /\ wantEdges' = wantEdges /\ atoms' = atoms /\ Walk!Next
    BY DEF WalkFile
  <1>2. CP!WalkFacts /\ tree = root /\ lang = FileLang
    BY <1>1 DEF SplitInv, Walking
  <1>3. CP!WalkFacts' /\ tree' = root' /\ lang' = FileLang
    BY <1>1, <1>2, WalkFrame, WalkGoesOn
  <1>4. QED
    BY <1>1, <1>3 DEF SplitInv, Walking, Kept, Asked, Splicing

LEMMA FileWalkedStep ==
    ASSUME SplitInv, FileWalked
    PROVE  Walking' /\ Kept' /\ Asked' /\ Splicing'
  <1>1. /\ ip = "file" /\ ip' = "rule" /\ root' = root /\ wantEdges' = wantEdges
        /\ atoms' = collected /\ Walk!Done /\ ls' = ls
        /\ edgeTrees' = IF wantEdges THEN << <<0, FileLang>> >> ELSE << >>
    BY DEF FileWalked, walkVars
  <1>2. CP!WalkFacts /\ tree = root /\ lang = FileLang /\ root \in Roots
    BY <1>1 DEF SplitInv, Walking, Place
  <1>3. /\ FileAtoms(root, collected) /\ OneLanguageEach(root, collected)
        /\ BoundariesKept(root, collected)
    BY <1>1, <1>2, FileWalkedAtoms
  <1>4. Kept'
    BY <1>1, <1>3 DEF Kept
  <1>5. Walking' /\ Splicing'
    BY <1>1 DEF Walking, Splicing, Walk!Done
  <1>6. Asked'
    <2>1. CASE ~ wantEdges
      BY <2>1, <1>1 DEF Asked
    <2>2. CASE wantEdges
      <3> DEFINE e == << <<0, FileLang>> >>
      <3>1. e \in Seq(Nat \X Languages) /\ e # << >> /\ e[1] = <<0, FileLang>> /\ 1 \in 1..Len(e)
        BY TreeAssumption
      <3>2. \A p \in 1..Len(collected) : collected[p].lang = FileLang
        BY <1>2, WalkedAtoms
      <3>3. EdgesAsked(root, collected, e)
        BY <3>1, <3>2 DEF EdgesAsked
      <3>4. edgeTrees' = e
        BY <1>1, <2>2
      <3> HIDE DEF e
      <3>5. QED
        BY <1>1, <2>2, <3>1, <3>3, <3>4 DEF Asked
    <2>3. QED
      BY <2>1, <2>2
  <1>7. QED
    BY <1>4, <1>5, <1>6

LEMMA ParseStep ==
    ASSUME SplitInv, Parse
    PROVE  Walking' /\ Kept' /\ Asked' /\ Splicing'
  <1>1. /\ ip = "parser" /\ ip' = "inject" /\ root' = root /\ wantEdges' = wantEdges
        /\ atoms' = atoms /\ edgeTrees' = edgeTrees /\ ls' = ls
        /\ containers' = containers /\ ci' = ci
        /\ stack' = << 1 >> /\ collected' = << >>
    BY DEF Parse, ruleVars
  <1> DEFINE l == rule.grammars[langName(container)]
  <1>2. PICK c \in Content(container, rule.content) :
            tree' \in Parsed(l, root, c) /\ lang' = l
    BY DEF Parse
  <1>3. /\ root \in Roots /\ container \in NodesOf(root)
        /\ langName(container) \in DOMAIN rule.grammars
        /\ r \in 1..Len(Rules) /\ ls = "idle"
    BY <1>1, ContainerNode DEF SplitInv, Place, Walking
  <1>4. l \in Languages \ {FileLang}
    BY <1>3, RuleAssumption DEF rule
  <1>5. /\ c \in NodesOf(root)
        /\ root.startByte[container] <= root.startByte[c]
        /\ root.endByte[c] <= root.endByte[container]
    <2>1. PICK m \in 1..Len(root.children[container]) : c = root.children[container][m]
      BY <1>2 DEF Content, findChildByKind
    <2>2. root.children[container] \in Seq(NodesOf(root)) /\ WellFormed(root)
      BY <1>3, RootNodes
    <2>3. c \in NodesOf(root)
      BY <2>1, <2>2
    <2>4. ValidNode(root, container) /\ ValidNode(root, c)
      BY <1>3, <2>3, RootNodes
    <2>5. \A n \in NodesOf(root) : \A q \in 1..Len(root.children[n]) :
              ValidNode(root, n) /\ ValidNode(root, root.children[n][q]) =>
                  /\ root.startByte[n] <= root.startByte[root.children[n][q]]
                  /\ root.endByte[root.children[n][q]] <= root.endByte[n]
      BY <2>2 DEF WellFormed, Extents
    <2>6. QED
      BY <1>3, <2>1, <2>3, <2>4, <2>5
  <1> HIDE DEF l
  <1>6. /\ WellFormed(tree') /\ BoundariesHaveText(tree', l)
        /\ ValidNode(tree', 1) => /\ root.startByte[c] <= tree'.startByte[1]
                                  /\ tree'.endByte[1] <= root.endByte[c]
    BY <1>2, <1>3, <1>4, <1>5, TreeAssumption
  <1>7. CP!WalkFacts'
    <2>1. CP!WellFormed(tree')
      BY <1>6, SameShape
    <2>2. CP!Fresh'
      BY <1>1, <1>2, <1>3, <1>4, <2>1 DEF CP!Fresh
    <2>3. QED
      BY <2>2, WalkBegins, PTL
  <1>8. ValidNode(tree', 1) => /\ root.startByte[container] <= tree'.startByte[1]
                               /\ tree'.endByte[1] <= root.endByte[container]
    <2>1. ASSUME ValidNode(tree', 1)
          PROVE  /\ root.startByte[container] <= tree'.startByte[1]
                 /\ tree'.endByte[1] <= root.endByte[container]
      <3>1. 1 \in NodesOf(tree')
        BY <1>6 DEF WellFormed, Shape, NodesOf
      <3>2. tree'.startByte[1] \in Nat /\ tree'.endByte[1] \in Nat
        BY <1>6, <3>1 DEF WellFormed, Extents
      <3>3. /\ root.startByte[c] \in Nat /\ root.endByte[c] \in Nat
            /\ root.startByte[container] \in Nat /\ root.endByte[container] \in Nat
        BY <1>3, <1>5, RootNodes
      <3>4. QED
        BY <1>5, <1>6, <2>1, <3>2, <3>3
    <2>2. QED
      BY <2>1
  <1>9. container' = container
    BY <1>1 DEF container
  <1>10. Walking'
    BY <1>1, <1>2, <1>4, <1>6, <1>7, <1>8, <1>9 DEF Walking
  <1>11. QED
    BY <1>1, <1>10 DEF SplitInv, Kept, Asked, Splicing

LEMMA WalkInjectedStep ==
    ASSUME SplitInv, WalkInjected
    PROVE  Walking' /\ Kept' /\ Asked' /\ Splicing'
  <1>1. /\ ip = "inject" /\ ip' = "inject" /\ root' = root /\ wantEdges' = wantEdges
        /\ atoms' = atoms /\ edgeTrees' = edgeTrees
        /\ containers' = containers /\ ci' = ci /\ Walk!Next
    BY DEF WalkInjected, ruleVars
  <1>2. CP!WalkFacts' /\ tree' = tree /\ lang' = lang
    BY <1>1, WalkFrame, WalkGoesOn DEF SplitInv, Walking
  <1>3. container' = container
    BY <1>1 DEF container
  <1>4. Walking'
    BY <1>1, <1>2, <1>3 DEF SplitInv, Walking
  <1>5. QED
    BY <1>1, <1>4 DEF SplitInv, Kept, Asked, Splicing

\* collectEdges has been called on the tree of the injection.
LEMMA InjectedAsked ==
    ASSUME SplitInv, ip = "inject", EdgesInjected
    PROVE  /\ edgeTrees' \in Seq(Nat \X Languages)
           /\ ~ wantEdges => edgeTrees' = << >>
           /\ wantEdges => /\ edgeTrees' # << >> /\ edgeTrees'[1] = <<0, FileLang>>
                           /\ EdgesAsked(root, atoms, edgeTrees')
                           /\ \E m \in 1..Len(edgeTrees') : edgeTrees'[m] = <<container, lang>>
  <1>1. container \in Nat /\ lang \in Languages
    BY ContainerNode, WalkedAtoms DEF SplitInv, Walking
  <1>2. /\ edgeTrees \in Seq(Nat \X Languages)
        /\ ~ wantEdges => edgeTrees = << >>
        /\ wantEdges => /\ edgeTrees # << >> /\ edgeTrees[1] = <<0, FileLang>>
                        /\ EdgesAsked(root, atoms, edgeTrees)
    BY DEF SplitInv, Asked
  <1>3. CASE wantEdges
    <2>1. edgeTrees' = Append(edgeTrees, <<container, lang>>)
      BY <1>3 DEF EdgesInjected
    <2>2. AskedAlso(root, atoms, edgeTrees, container, lang, edgeTrees')
      BY ONLY <1>1, <1>2, <2>1, AskedFurther
    <2>3. QED
      BY <1>2, <1>3, <2>2 DEF AskedAlso
  <1>4. CASE ~ wantEdges
    BY <1>2, <1>4 DEF EdgesInjected
  <1>5. QED
    BY <1>3, <1>4

LEMMA NothingCollectedStep ==
    ASSUME SplitInv, NothingCollected
    PROVE  Walking' /\ Kept' /\ Asked' /\ Splicing'
  <1>1. /\ ip = "inject" /\ ip' = "container" /\ root' = root /\ wantEdges' = wantEdges
        /\ atoms' = atoms /\ ls' = ls /\ Walk!Done /\ EdgesInjected
    BY DEF NothingCollected, Leave, walkVars
  <1>2. Asked'
    BY <1>1, InjectedAsked DEF Asked
  <1>3. Walking' /\ Splicing'
    BY <1>1 DEF Walking, Splicing, Walk!Done
  <1>4. Kept'
    BY <1>1 DEF SplitInv, Kept
  <1>5. QED
    BY <1>2, <1>3, <1>4

LEMMA ReplaceAtomsStep ==
    ASSUME SplitInv, ReplaceAtoms
    PROVE  Walking' /\ Kept' /\ Asked' /\ Splicing'
  <1>1. /\ ip = "inject" /\ ip' = "splice" /\ root' = root /\ wantEdges' = wantEdges
        /\ atoms' = atoms /\ ls' = ls /\ Walk!Done /\ EdgesInjected /\ collected # << >>
        /\ lang' = lang /\ containers' = containers /\ ci' = ci
        /\ given' = atoms /\ start' = root.startByte[container]
        /\ end' = root.endByte[container] /\ replacements' = collected
        /\ j' = 1 /\ inserted' = FALSE /\ result' = << >> /\ rp' = "search"
    BY DEF ReplaceAtoms, Splice!Call, walkVars, ruleVars
  <1>2. container' = container
    BY <1>1 DEF container
  <1>3. /\ root \in Roots /\ container \in Containers(root) /\ container \in NodesOf(root)
        /\ Geometry(root) /\ FileAtoms(root, atoms) /\ lang \in Languages \ {FileLang}
        /\ Injection(root, container, lang, collected)
    <2>1. Place /\ Walking /\ CP!WalkFacts /\ lang # FileLang
      BY <1>1 DEF SplitInv, Walking
    <2>2. QED
      BY <1>1, <2>1, AtContainer, ContainerNode, RootGeometry, InjectedAtoms, WalkedAtoms
         DEF SplitInv, Kept, Place
  <1>4. SpliceReady'
    <2>1. AP!Aligned(atoms, root.startByte[container], root.endByte[container], collected)
      BY <1>3, AlignedCall
    <2>2. atoms \in Seq(Join!Atom) /\ collected \in Seq(Join!Atom)
      BY <1>3 DEF FileAtoms, Injection
    <2>3. root.startByte[container] \in Nat /\ root.endByte[container] \in Nat
      BY <1>3, RootNodes
    <2>4. AP!Aligned(given', start', end', replacements')
      BY <1>1, <2>1
    <2>5. QED
      BY <1>1, <2>2, <2>3, <2>4 DEF SpliceReady
  <1>5. AP!ReplaceIInv' /\ AP!SpliceInv'
    BY <1>4, SpliceBegins, PTL
  <1>6. Splicing'
    BY <1>1, <1>2, <1>3, <1>5 DEF Splicing
  <1>7. Asked'
    BY <1>1, <1>2, InjectedAsked DEF Asked
  <1>8. Walking' /\ Kept'
    BY <1>1 DEF SplitInv, Walking, Kept, Walk!Done
  <1>9. QED
    BY <1>6, <1>7, <1>8

LEMMA SpliceStepKeeps ==
    ASSUME SplitInv, SpliceStep
    PROVE  Walking' /\ Kept' /\ Asked' /\ Splicing'
  <1>1. /\ ip = "splice" /\ ip' = "splice" /\ root' = root /\ wantEdges' = wantEdges
        /\ atoms' = atoms /\ edgeTrees' = edgeTrees /\ ls' = ls /\ lang' = lang
        /\ containers' = containers /\ ci' = ci /\ Splice!ReplaceNext
    BY DEF SpliceStep, walkVars, ruleVars
  <1>2. container' = container
    BY <1>1 DEF container
  <1>3. /\ given' = given /\ start' = start /\ end' = end /\ replacements' = replacements
    BY <1>1 DEF Splice!ReplaceNext, Splice!SkipOutside, Splice!Match, Splice!NoMatch, Splice!Keep,
                Splice!Insert, Splice!Drop, Splice!Return, Splice!args
  <1>4. AP!ReplaceIInv' /\ AP!SpliceInv'
    BY <1>1, SpliceGoesOn DEF SplitInv, Splicing
  <1>5. Splicing'
    BY <1>1, <1>2, <1>3, <1>4 DEF SplitInv, Splicing
  <1>6. QED
    BY <1>1, <1>2, <1>5 DEF SplitInv, Walking, Kept, Asked

LEMMA ReplacedStep ==
    ASSUME SplitInv, Replaced
    PROVE  Walking' /\ Kept' /\ Asked' /\ Splicing'
  <1>1. /\ ip = "splice" /\ ip' = "container" /\ root' = root /\ wantEdges' = wantEdges
        /\ atoms' = result /\ edgeTrees' = edgeTrees /\ ls' = ls /\ rp = "returned"
    BY DEF Replaced, Leave, walkVars
  <1>2. /\ result \in Seq(Join!Atom) /\ InDocumentOrder(result) /\ NoneOversized(result)
        /\ SpliceOf(root, container, atoms, replacements, result)
    BY <1>1, SpliceResult DEF SplitInv
  <1>3. /\ Geometry(root) /\ container \in Containers(root) /\ lang # FileLang
        /\ FileAtoms(root, atoms) /\ OneLanguageEach(root, atoms) /\ BoundariesKept(root, atoms)
        /\ Injection(root, container, lang, replacements)
    BY <1>1, AtContainer, RootGeometry DEF SplitInv, Place, Kept, Splicing
  <1>4. /\ FileAtoms(root, result)
        /\ OneLanguageEach(root, result)
        /\ BoundariesKept(root, result)
        /\ \A e : EdgesAsked(root, atoms, e) /\ (\E m \in 1..Len(e) : e[m] = <<container, lang>>)
                      => EdgesAsked(root, result, e)
    BY <1>2, <1>3, SpliceKeeps
  <1>5. Kept'
    BY <1>1, <1>4 DEF Kept
  <1>6. Asked'
    BY <1>1, <1>4 DEF SplitInv, Asked
  <1>7. QED
    BY <1>1, <1>5, <1>6 DEF SplitInv, Walking, Splicing

\* The invariant of the split phase is inductive.
LEMMA SplitNext == SplitInv /\ Next => SplitInv'
  <1> SUFFICES ASSUME SplitInv, Next PROVE SplitInv'
    OBVIOUS
  <1>1. Place' /\ OpenWhileRead'
    BY PlaceStep, HeldStep DEF SplitInv
  <1>2. CASE \/ NextRule \/ FindMatch \/ FindBelow \/ AllFound \/ RuleDone \/ Return
             \/ NotInjected \/ OpenParser \/ ParseFails
    <2>1. /\ UNCHANGED <<root, wantEdges, atoms, edgeTrees, ls>>
          /\ ip \notin {"file", "inject", "splice"} /\ ip' \notin {"file", "inject", "splice"}
      BY <1>2 DEF NextRule, FindMatch, FindBelow, AllFound, RuleDone, Return,
                  NotInjected, OpenParser, ParseFails, Leave, walkVars
    <2>2. QED
      BY <1>1, <2>1, QuietStep DEF SplitInv
  <1>3. CASE WalkFile
    BY <1>1, <1>3, WalkFileStep DEF SplitInv
  <1>4. CASE FileWalked
    BY <1>1, <1>4, FileWalkedStep DEF SplitInv
  <1>5. CASE Parse
    BY <1>1, <1>5, ParseStep DEF SplitInv
  <1>6. CASE WalkInjected
    BY <1>1, <1>6, WalkInjectedStep DEF SplitInv
  <1>7. CASE NothingCollected
    BY <1>1, <1>7, NothingCollectedStep DEF SplitInv
  <1>8. CASE ReplaceAtoms
    BY <1>1, <1>8, ReplaceAtomsStep DEF SplitInv
  <1>9. CASE SpliceStep
    BY <1>1, <1>9, SpliceStepKeeps DEF SplitInv
  <1>10. CASE Replaced
    BY <1>1, <1>10, ReplacedStep DEF SplitInv
  <1>11. QED
    BY <1>2, <1>3, <1>4, <1>5, <1>6, <1>7, <1>8, <1>9, <1>10 DEF Next

LEMMA SplitStutter == SplitInv /\ UNCHANGED vars => SplitInv'
  <1> SUFFICES ASSUME SplitInv, UNCHANGED vars PROVE SplitInv'
    OBVIOUS
  <1>1. UNCHANGED <<root, wantEdges, atoms, r, todo, containers, ci, held, edgeTrees, ip>>
    BY DEF vars, ruleVars
  <1>2. UNCHANGED <<tree, lang, stack, collected,
                    leaf, k, lineOffset, chunkStart, chunkStartRow, ls>>
    BY DEF vars, walkVars
  <1>3. UNCHANGED <<given, start, end, replacements, j, inserted, result, rp>>
    BY DEF vars, spliceVars
  <1>4. CP!WalkFacts => CP!WalkFacts'
    <2>1. UNCHANGED CP!vars
      BY <1>2 DEF CP!vars, CP!split
    <2>2. QED
      BY <2>1, CP!WalkFactsStep, WalkAssumption, SizeAssumption
  <1>5. AP!ReplaceIInv /\ AP!SpliceInv => AP!ReplaceIInv' /\ AP!SpliceInv'
    <2>1. UNCHANGED AP!replaceVars
      BY <1>3 DEF AP!replaceVars, AP!args
    <2>2. QED
      BY <2>1, AP!ReplaceInductive, AP!SpliceStep,
         SpliceAssumption, JoinAssumption, SizeAssumption
  <1>6. rule' = rule /\ container' = container
    BY <1>1 DEF rule, container
  <1>7. Walking' /\ Kept' /\ Asked' /\ Splicing' /\ OpenWhileRead'
    BY <1>1, <1>2, <1>3, <1>4, <1>5, <1>6
       DEF SplitInv, Walking, Kept, Asked, Splicing, OpenWhileRead
  <1>8. Place'
    <2>1. Place
      BY DEF SplitInv
    <2>2. \A n : langName(n)' = langName(n)
      BY <1>1, <1>6, SameLangName
    <2>3. ip = "parser" => (langName(container) \in DOMAIN rule.grammars)'
      BY <2>1, <2>2, <1>6 DEF Place
    <2>4. QED
      BY <2>1, <2>3, <1>1, <1>6 DEF Place
  <1>9. QED
    BY <1>7, <1>8 DEF SplitInv

-----------------------------------------------------------------------------
\* The inductive invariant of the whole call.

\* What is open, and how far the phases are.
Control ==
    /\ source \in {"empty", "unknown", "known"}
    /\ ap \in {"called", "parser", "split", "merge", "returned"}
    /\ ap \in {"called", "returned"} => fileHeld = {}
    /\ ap \in {"split", "merge"} => fileHeld = {"parser", "tree"}
    /\ ap \in {"called", "parser"} => ip = "file" /\ edgeTrees = << >>
    /\ ap \in {"parser", "split", "merge"} => source = "known"
    /\ ap # "returned" => err = "none"
    /\ ap = "merge" => ip = "returned"
    /\ ap # "split" => held = {}
    /\ err # "none" => edgeTrees = << >>

\* mergeAtoms has not begun, is at work, or has returned.
Merging ==
    /\ ap \in {"called", "parser", "split"} =>
          i = 2 /\ groupStart = 1 /\ chunks = << >> /\ pc = "start"
    /\ ap = "merge" => AP!IInv /\ AP!ChunkEnds
    /\ ap = "returned" =>
          \/ source # "known" \/ err # "none"
          \/ pc = "done" /\ ip = "returned" /\ AP!IInv /\ AP!ChunkEnds
    /\ ap = "returned" /\ (source # "known" \/ err # "none") => chunks = << >>

AInv == SplitInv /\ Control /\ Merging

-----------------------------------------------------------------------------
LEMMA AnalyzeInitially == AnalyzeInit => AInv
  BY SplitInitially DEF AnalyzeInit, Init, AInv, Control, Merging

\* Every step is one of the split phase or leaves its variables alone.
LEMMA SplitOrNot == [AnalyzeNext]_analyzeVars => SplitStep \/ UNCHANGED vars
  <1>1. ASSUME MergeStep PROVE UNCHANGED vars
    <2>1. Join!Next
      BY <1>1 DEF MergeStep
    <2>2. atoms' = atoms
      BY <2>1 DEF Join!Next, Join!ReturnNil, Join!EnterLoop, Join!CloseGroup,
                  Join!ExtendGroup, Join!CloseLast
    <2>3. QED
      BY <1>1, <2>2 DEF MergeStep, vars
  <1>2. QED
    BY <1>1 DEF AnalyzeNext, EmptySource, Unsupported, OpenFileParser, FileParseFails,
                FileParsed, SplitDone, Merged, analyzeVars

LEMMA SplitInvStep == SplitInv /\ [AnalyzeNext]_analyzeVars => SplitInv'
  <1> SUFFICES ASSUME SplitInv, [AnalyzeNext]_analyzeVars PROVE SplitInv'
    OBVIOUS
  <1>1. CASE SplitStep
    BY <1>1, SplitNext DEF SplitStep
  <1>2. CASE UNCHANGED vars
    BY <1>2, SplitStutter
  <1>3. QED
    BY <1>1, <1>2, SplitOrNot

LEMMA JoinGoesOn ==
    AP!IInv /\ AP!ChunkEnds /\ [Join!Next]_AP!vars => AP!IInv' /\ AP!ChunkEnds'
  <1>1. [Join!Next]_AP!vars => [AP!Next]_AP!vars
    BY SameJoin
  <1>2. QED
    BY <1>1, AP!Inductive, AP!ChunkEndsStep, SpliceAssumption, JoinAssumption, SizeAssumption

\* mergeAtoms is called on the atoms of the split phase.
LEMMA JoinBegins ==
    ASSUME SplitInv, ip = "returned",
           i = 2, groupStart = 1, chunks = << >>, pc = "start"
    PROVE  AP!IInv /\ AP!ChunkEnds
  <1>1. FileAtoms(root, atoms)
    BY DEF SplitInv, Kept
  <1>2. atoms \in Seq(AP!Atom)
    <2>1. AP!Atom = Join!Atom
      BY DEF AP!Atom, Join!Atom
    <2>2. QED
      BY <1>1, <2>1 DEF FileAtoms
  <1>3. AP!InputOK
    BY <1>1 DEF FileAtoms, AP!InputOK, InDocumentOrder, NoneOversized,
                AP!InDocumentOrder, AP!NoneOversized
  <1>4. AP!IInv
    BY <1>2, <1>3, AP!Entering, SpliceAssumption, JoinAssumption, SizeAssumption
  <1>5. AP!ChunkEnds
    BY DEF AP!ChunkEnds
  <1>6. QED
    BY <1>4, <1>5

\* The two other parts of the invariant.
LEMMA ControlStep == AInv /\ [AnalyzeNext]_analyzeVars => Control'
  <1> SUFFICES ASSUME AInv, [AnalyzeNext]_analyzeVars PROVE Control'
    OBVIOUS
  <1>1. Control /\ OpenWhileRead
    BY DEF AInv, SplitInv
  <1>2. CASE \/ EmptySource \/ Unsupported \/ OpenFileParser \/ FileParseFails \/ FileParsed
             \/ Merged
    BY <1>1, <1>2 DEF Control, EmptySource, Unsupported, OpenFileParser, FileParseFails,
                      FileParsed, Merged, Leaving, vars
  <1>3. CASE SplitStep
    BY <1>1, <1>3 DEF Control, SplitStep
  <1>4. CASE SplitDone
    BY <1>1, <1>4 DEF Control, OpenWhileRead, SplitDone, vars
  <1>5. CASE MergeStep
    BY <1>1, <1>5 DEF Control, MergeStep
  <1>6. CASE UNCHANGED analyzeVars
    BY <1>1, <1>6 DEF Control, analyzeVars, vars
  <1>7. QED
    BY <1>2, <1>3, <1>4, <1>5, <1>6 DEF AnalyzeNext

LEMMA MergingStep == AInv /\ [AnalyzeNext]_analyzeVars => Merging'
  <1> SUFFICES ASSUME AInv, [AnalyzeNext]_analyzeVars PROVE Merging'
    OBVIOUS
  <1>1. Control /\ Merging /\ SplitInv
    BY DEF AInv
  <1>2. CASE EmptySource \/ Unsupported \/ FileParseFails
    BY <1>1, <1>2 DEF Control, Merging, EmptySource, Unsupported, FileParseFails,
                      Leaving, mergeVars
  <1>3. CASE OpenFileParser \/ FileParsed \/ SplitStep
    BY <1>1, <1>3 DEF Control, Merging, OpenFileParser, FileParsed, SplitStep, mergeVars
  <1>4. CASE SplitDone
    <2>1. /\ ap = "split" /\ ap' = "merge" /\ ip = "returned"
          /\ UNCHANGED <<atoms, i, groupStart, chunks, pc>>
      BY <1>4 DEF SplitDone, mergeVars, vars
    <2>2. AP!IInv /\ AP!ChunkEnds
      BY <1>1, <2>1, JoinBegins DEF Merging
    <2>3. AP!IInv' /\ AP!ChunkEnds'
      BY <2>1, <2>2, JoinGoesOn DEF AP!vars
    <2>4. QED
      BY <2>1, <2>3 DEF Merging
  <1>5. CASE MergeStep
    <2>1. ap = "merge" /\ ap' = "merge" /\ Join!Next
      BY <1>5 DEF MergeStep
    <2>2. QED
      BY <1>1, <2>1, JoinGoesOn DEF Merging
  <1>6. CASE Merged
    <2>1. /\ ap = "merge" /\ ap' = "returned" /\ pc = "done" /\ err' = "none"
          /\ UNCHANGED <<atoms, ip, source, i, groupStart, chunks, pc>>
      BY <1>6 DEF Merged, Leaving, mergeVars, vars
    <2>2. AP!IInv' /\ AP!ChunkEnds'
      BY <1>1, <2>1, JoinGoesOn DEF Merging, AP!vars
    <2>3. QED
      BY <1>1, <2>1, <2>2 DEF Control, Merging
  <1>7. CASE UNCHANGED analyzeVars
    <2>1. UNCHANGED <<atoms, ip, ap, source, err, i, groupStart, chunks, pc>>
      BY <1>7 DEF analyzeVars, mergeVars, vars
    <2>2. AP!IInv /\ AP!ChunkEnds => AP!IInv' /\ AP!ChunkEnds'
      BY <2>1, JoinGoesOn DEF AP!vars
    <2>3. QED
      BY <1>1, <2>1, <2>2 DEF Merging
  <1>8. QED
    BY <1>2, <1>3, <1>4, <1>5, <1>6, <1>7 DEF AnalyzeNext

\* The inductive invariant holds in every state of a call.
THEOREM Invariance == AnalyzeSpec => []AInv
  <1>1. AInv /\ [AnalyzeNext]_analyzeVars => AInv'
    BY SplitInvStep, ControlStep, MergingStep DEF AInv
  <1>2. QED
    BY <1>1, AnalyzeInitially, PTL DEF AnalyzeSpec

\* applyInjections calls replaceAtomsInRange on sorted atoms, none of which cuts
\* across the container, and with replacements in the container's range.
THEOREM CallsAligned == AnalyzeSpec => []CalledAligned
  <1>1. AInv => CalledAligned
    <2>1. ASSUME SplitInv, ip = "splice" PROVE Splice!Aligned(given, start, end, replacements)
      <3>1. AP!Aligned(given, start, end, replacements)
        BY <2>1 DEF SplitInv, Splicing, AP!ReplaceIInv
      <3>2. QED
        BY <3>1 DEF AP!Aligned, Splice!Aligned, AP!InDocumentOrder, Splice!InDocumentOrder,
                    AP!NoneOversized, Splice!NoneOversized
    <2>2. QED
      BY <2>1 DEF AInv, CalledAligned
  <1>2. QED
    BY <1>1, Invariance, PTL

\* After injectContainer a container has the atoms of the injected grammar or
\* those of the file's, never some of each.
THEOREM NeverMixed == AnalyzeSpec => []NoMixture
  <1>1. AInv => NoMixture
    <2> SUFFICES ASSUME AInv PROVE NoMixture
      OBVIOUS
    <2>1. SplitInv /\ Place
      BY DEF AInv, SplitInv
    <2>2. \A m \in 1..Len(containers) : containers[m] \in Containers(root)
      BY <2>1 DEF Place
    <2>3. CASE ip # "file"
      <3>1. OneLanguageEach(root, atoms)
        BY <2>1, <2>3 DEF SplitInv, Kept
      <3>2. QED
        BY <2>2, <3>1 DEF NoMixture, OneLanguageEach, Within, InNode
    <2>4. CASE ip = "file"
      <3>1. atoms = << >>
        BY <2>1, <2>4 DEF SplitInv, Kept
      <3>2. QED
        BY <3>1 DEF NoMixture
    <2>5. QED
      BY <2>3, <2>4
  <1>2. QED
    BY <1>1, Invariance, PTL

\* collectEdges has been called on every tree that an atom comes from, on the
\* file's before the others, if Analyze was called, and on none otherwise.
THEOREM EdgesOfAll == AnalyzeSpec => []EdgesOfEveryTree
  <1>1. AInv => EdgesOfEveryTree
    BY DEF AInv, SplitInv, Asked, EdgesAsked, EdgesOfEveryTree, Within, InNode
  <1>2. QED
    BY <1>1, Invariance, PTL

\* mergeAtoms is at work or done, or there are no chunks.
LEMMA ChunksAre == AInv => chunks = << >> \/ (AP!IInv /\ AP!ChunkEnds /\ ip = "returned")
  BY DEF AInv, Control, Merging

\* The chunks that analyze builds are within MaxChunkSize, in document order,
\* without common bytes, and inside the file.
THEOREM SoundChunks == AnalyzeSpec => []ChunksSound
  <1>1. AInv => ChunksSound
    <2> SUFFICES ASSUME AInv PROVE ChunksSound
      OBVIOUS
    <2>1. CASE chunks = << >>
      BY <2>1 DEF ChunksSound, ChunkIndex
    <2>2. CASE AP!IInv /\ AP!ChunkEnds /\ ip = "returned"
      <3>1. /\ \A m \in 1..Len(chunks) : chunks[m].endByte - chunks[m].startByte <= MaxChunkSize
            /\ \A m, p \in 1..Len(chunks) :
                  m < p => chunks[m].endByte <= chunks[p].startByte
        BY <2>2 DEF AP!IInv, AP!ChunksWithinMax, AP!ChunksDisjoint
      <3>2. FileAtoms(root, atoms)
        BY <2>2 DEF AInv, SplitInv, Kept
      <3>3. ASSUME NEW m \in 1..Len(chunks)
            PROVE  /\ root.startByte[1] <= chunks[m].startByte
                   /\ chunks[m].endByte <= root.endByte[1]
        <4>1. \E g, l \in 1..Len(atoms) : /\ chunks[m].startByte = atoms[g].startByte
                                          /\ chunks[m].endByte = atoms[l].endByte
          BY <2>2 DEF AP!ChunkEnds
        <4>2. QED
          BY <3>2, <4>1 DEF FileAtoms, InNode
      <3>4. QED
        BY <3>1, <3>3 DEF ChunksSound, ChunkIndex
    <2>3. QED
      BY <2>1, <2>2, ChunksAre
  <1>2. QED
    BY <1>1, Invariance, PTL

\* From the tree of the file to the chunks that are returned, no outermost
\* boundary is lost, except where a part of an injection stands for it.
THEOREM NoBoundaryLost == AnalyzeSpec => []BoundariesInChunks
  <1>1. AInv => BoundariesInChunks
    <2> SUFFICES ASSUME AInv, ap = "returned", source = "known", err = "none",
                        NEW n \in NodesOf(root), FileBoundary(n)
                 PROVE  \/ \E m \in ChunkIndex :
                              /\ chunks[m].language = FileLang
                              /\ chunks[m].startByte <= root.startByte[n]
                              /\ root.endByte[n] <= chunks[m].endByte
                        \/ \E c \in NodesOf(root), p \in 1..Len(atoms), m \in ChunkIndex :
                              /\ \E q \in 1..Len(Rules) : root.kind[c] = Rules[q].container
                              /\ root.startByte[c] <= root.startByte[n]
                              /\ root.endByte[n] <= root.endByte[c]
                              /\ Within(atoms[p], c)
                              /\ atoms[p].lang # FileLang
                              /\ InChunk(atoms[p], chunks[m])
      BY DEF BoundariesInChunks
    <2>1. pc = "done" /\ AP!IInv /\ ip = "returned"
      BY DEF AInv, Merging
    <2>2. \A p \in 1..Len(atoms) : \E m \in ChunkIndex : InChunk(atoms[p], chunks[m])
      BY <2>1 DEF AP!IInv, AP!EveryAtomInItsChunk, AP!Merged, InChunk, ChunkIndex
    <2>3. BoundaryKept(root, atoms, n)
      <3>1. BoundariesKept(root, atoms)
        BY <2>1 DEF AInv, SplitInv, Kept
      <3>2. Outer(root, n)
        BY DEF FileBoundary, Outer, Fitting
      <3>3. QED
        BY <3>1, <3>2 DEF BoundariesKept
    <2>4. CASE \E p \in 1..Len(atoms) :
                  /\ atoms[p].lang = FileLang
                  /\ atoms[p].startByte = root.startByte[n]
                  /\ atoms[p].endByte = root.endByte[n]
      <3>1. PICK p \in 1..Len(atoms) :
                  /\ atoms[p].lang = FileLang
                  /\ atoms[p].startByte = root.startByte[n]
                  /\ atoms[p].endByte = root.endByte[n]
        BY <2>4
      <3>2. PICK m \in ChunkIndex : InChunk(atoms[p], chunks[m])
        BY <2>2
      <3>3. QED
        BY <3>1, <3>2 DEF InChunk
    <2>5. CASE \E c \in Containers(root), p \in 1..Len(atoms) :
                  /\ root.startByte[c] <= root.startByte[n] /\ root.endByte[n] <= root.endByte[c]
                  /\ InNode(root, c, atoms[p])
                  /\ atoms[p].lang # FileLang
      BY <2>2, <2>5 DEF Containers, ContainerKind, InNode, Within
    <2>6. QED
      BY <2>3, <2>4, <2>5 DEF BoundaryKept
  <1>2. QED
    BY <1>1, Invariance, PTL

\* On every way through analyze and injectContainer, failures included, trees are
\* open while they are read and closed afterwards, and an error comes alone.
THEOREM ClosedAfterwards == AnalyzeSpec => []TreesOpenWhileRead
  <1>1. AInv => TreesOpenWhileRead
    BY DEF AInv, SplitInv, Control, Merging, TreesOpenWhileRead
  <1>2. QED
    BY <1>1, Invariance, PTL
=============================================================================
