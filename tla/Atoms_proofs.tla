---------------------------- MODULE Atoms_proofs -----------------------------
(***************************************************************************)
(* What is proved of the two functions that make a sequence of atoms into  *)
(* another.                                                                *)
(*                                                                         *)
(* mergeAtoms keeps its promises for every threshold, every set of         *)
(* languages and every set of atom sequences that meets AtomAssumption.    *)
(*                                                                         *)
(* The result of replaceAtomsInRange, for atoms of any number and size, is *)
(* in document order and without overlap, provided the caller keeps        *)
(* CallAssumption.                                                         *)
(***************************************************************************)
EXTENDS Merge, Replace, TLAPS

\* Before the loop nothing is closed; in it, the open group is not empty, ends
\* just before atom i, and no atom of it broke it.
LoopState ==
    /\ pc = "start" => i = 2 /\ groupStart = 1 /\ chunks = << >>
    /\ pc = "loop" =>
        /\ i \in 2..Len(atoms) + 1
        /\ groupStart \in 1..i - 1
        /\ \A p \in groupStart + 1..i - 1 : ~ Breaks(atoms, groupStart, p)

\* While the loop runs, what is closed lies before the open group.
ClosedBeforeOpen ==
    pc = "loop" =>
        \A k \in 1..Len(chunks) : chunks[k].endByte <= atoms[groupStart].startByte

InputOK == InDocumentOrder(atoms) /\ NoneOversized(atoms)

IInv ==
    /\ TypeOK
    /\ InputOK
    /\ LoopState
    /\ ClosedBeforeOpen
    /\ ChunksWithinMax
    /\ ChunksDisjoint
    /\ EveryAtomInItsChunk

-----------------------------------------------------------------------------
LEMMA AtomFields ==
    \A a \in Atom : /\ a.startByte \in Nat /\ a.endByte \in Nat
                    /\ a.isTopLevel \in BOOLEAN /\ a.lang \in Languages
  BY DEF Atom

\* The group that CloseGroup and CloseLast turn into a chunk ends at atom
\* i - 1.  It is well-formed, fits in a chunk and holds one language only.
LEMMA OpenGroup ==
    ASSUME TypeOK, InputOK, LoopState, pc = "loop"
    PROVE  /\ groupStart \in 1..Len(atoms)
           /\ i - 1 \in groupStart..Len(atoms)
           /\ Chunk(atoms, groupStart, i - 1) \in ChunkRecord
           /\ atoms[i - 1].endByte - atoms[groupStart].startByte <= MaxChunkSize
           /\ \A p \in groupStart..i - 1 :
                  /\ atoms[groupStart].startByte <= atoms[p].startByte
                  /\ atoms[p].endByte <= atoms[i - 1].endByte
                  /\ atoms[p].lang = atoms[groupStart].lang
  <1>1. /\ groupStart \in 1..Len(atoms)
        /\ i - 1 \in groupStart..Len(atoms)
        /\ Len(atoms) \in Nat
        /\ \A p \in 1..Len(atoms) : atoms[p] \in Atom
    BY DEF TypeOK, LoopState
  <1>2. Chunk(atoms, groupStart, i - 1) \in ChunkRecord
    BY <1>1, AtomFields DEF Chunk, ChunkRecord
  <1>3. atoms[i - 1].endByte - atoms[groupStart].startByte <= MaxChunkSize
    <2>1. CASE groupStart = i - 1
      BY <1>1, <2>1 DEF InputOK, NoneOversized
    <2>2. CASE groupStart # i - 1
      <3>1. ~ Breaks(atoms, groupStart, i - 1)
        BY <1>1, <2>2 DEF LoopState
      <3>2. QED
        BY <1>1, <3>1, SizeAssumption, AtomFields DEF Breaks
    <2>3. QED
      BY <2>1, <2>2
  <1>4. ASSUME NEW p \in groupStart..i - 1
        PROVE  /\ atoms[groupStart].startByte <= atoms[p].startByte
               /\ atoms[p].endByte <= atoms[i - 1].endByte
               /\ atoms[p].lang = atoms[groupStart].lang
    <2>1. /\ p \in 1..Len(atoms)
          /\ atoms[p] \in Atom
          /\ atoms[groupStart] \in Atom
          /\ atoms[i - 1] \in Atom
      BY <1>1
    <2>2. atoms[groupStart].startByte <= atoms[p].startByte
      BY <1>1, <2>1, AtomFields DEF InputOK, InDocumentOrder
    <2>3. atoms[p].endByte <= atoms[i - 1].endByte
      BY <1>1, <2>1, AtomFields DEF InputOK, InDocumentOrder
    <2>4. atoms[p].lang = atoms[groupStart].lang
      <3>1. CASE p = groupStart
        BY <3>1
      <3>2. CASE p # groupStart
        <4>1. p \in groupStart + 1..i - 1
          BY <1>1, <3>2
        <4>2. ~ Breaks(atoms, groupStart, p)
          BY <4>1 DEF LoopState
        <4>3. QED
          BY <4>2 DEF Breaks
      <3>3. QED
        BY <3>1, <3>2
    <2>5. QED
      BY <2>2, <2>3, <2>4
  <1>5. QED
    BY <1>1, <1>2, <1>3, <1>4

\* Closing the open group keeps every promise about the chunks, and the atoms
\* up to i - 1 are then all in one of them.
LEMMA Closing ==
    ASSUME IInv, pc = "loop",
           atoms' = atoms,
           chunks' = Append(chunks, Chunk(atoms, groupStart, i - 1))
    PROVE  /\ chunks' \in Seq(ChunkRecord)
           /\ ChunksWithinMax'
           /\ ChunksDisjoint'
           /\ \A k \in 1..Len(chunks') : chunks'[k].endByte <= atoms[i - 1].endByte
           /\ \A p \in 1..i - 1 : \E k \in 1..Len(chunks') :
                  /\ chunks'[k].startByte <= atoms[p].startByte
                  /\ atoms[p].endByte <= chunks'[k].endByte
                  /\ chunks'[k].language = atoms[p].lang
  <1> DEFINE new == Chunk(atoms, groupStart, i - 1)
             last == Len(chunks) + 1
  <1>1. /\ TypeOK /\ InputOK /\ LoopState
        /\ chunks \in Seq(ChunkRecord) /\ Len(chunks) \in Nat
    BY DEF IInv, TypeOK
  <1>2. /\ groupStart \in 1..Len(atoms)
        /\ i - 1 \in groupStart..Len(atoms)
        /\ new \in ChunkRecord
        /\ atoms[i - 1].endByte - atoms[groupStart].startByte <= MaxChunkSize
        /\ \A p \in groupStart..i - 1 :
               /\ atoms[groupStart].startByte <= atoms[p].startByte
               /\ atoms[p].endByte <= atoms[i - 1].endByte
               /\ atoms[p].lang = atoms[groupStart].lang
    BY <1>1, OpenGroup
  <1>3. /\ chunks' \in Seq(ChunkRecord)
        /\ Len(chunks') = last
        /\ chunks'[last] = new
        /\ \A k \in 1..Len(chunks) : chunks'[k] = chunks[k]
        /\ \A k \in 1..last : k = last \/ k \in 1..Len(chunks)
    BY <1>1, <1>2
  <1>4. /\ new.startByte = atoms[groupStart].startByte
        /\ new.endByte = atoms[i - 1].endByte
        /\ new.language = atoms[groupStart].lang
    BY DEF Chunk
  <1>5. /\ atoms[groupStart] \in Atom
        /\ atoms[i - 1] \in Atom
        /\ atoms[groupStart].startByte <= atoms[i - 1].endByte
    <2>1. /\ atoms[groupStart] \in Atom
          /\ atoms[i - 1] \in Atom
      BY <1>1, <1>2 DEF TypeOK
    <2>2. atoms[groupStart].startByte <= atoms[i - 1].startByte
      BY <1>2
    <2>3. atoms[i - 1].startByte <= atoms[i - 1].endByte
      BY <1>1, <1>2 DEF InputOK, InDocumentOrder
    <2>4. QED
      BY <2>1, <2>2, <2>3, AtomFields
  <1>6. ChunksWithinMax'
    <2>1. ChunksWithinMax
      BY DEF IInv
    <2>2. QED
      BY <1>2, <1>3, <1>4, <2>1 DEF ChunksWithinMax
  <1>7. ASSUME NEW k \in 1..Len(chunks)
        PROVE  /\ chunks[k].endByte <= new.startByte
               /\ chunks[k].endByte <= new.endByte
    <2>1. chunks[k].endByte <= atoms[groupStart].startByte
      BY DEF IInv, ClosedBeforeOpen
    <2>2. chunks[k] \in ChunkRecord
      BY <1>1
    <2>3. QED
      BY <1>4, <1>5, <2>1, <2>2, AtomFields DEF ChunkRecord
  <1>8. ChunksDisjoint'
    <2>1. ChunksDisjoint
      BY DEF IInv
    <2>2. SUFFICES ASSUME NEW p \in 1..last, NEW k \in 1..last, p < k
                   PROVE  chunks'[p].endByte <= chunks'[k].startByte
      BY <1>3 DEF ChunksDisjoint
    <2>3. p \in 1..Len(chunks)
      BY <1>1, <2>2
    <2>4. CASE k = last
      BY <1>3, <1>7, <2>3, <2>4
    <2>5. CASE k \in 1..Len(chunks)
      BY <1>3, <2>1, <2>2, <2>3, <2>5 DEF ChunksDisjoint
    <2>6. QED
      BY <1>3, <2>4, <2>5
  <1>9. ASSUME NEW k \in 1..Len(chunks')
        PROVE  chunks'[k].endByte <= atoms[i - 1].endByte
    <2>1. CASE k = last
      BY <1>3, <1>4, <1>5, <2>1, AtomFields
    <2>2. CASE k \in 1..Len(chunks)
      BY <1>3, <1>4, <1>7, <2>2
    <2>3. QED
      BY <1>3, <2>1, <2>2
  <1>10. ASSUME NEW p \in 1..i - 1
         PROVE  \E k \in 1..Len(chunks') :
                    /\ chunks'[k].startByte <= atoms[p].startByte
                    /\ atoms[p].endByte <= chunks'[k].endByte
                    /\ chunks'[k].language = atoms[p].lang
    <2>1. CASE p \in groupStart..i - 1
      <3>1. last \in 1..Len(chunks')
        BY <1>1, <1>3
      <3>2. QED
        BY <1>2, <1>3, <1>4, <2>1, <3>1
    <2>2. CASE p \in 1..groupStart - 1
      <3>1. EveryAtomInItsChunk /\ pc # "done"
        BY DEF IInv
      <3>2. PICK k \in 1..Len(chunks) :
                /\ chunks[k].startByte <= atoms[p].startByte
                /\ atoms[p].endByte <= chunks[k].endByte
                /\ chunks[k].language = atoms[p].lang
        BY <2>2, <3>1 DEF EveryAtomInItsChunk, Merged
      <3>3. k \in 1..Len(chunks') /\ chunks'[k] = chunks[k]
        BY <1>1, <1>3
      <3>4. QED
        BY <3>2, <3>3
    <2>3. i \in Nat /\ groupStart \in Nat
      BY <1>1 DEF TypeOK
    <2>4. p \in groupStart..i - 1 \/ p \in 1..groupStart - 1
      BY <2>3
    <2>5. QED
      BY <2>1, <2>2, <2>4
  <1>11. QED
    BY <1>3, <1>6, <1>8, <1>9, <1>10

-----------------------------------------------------------------------------
\* mergeAtoms before its first step, on atoms that meet the contract.
LEMMA Entering ==
    ASSUME atoms \in Seq(Atom), InputOK,
           i = 2, groupStart = 1, chunks = << >>, pc = "start"
    PROVE  IInv
  <1>1. TypeOK /\ LoopState /\ ClosedBeforeOpen
    BY DEF TypeOK, LoopState, ClosedBeforeOpen
  <1>2. ChunksWithinMax /\ ChunksDisjoint /\ EveryAtomInItsChunk
    BY DEF ChunksWithinMax, ChunksDisjoint, EveryAtomInItsChunk, Merged
  <1>3. QED
    BY <1>1, <1>2 DEF IInv

LEMMA Initially == Init => IInv
  BY Entering, AtomAssumption DEF Init, InputOK

LEMMA Inductive == IInv /\ [Next]_vars => IInv'
  <1>1. SUFFICES ASSUME IInv, [Next]_vars PROVE IInv'
    OBVIOUS
  <1>2. TypeOK /\ InputOK /\ LoopState /\ ClosedBeforeOpen
    BY <1>1 DEF IInv
  <1>3. CASE ReturnNil
    BY <1>1, <1>2, <1>3
       DEF ReturnNil, IInv, TypeOK, InputOK, InDocumentOrder, NoneOversized,
           LoopState, ClosedBeforeOpen, ChunksWithinMax, ChunksDisjoint,
           EveryAtomInItsChunk, Merged
  <1>4. CASE EnterLoop
    <2>1. InputOK' /\ ChunksWithinMax' /\ ChunksDisjoint' /\ EveryAtomInItsChunk'
      BY <1>1, <1>4 DEF EnterLoop, IInv, InputOK, InDocumentOrder, NoneOversized,
            ChunksWithinMax, ChunksDisjoint, EveryAtomInItsChunk, Merged
    <2>2. TypeOK'
      BY <1>2, <1>4 DEF EnterLoop, TypeOK
    <2>3. LoopState' /\ ClosedBeforeOpen'
      <3>1. i = 2 /\ groupStart = 1 /\ chunks = << >> /\ Len(atoms) \in Nat \ {0}
        BY <1>2, <1>4 DEF EnterLoop, LoopState, TypeOK
      <3>2. QED
        BY <1>4, <3>1 DEF EnterLoop, LoopState, ClosedBeforeOpen
    <2>4. QED
      BY <2>1, <2>2, <2>3 DEF IInv
  <1>5. CASE CloseGroup
    <2>1. /\ pc = "loop" /\ atoms' = atoms /\ pc' = pc
          /\ i <= Len(atoms) /\ i' = i + 1 /\ groupStart' = i
          /\ chunks' = Append(chunks, Chunk(atoms, groupStart, i - 1))
      BY <1>5 DEF CloseGroup
    <2>2. /\ chunks' \in Seq(ChunkRecord)
          /\ ChunksWithinMax'
          /\ ChunksDisjoint'
          /\ \A k \in 1..Len(chunks') : chunks'[k].endByte <= atoms[i - 1].endByte
          /\ \A p \in 1..i - 1 : \E k \in 1..Len(chunks') :
                /\ chunks'[k].startByte <= atoms[p].startByte
                /\ atoms[p].endByte <= chunks'[k].endByte
                /\ chunks'[k].language = atoms[p].lang
      BY <1>1, <2>1, Closing
    <2>3. /\ i \in 2..Len(atoms)
          /\ Len(atoms) \in Nat
          /\ i - 1 \in 1..Len(atoms)
      BY <1>2, <2>1 DEF TypeOK, LoopState
    <2>4. TypeOK' /\ InputOK'
      BY <1>2, <2>1, <2>2, <2>3 DEF TypeOK, InputOK, InDocumentOrder, NoneOversized
    <2>5. LoopState'
      BY <2>1, <2>3 DEF LoopState
    <2>6. ClosedBeforeOpen'
      <3>1. SUFFICES ASSUME NEW k \in 1..Len(chunks')
                     PROVE  chunks'[k].endByte <= atoms[i].startByte
        BY <2>1 DEF ClosedBeforeOpen
      <3>2. chunks'[k] \in ChunkRecord /\ atoms[i - 1] \in Atom /\ atoms[i] \in Atom
        BY <1>2, <2>2, <2>3 DEF TypeOK
      <3>3. chunks'[k].endByte <= atoms[i - 1].endByte
        BY <2>2
      <3>4. atoms[i - 1].endByte <= atoms[i].startByte
        BY <1>2, <2>3 DEF InputOK, InDocumentOrder
      <3>5. QED
        BY <3>2, <3>3, <3>4, AtomFields DEF ChunkRecord
    <2>7. EveryAtomInItsChunk'
      BY <2>1, <2>2 DEF EveryAtomInItsChunk, Merged
    <2>8. QED
      BY <2>2, <2>4, <2>5, <2>6, <2>7 DEF IInv
  <1>6. CASE ExtendGroup
    <2>1. /\ pc = "loop" /\ atoms' = atoms /\ chunks' = chunks /\ pc' = pc
          /\ groupStart' = groupStart /\ i <= Len(atoms) /\ i' = i + 1
          /\ ~ Breaks(atoms, groupStart, i)
      BY <1>6 DEF ExtendGroup
    <2>2. /\ TypeOK' /\ InputOK' /\ ClosedBeforeOpen'
          /\ ChunksWithinMax' /\ ChunksDisjoint' /\ EveryAtomInItsChunk'
      BY <1>1, <2>1 DEF IInv, TypeOK, InputOK, InDocumentOrder, NoneOversized,
            ClosedBeforeOpen, ChunksWithinMax, ChunksDisjoint,
            EveryAtomInItsChunk, Merged
    <2>3. LoopState'
      <3>1. /\ i \in 2..Len(atoms) /\ groupStart \in 1..i - 1
            /\ Len(atoms) \in Nat
            /\ \A p \in groupStart + 1..i - 1 : ~ Breaks(atoms, groupStart, p)
        BY <1>2, <2>1 DEF LoopState, TypeOK
      <3>2. \A p \in groupStart + 1..i' - 1 : ~ Breaks(atoms, groupStart, p)
        <4>1. \A p \in groupStart + 1..i' - 1 : p = i \/ p \in groupStart + 1..i - 1
          BY <2>1, <3>1
        <4>2. QED
          BY <2>1, <3>1, <4>1
      <3>3. i' \in 2..Len(atoms) + 1 /\ groupStart \in 1..i' - 1
        BY <2>1, <3>1
      <3>4. QED
        BY <2>1, <3>2, <3>3 DEF LoopState, Breaks
    <2>4. QED
      BY <2>2, <2>3 DEF IInv
  <1>7. CASE CloseLast
    <2>1. /\ pc = "loop" /\ atoms' = atoms /\ pc' = "done"
          /\ i > Len(atoms) /\ i' = i /\ groupStart' = groupStart
      BY <1>7 DEF CloseLast
    <2>2. i - 1 = Len(atoms) /\ i \in Nat
      BY <1>2, <2>1 DEF LoopState, TypeOK
    <2>3. chunks' = Append(chunks, Chunk(atoms, groupStart, i - 1))
      BY <1>7, <2>2 DEF CloseLast
    <2>4. /\ chunks' \in Seq(ChunkRecord)
          /\ ChunksWithinMax'
          /\ ChunksDisjoint'
          /\ \A p \in 1..i - 1 : \E k \in 1..Len(chunks') :
                /\ chunks'[k].startByte <= atoms[p].startByte
                /\ atoms[p].endByte <= chunks'[k].endByte
                /\ chunks'[k].language = atoms[p].lang
      BY <1>1, <2>1, <2>3, Closing
    <2>5. TypeOK' /\ InputOK' /\ LoopState' /\ ClosedBeforeOpen'
      BY <1>2, <2>1, <2>4 DEF TypeOK, InputOK, InDocumentOrder, NoneOversized,
            LoopState, ClosedBeforeOpen
    <2>6. EveryAtomInItsChunk'
      BY <2>1, <2>2, <2>4 DEF EveryAtomInItsChunk, Merged
    <2>7. QED
      BY <2>4, <2>5, <2>6 DEF IInv
  <1>8. CASE UNCHANGED vars
    BY <1>1, <1>8
       DEF vars, IInv, TypeOK, InputOK, InDocumentOrder, NoneOversized, LoopState,
           ClosedBeforeOpen, ChunksWithinMax, ChunksDisjoint,
           EveryAtomInItsChunk, Merged, Breaks
  <1>9. QED
    BY <1>1, <1>3, <1>4, <1>5, <1>6, <1>7, <1>8 DEF Next

THEOREM Invariance == Spec => []IInv
  <1>1. QED
    BY Initially, Inductive, PTL DEF Spec

\* mergeAtoms never leaves the types its variables are declared with.
THEOREM TypeCorrect == Spec => []TypeOK
  <1>1. IInv => TypeOK
    BY DEF IInv
  <1>2. QED
    BY <1>1, Invariance, PTL

\* No chunk exceeds MaxChunkSize, whatever text lies between the merged atoms.
THEOREM ChunkSize == Spec => []ChunksWithinMax
  <1>1. IInv => ChunksWithinMax
    BY DEF IInv
  <1>2. QED
    BY <1>1, Invariance, PTL

\* The chunks of a file are in document order and do not overlap.
THEOREM ChunkOrder == Spec => []ChunksDisjoint
  <1>1. IInv => ChunksDisjoint
    BY DEF IInv
  <1>2. QED
    BY <1>1, Invariance, PTL

\* Merging loses no atom and changes the language of none.
THEOREM NoAtomLost == Spec => []EveryAtomInItsChunk
  <1>1. IInv => EveryAtomInItsChunk
    BY DEF IInv
  <1>2. QED
    BY <1>1, Invariance, PTL

-----------------------------------------------------------------------------
\* Closing the group at atom l is what Grouping does in one step.
LEMMA ClosingEmits ==
    ASSUME IInv, pc = "loop", NEW l, l = i - 1,
           l < Len(atoms) => Breaks(atoms, groupStart, l + 1),
           atoms' = atoms,
           chunks' = Append(chunks, Chunk(atoms, groupStart, l)),
           (IF pc' = "done" THEN Len(atoms') + 1 ELSE groupStart') = l + 1
    PROVE  Abstract!EmitChunk
  <1>1. /\ i \in 2..Len(atoms) + 1
        /\ groupStart \in 1..i - 1
        /\ Len(atoms) \in Nat
        /\ \A p \in groupStart + 1..i - 1 : ~ Breaks(atoms, groupStart, p)
    BY DEF IInv, TypeOK, LoopState
  <1>2. l \in groupStart..Len(atoms)
    BY <1>1
  <1>3. Abstract!MaximalRun(groupStart, l)
    BY <1>1 DEF Abstract!MaximalRun, Abstract!Breaks, Breaks
  <1>4. Abstract!Chunk(atoms, groupStart, l) = Chunk(atoms, groupStart, l)
    BY DEF Abstract!Chunk, Chunk
  <1>5. QED
    BY <1>2, <1>3, <1>4 DEF Abstract!EmitChunk

\* The single pass of mergeAtoms computes the partition into longest runs.
THEOREM Refinement == Spec => ImplementsGrouping
  <1>1. Init => Abstract!Init
    BY DEF Init, Abstract!Init
  <1>2. IInv /\ [Next]_vars
            => [Abstract!EmitChunk]_<<atoms, IF pc = "done" THEN Len(atoms) + 1
                                             ELSE groupStart, chunks>>
    <2>1. SUFFICES ASSUME IInv, [Next]_vars
                   PROVE  \/ Abstract!EmitChunk
                          \/ UNCHANGED <<atoms, IF pc = "done" THEN Len(atoms) + 1
                                                ELSE groupStart, chunks>>
      OBVIOUS
    <2>2. CASE ReturnNil
      BY <2>1, <2>2 DEF ReturnNil, IInv, LoopState
    <2>3. CASE EnterLoop
      BY <2>3 DEF EnterLoop
    <2>4. CASE CloseGroup
      <3>1. i \in Nat
        BY <2>1 DEF IInv, TypeOK
      <3>2. QED
        BY <2>1, <2>4, <3>1, ClosingEmits DEF CloseGroup
    <2>5. CASE ExtendGroup
      BY <2>5 DEF ExtendGroup
    <2>6. CASE CloseLast
      <3>1. i - 1 = Len(atoms)
        BY <2>1, <2>6 DEF CloseLast, IInv, TypeOK, LoopState
      <3>2. QED
        BY <2>1, <2>6, <3>1, ClosingEmits DEF CloseLast
    <2>7. CASE UNCHANGED vars
      BY <2>7 DEF vars
    <2>8. QED
      BY <2>1, <2>2, <2>3, <2>4, <2>5, <2>6, <2>7 DEF Next
  <1>3. QED
    BY <1>1, <1>2, Invariance, PTL DEF Spec, ImplementsGrouping, Abstract!Spec

-----------------------------------------------------------------------------
\* Atom p could not have joined chunk c.
Forces(p, c) ==
    \/ atoms[p].lang # c.language
    \/ atoms[p].endByte - c.startByte > MaxChunkSize

Small(c) == c.endByte - c.startByte < MinChunkSize

\* A small chunk was closed by the atom that opened the group after it.
SmallClosedByNext ==
    pc = "loop" /\ chunks # << >> /\ Small(chunks[Len(chunks)])
        => Forces(groupStart, chunks[Len(chunks)])

HairInv == HairlineOnlyWhenForced /\ SmallClosedByNext

\* The chunk closed next is the first, or comes after one whose successor starts
\* with the open group.
LEMMA ClosingKeepsForced ==
    ASSUME IInv, HairInv, pc = "loop", atoms' = atoms,
           NEW l, chunks' = Append(chunks, Chunk(atoms, groupStart, l))
    PROVE  HairlineOnlyWhenForced'
  <1> DEFINE new == Chunk(atoms, groupStart, l)
             last == Len(chunks) + 1
  <1>1. chunks \in Seq(ChunkRecord) /\ TypeOK /\ LoopState
    BY DEF IInv, TypeOK
  <1>2. new.startByte = atoms[groupStart].startByte
    BY DEF Chunk
  <1>3. groupStart \in 1..Len(atoms)
    BY <1>1 DEF TypeOK, LoopState
  <1> HIDE DEF new
  <1>4. /\ Len(chunks) \in Nat /\ Len(chunks') = last /\ chunks'[last] = new
        /\ \A k \in 1..Len(chunks) : chunks'[k] = chunks[k]
    BY <1>1 DEF new
  <1> SUFFICES ASSUME NEW k \in 1..last - 1, Small(chunks'[k])
               PROVE  \E p \in 1..Len(atoms) :
                         /\ atoms[p].startByte = chunks'[k + 1].startByte
                         /\ Forces(p, chunks'[k])
    BY <1>4 DEF HairlineOnlyWhenForced, Small, Forces
  <1>5. k \in 1..Len(chunks) /\ chunks'[k] = chunks[k]
    BY <1>4
  <1>6. CASE k = Len(chunks)
    <2>1. Forces(groupStart, chunks[k])
      BY <1>4, <1>5, <1>6 DEF HairInv, SmallClosedByNext
    <2> QED
      BY <1>2, <1>3, <1>4, <1>5, <1>6, <2>1
  <1>7. CASE k \in 1..Len(chunks) - 1
    <2>1. k + 1 \in 1..Len(chunks)
      BY <1>4, <1>7
    <2>2. chunks'[k + 1] = chunks[k + 1]
      BY <1>4, <2>1
    <2> QED
      BY <1>5, <1>7, <2>2 DEF HairInv, HairlineOnlyWhenForced, Small, Forces
  <1> QED
    BY <1>4, <1>5, <1>6, <1>7

LEMMA HairStep == IInv /\ HairInv /\ [Next]_vars => HairInv'
  <1> SUFFICES ASSUME IInv, HairInv, [Next]_vars PROVE HairInv'
    OBVIOUS
  <1>1. TypeOK /\ LoopState /\ chunks \in Seq(ChunkRecord)
    BY DEF IInv, TypeOK
  <1>2. CASE ReturnNil \/ ExtendGroup \/ UNCHANGED vars
    BY <1>2 DEF ReturnNil, ExtendGroup, vars, HairInv, HairlineOnlyWhenForced,
                SmallClosedByNext, Small, Forces
  <1>3. CASE EnterLoop
    <2>1. chunks' = << >>
      BY <1>1, <1>3 DEF EnterLoop, LoopState
    <2> QED
      BY <2>1 DEF HairInv, HairlineOnlyWhenForced, SmallClosedByNext
  <1>4. CASE CloseGroup
    <2> DEFINE new == Chunk(atoms, groupStart, i - 1)
    <2>1. /\ pc = "loop" /\ atoms' = atoms /\ Breaks(atoms, groupStart, i)
          /\ groupStart' = i /\ chunks' = Append(chunks, new)
      BY <1>4 DEF CloseGroup
    <2>2. /\ new.startByte = atoms[groupStart].startByte
          /\ new.endByte = atoms[i - 1].endByte
          /\ new.language = atoms[groupStart].lang
      BY DEF Chunk
    <2>3. chunks'[Len(chunks')] = new
      BY <1>1, <2>1
    <2>4. Small(new) => Forces(i, new)
      <3>1. i \in 2..Len(atoms) /\ groupStart \in 1..i - 1 /\ Len(atoms) \in Nat
        BY <1>1, <1>4 DEF CloseGroup, LoopState, TypeOK
      <3>2. atoms[i - 1] \in Atom /\ atoms[groupStart] \in Atom
        BY <1>1, <3>1 DEF TypeOK
      <3>3. atoms[i - 1].endByte \in Nat /\ atoms[groupStart].startByte \in Nat
        BY <3>2, AtomFields
      <3> HIDE DEF new
      <3> QED
        BY <2>1, <2>2, <3>3, SizeAssumption DEF Breaks, Small, Forces
    <2>5. HairlineOnlyWhenForced'
      BY <2>1, ClosingKeepsForced
    <2> HIDE DEF new
    <2> QED
      BY <2>1, <2>3, <2>4, <2>5 DEF HairInv, SmallClosedByNext, Small, Forces
  <1>5. CASE CloseLast
    <2>1. HairlineOnlyWhenForced'
      BY <1>5, ClosingKeepsForced DEF CloseLast
    <2> QED
      BY <1>5, <2>1 DEF CloseLast, HairInv, SmallClosedByNext
  <1> QED
    BY <1>2, <1>3, <1>4, <1>5 DEF Next

\* A chunk smaller than MinChunkSize, other than the last, is followed by an atom
\* of another language or one that would not fit, whatever the two thresholds.
THEOREM HairlinesForced == Spec => []HairlineOnlyWhenForced
  <1>1. Init => HairInv
    BY DEF Init, HairInv, HairlineOnlyWhenForced, SmallClosedByNext
  <1>2. HairInv => HairlineOnlyWhenForced
    BY DEF HairInv
  <1> QED
    BY <1>1, <1>2, HairStep, Invariance, PTL DEF Spec

-----------------------------------------------------------------------------
\* A chunk begins where an atom begins and ends where one ends.
ChunkEnds ==
    \A k \in 1..Len(chunks) : \E g, l \in 1..Len(atoms) :
        chunks[k].startByte = atoms[g].startByte /\ chunks[k].endByte = atoms[l].endByte

LEMMA ChunkEndsStep == IInv /\ ChunkEnds /\ [Next]_vars => ChunkEnds'
  <1> SUFFICES ASSUME IInv, ChunkEnds, [Next]_vars PROVE ChunkEnds'
    OBVIOUS
  <1>1. TypeOK /\ InputOK /\ LoopState /\ chunks \in Seq(ChunkRecord)
    BY DEF IInv, TypeOK
  <1>2. ASSUME NEW g \in 1..Len(atoms), NEW l \in 1..Len(atoms),
               chunks' = Append(chunks, Chunk(atoms, g, l)), atoms' = atoms
        PROVE  ChunkEnds'
    <2> DEFINE new == Chunk(atoms, g, l)
    <2>1. new.startByte = atoms[g].startByte /\ new.endByte = atoms[l].endByte
      BY DEF Chunk
    <2> HIDE DEF new
    <2>2. /\ chunks'[Len(chunks) + 1] = new
          /\ \A k \in 1..Len(chunks') : k = Len(chunks) + 1 \/ k \in 1..Len(chunks)
          /\ \A k \in 1..Len(chunks) : chunks'[k] = chunks[k]
      BY <1>1, <1>2 DEF new
    <2> QED
      BY <1>2, <2>1, <2>2 DEF ChunkEnds
  <1>3. CASE CloseGroup
    <2>1. groupStart \in 1..Len(atoms) /\ i - 1 \in 1..Len(atoms)
      BY <1>1, <1>3 DEF CloseGroup, LoopState, TypeOK
    <2> QED
      BY <1>2, <1>3, <2>1 DEF CloseGroup
  <1>4. CASE CloseLast
    <2>1. groupStart \in 1..Len(atoms) /\ Len(atoms) \in 1..Len(atoms)
      BY <1>1, <1>4 DEF CloseLast, LoopState, TypeOK
    <2> QED
      BY <1>2, <1>4, <2>1 DEF CloseLast
  <1>5. CASE ReturnNil \/ EnterLoop \/ ExtendGroup \/ UNCHANGED vars
    BY <1>5 DEF ReturnNil, EnterLoop, ExtendGroup, vars, ChunkEnds
  <1> QED
    BY <1>3, <1>4, <1>5 DEF Next

-----------------------------------------------------------------------------
(***************************************************************************)
(* replaceAtomsInRange.                                                    *)
(***************************************************************************)
\* Where the atoms of the result come from: they are atoms passed by that lie
\* outside the range or, once inserted, end in the range.
ResultFrom ==
    \A p \in 1..Len(result) :
        \/ \E k \in 1..j - 1 : result[p] = given[k] /\ ~ InRange(given[k])
        \/ inserted /\ result[p].endByte <= end

\* The replacements are in once an atom in the range has been passed by.
InsertedAtMatch == inserted <=> \E k \in 1..j - 1 : InRange(given[k])

ReplaceIInv ==
    /\ ReplaceTypeOK
    /\ Aligned(given, start, end, replacements)
    /\ ResultInOrder
    /\ rp = "search" => result = << >> /\ ~ inserted
    /\ rp = "copy" => ResultFrom /\ InsertedAtMatch

-----------------------------------------------------------------------------
\* The alignment of the parameters, spelled out for atoms that the loop knows to
\* be in the range or not.
LEMMA Alignment ==
    ASSUME ReplaceTypeOK, Aligned(given, start, end, replacements)
    PROVE  /\ start \in Nat /\ end \in Nat
           /\ InDocumentOrder(given) /\ NoneOversized(given)
           /\ InDocumentOrder(replacements) /\ NoneOversized(replacements)
           /\ \A k \in 1..Len(given) :
                 /\ given[k] \in AnyAtom
                 /\ given[k].startByte \in Nat /\ given[k].endByte \in Nat
           /\ \A k \in 1..Len(replacements) :
                 /\ replacements[k] \in AnyAtom
                 /\ replacements[k].startByte \in Nat /\ replacements[k].endByte \in Nat
                 /\ start <= replacements[k].startByte /\ replacements[k].endByte <= end
           /\ \A k, m \in 1..Len(given) :
                 InRange(given[k]) /\ ~ InRange(given[m]) =>
                     given[m].endByte <= start \/ end <= given[m].startByte
  <1>1. /\ \A k \in 1..Len(given) : given[k] \in AnyAtom
        /\ \A k \in 1..Len(replacements) : replacements[k] \in AnyAtom
        /\ start \in Nat /\ end \in Nat
    BY DEF ReplaceTypeOK
  <1>2. \A a \in AnyAtom : a.startByte \in Nat /\ a.endByte \in Nat
    BY CallAssumption
  <1>3. QED
    BY <1>1, <1>2 DEF Aligned, InRange

\* An atom kept after a match starts behind the range; one kept before it ends
\* before the range.
LEMMA AroundTheRange ==
    ASSUME ReplaceTypeOK, Aligned(given, start, end, replacements),
           NEW k \in 1..Len(given), NEW m \in 1..Len(given), k < m
    PROVE  /\ given[k].endByte <= given[m].startByte
           /\ InRange(given[k]) /\ ~ InRange(given[m]) => end <= given[m].startByte
           /\ ~ InRange(given[k]) /\ InRange(given[m]) => given[k].endByte <= start
  <1>1. /\ start \in Nat /\ end \in Nat
        /\ given[k].startByte \in Nat /\ given[k].endByte \in Nat
        /\ given[m].startByte \in Nat /\ given[m].endByte \in Nat
    BY Alignment
  <1>2. /\ given[k].startByte <= given[k].endByte
        /\ given[m].startByte <= given[m].endByte
        /\ given[k].endByte <= given[m].startByte
    BY Alignment DEF InDocumentOrder
  <1>3. ASSUME InRange(given[k]), ~ InRange(given[m]) PROVE end <= given[m].startByte
    <2>1. given[m].endByte <= start \/ end <= given[m].startByte
      BY <1>3, Alignment
    <2>2. QED
      BY <1>1, <1>2, <1>3, <2>1 DEF InRange
  <1>4. ASSUME ~ InRange(given[k]), InRange(given[m]) PROVE given[k].endByte <= start
    <2>1. given[k].endByte <= start \/ end <= given[k].startByte
      BY <1>4, Alignment
    <2>2. QED
      BY <1>1, <1>2, <1>4, <2>1 DEF InRange
  <1>5. QED
    BY <1>2, <1>3, <1>4

\* All of t lies behind s.
Behind(s, t) ==
    \A k \in 1..Len(s), m \in 1..Len(t) : s[k].endByte <= t[m].startByte

\* Two ordered sequences of atoms, one behind the other.
LEMMA Joining ==
    ASSUME NEW s \in Seq(AnyAtom), NEW t \in Seq(AnyAtom),
           InDocumentOrder(s), NoneOversized(s), InDocumentOrder(t), NoneOversized(t),
           Behind(s, t)
    PROVE  /\ s \o t \in Seq(AnyAtom)
           /\ InDocumentOrder(s \o t) /\ NoneOversized(s \o t)
           /\ \A p \in 1..Len(s \o t) : \/ \E k \in 1..Len(s) : (s \o t)[p] = s[k]
                                        \/ \E k \in 1..Len(t) : (s \o t)[p] = t[k]
  <1> DEFINE u == s \o t
             fromS(p) == p \in 1..Len(s) /\ u[p] = s[p]
             fromT(p) == p - Len(s) \in 1..Len(t) /\ u[p] = t[p - Len(s)]
  <1>1. /\ u \in Seq(AnyAtom)
        /\ Len(s) \in Nat /\ Len(t) \in Nat
        /\ \A p \in 1..Len(u) : p \in Nat /\ (fromS(p) \/ fromT(p))
    OBVIOUS
  <1> HIDE DEF u
  <1>2. ASSUME NEW p \in 1..Len(u)
        PROVE  /\ u[p].startByte <= u[p].endByte
               /\ u[p].endByte - u[p].startByte <= MaxChunkSize
               /\ \/ \E k \in 1..Len(s) : u[p] = s[k]
                  \/ \E k \in 1..Len(t) : u[p] = t[k]
    BY <1>1, <1>2 DEF InDocumentOrder, NoneOversized
  <1>3. ASSUME NEW p \in 1..Len(u), NEW m \in 1..Len(u), p < m
        PROVE  u[p].endByte <= u[m].startByte
    <2>1. CASE fromS(p) /\ fromS(m)
      BY <1>3, <2>1 DEF InDocumentOrder
    <2>2. CASE fromS(p) /\ fromT(m)
      BY <2>2 DEF Behind
    <2>3. CASE fromT(p) /\ fromT(m)
      <3>1. p - Len(s) < m - Len(s)
        BY <1>1, <1>3
      <3>2. QED
        BY <2>3, <3>1 DEF InDocumentOrder
    <2>4. ~ (fromT(p) /\ fromS(m))
      BY <1>1, <1>3
    <2>5. QED
      BY <1>1, <2>1, <2>2, <2>3, <2>4
  <1>4. InDocumentOrder(u) /\ NoneOversized(u)
    BY <1>1, <1>2, <1>3 DEF InDocumentOrder, NoneOversized
  <1>5. QED
    BY <1>1, <1>2, <1>4 DEF u

-----------------------------------------------------------------------------
\* replaceAtomsInRange before its first step, called as CallAssumption asks.
LEMMA Called ==
    ASSUME given \in Seq(AnyAtom), replacements \in Seq(AnyAtom), start \in Nat, end \in Nat,
           Aligned(given, start, end, replacements),
           j = 1, inserted = FALSE, result = << >>, rp = "search"
    PROVE  ReplaceIInv
  <1>1. ReplaceTypeOK
    <2>1. j \in 1..Len(given) + 1 /\ result \in Seq(AnyAtom)
      OBVIOUS
    <2>2. inserted \in BOOLEAN
      OBVIOUS
    <2>3. QED
      BY <2>1, <2>2 DEF ReplaceTypeOK
  <1>2. ResultInOrder
    BY DEF ResultInOrder, InDocumentOrder, NoneOversized
  <1>3. QED
    BY <1>1, <1>2 DEF ReplaceIInv

LEMMA ReplaceInitially == ReplaceInit => ReplaceIInv
  BY Called, CallAssumption DEF ReplaceInit

LEMMA ReplaceInductive == ReplaceIInv /\ [ReplaceNext]_replaceVars => ReplaceIInv'
  <1> SUFFICES ASSUME ReplaceIInv, [ReplaceNext]_replaceVars PROVE ReplaceIInv'
    OBVIOUS
  <1>1. /\ ReplaceTypeOK /\ Aligned(given, start, end, replacements) /\ ResultInOrder
        /\ Len(given) \in Nat /\ j \in 1..Len(given) + 1
        /\ result \in Seq(AnyAtom)
    BY DEF ReplaceIInv, ReplaceTypeOK
  <1>2. CASE SkipOutside
    BY <1>1, <1>2 DEF SkipOutside, args, ReplaceIInv, ReplaceTypeOK, ResultInOrder
  <1>3. CASE Match
    <2>1. j' = 1 /\ rp' = "copy" /\ result = << >> /\ ~ inserted
          /\ UNCHANGED <<given, start, end, replacements, inserted, result>>
      BY <1>3 DEF Match, args, ReplaceIInv
    <2>2. ResultFrom' /\ InsertedAtMatch'
      BY <2>1 DEF ResultFrom, InsertedAtMatch
    <2>3. ReplaceTypeOK' /\ ResultInOrder'
      BY <1>1, <2>1 DEF ReplaceTypeOK, ResultInOrder
    <2>4. QED
      BY <1>1, <2>1, <2>2, <2>3 DEF ReplaceIInv
  <1>4. CASE NoMatch
    <2>1. /\ result' = given /\ rp' = "returned"
          /\ UNCHANGED <<given, start, end, replacements, j, inserted>>
      BY <1>4 DEF NoMatch, args
    <2>2. ReplaceTypeOK' /\ ResultInOrder'
      BY <1>1, <2>1, Alignment DEF ReplaceTypeOK, ResultInOrder
    <2>3. QED
      BY <1>1, <2>1, <2>2 DEF ReplaceIInv
  <1>5. CASE Keep
    <2> DEFINE x == given[j]
               t == << x >>
    <2>1. /\ rp = "copy" /\ j \in 1..Len(given) /\ ~ InRange(x)
          /\ result' = Append(result, x) /\ j' = j + 1
          /\ UNCHANGED <<given, start, end, replacements, inserted, rp>>
          /\ ResultFrom /\ InsertedAtMatch
      BY <1>1, <1>5 DEF Keep, args, ReplaceIInv
    <2>2. \A p \in 1..Len(result) : result[p].endByte <= x.startByte
      <3>1. SUFFICES ASSUME NEW p \in 1..Len(result)
                     PROVE  result[p].endByte <= x.startByte
        OBVIOUS
      <3>2. CASE \E k \in 1..j - 1 : result[p] = given[k] /\ ~ InRange(given[k])
        BY <1>1, <2>1, <3>2, AroundTheRange
      <3>3. CASE inserted /\ result[p].endByte <= end
        <4>1. PICK k \in 1..j - 1 : InRange(given[k])
          BY <2>1, <3>3 DEF InsertedAtMatch
        <4>2. end <= x.startByte
          <5>1. k \in 1..Len(given) /\ k < j /\ j \in 1..Len(given)
            BY <1>1, <2>1 DEF ReplaceTypeOK
          <5>2. InRange(given[k]) /\ ~ InRange(given[j]) => end <= given[j].startByte
            BY <1>1, <5>1, AroundTheRange
          <5> QED
            BY <2>1, <4>1, <5>2
        <4>3. /\ end \in Nat /\ x.startByte \in Nat /\ result[p].endByte \in Nat
          BY <1>1, <2>1, Alignment, CallAssumption
        <4>4. QED
          BY <3>3, <4>2, <4>3
      <3>4. QED
        BY <2>1, <3>2, <3>3 DEF ResultFrom
    <2>3. /\ t \in Seq(AnyAtom) /\ Len(t) = 1 /\ t[1] = x
          /\ InDocumentOrder(t) /\ NoneOversized(t)
      <3>1. /\ x \in AnyAtom /\ x.startByte <= x.endByte
            /\ x.endByte - x.startByte <= MaxChunkSize
        BY <1>1, <2>1, Alignment DEF InDocumentOrder, NoneOversized
      <3>2. QED
        BY <3>1 DEF InDocumentOrder, NoneOversized
    <2>4. result' = result \o t
      BY <1>1, <2>1
    <2>5. /\ result' \in Seq(AnyAtom)
          /\ InDocumentOrder(result') /\ NoneOversized(result')
          /\ \A p \in 1..Len(result') : \/ \E k \in 1..Len(result) : result'[p] = result[k]
                                        \/ \E k \in 1..Len(t) : result'[p] = t[k]
      <3>1. InDocumentOrder(result) /\ NoneOversized(result)
        BY <1>1 DEF ResultInOrder
      <3> HIDE DEF t, x
      <3>2. Behind(result, t)
        BY <2>2, <2>3 DEF Behind
      <3>3. QED
        BY <1>1, <2>3, <2>4, <3>1, <3>2, Joining
    <2>6. ResultFrom'
      <3>1. SUFFICES ASSUME NEW p \in 1..Len(result')
                     PROVE  \/ \E k \in 1..j : /\ result'[p] = given[k]
                                               /\ ~ InRange(given[k])
                            \/ inserted /\ result'[p].endByte <= end
        BY <1>1, <2>1 DEF ResultFrom, InRange
      <3>2. CASE \E k \in 1..Len(result) : result'[p] = result[k]
        BY <1>1, <2>1, <3>2 DEF ResultFrom
      <3>3. CASE result'[p] = x
        BY <1>1, <2>1, <3>3
      <3>4. QED
        BY <2>3, <2>5, <3>2, <3>3
    <2>7. InsertedAtMatch'
      <3>1. \A k \in 1..j : k = j \/ k \in 1..j - 1
        BY <1>1
      <3>2. QED
        BY <1>1, <2>1, <3>1 DEF InsertedAtMatch, InRange
    <2>8. ReplaceTypeOK' /\ ResultInOrder'
      BY <1>1, <2>1, <2>5 DEF ReplaceTypeOK, ResultInOrder
    <2>9. QED
      BY <1>1, <2>1, <2>6, <2>7, <2>8 DEF ReplaceIInv
  <1>6. CASE Insert
    <2>1. /\ rp = "copy" /\ j \in 1..Len(given) /\ InRange(given[j])
          /\ ~ inserted /\ inserted' = TRUE
          /\ result' = result \o replacements /\ j' = j + 1
          /\ UNCHANGED <<given, start, end, replacements, rp>>
          /\ ResultFrom /\ InsertedAtMatch
      BY <1>1, <1>6 DEF Insert, args, ReplaceIInv
    <2>2. ASSUME NEW p \in 1..Len(result), NEW m \in 1..Len(replacements)
          PROVE  result[p].endByte <= replacements[m].startByte
      <3>1. PICK k \in 1..j - 1 : result[p] = given[k] /\ ~ InRange(given[k])
        BY <2>1 DEF ResultFrom
      <3>2. given[k].endByte <= start
        BY <1>1, <2>1, <3>1, AroundTheRange
      <3>3. /\ start \in Nat /\ start <= replacements[m].startByte
            /\ replacements[m].startByte \in Nat
            /\ given[k].endByte \in Nat
        BY <1>1, <3>1, Alignment
      <3>4. QED
        BY <3>1, <3>2, <3>3
    <2>3. /\ result' \in Seq(AnyAtom)
          /\ InDocumentOrder(result') /\ NoneOversized(result')
          /\ \A p \in 1..Len(result') :
                \/ \E k \in 1..Len(result) : result'[p] = result[k]
                \/ \E k \in 1..Len(replacements) : result'[p] = replacements[k]
      <3>1. InDocumentOrder(result) /\ NoneOversized(result)
        BY <1>1 DEF ResultInOrder
      <3>2. /\ replacements \in Seq(AnyAtom)
            /\ InDocumentOrder(replacements) /\ NoneOversized(replacements)
        BY <1>1, Alignment DEF ReplaceTypeOK
      <3>3. Behind(result, replacements)
        BY <2>2 DEF Behind
      <3>4. QED
        BY <1>1, <2>1, <3>1, <3>2, <3>3, Joining
    <2>4. ResultFrom'
      <3>1. SUFFICES ASSUME NEW p \in 1..Len(result')
                     PROVE  \/ \E k \in 1..j : /\ result'[p] = given[k]
                                               /\ ~ InRange(given[k])
                            \/ result'[p].endByte <= end
        <4>1. \A a : InRange(a)' <=> InRange(a)
          BY <2>1 DEF InRange
        <4>2. j' - 1 = j /\ given' = given /\ end' = end /\ inserted'
          BY <1>1, <2>1
        <4>3. QED
          BY <4>1, <4>2 DEF ResultFrom, InRange
      <3>2. CASE \E k \in 1..Len(result) : result'[p] = result[k]
        BY <1>1, <2>1, <3>2 DEF ResultFrom
      <3>3. CASE \E k \in 1..Len(replacements) : result'[p] = replacements[k]
        BY <1>1, <3>3, Alignment
      <3>4. QED
        BY <2>3, <3>2, <3>3
    <2>5. InsertedAtMatch'
      BY <1>1, <2>1 DEF InsertedAtMatch, InRange
    <2>6. ReplaceTypeOK' /\ ResultInOrder'
      BY <1>1, <2>1, <2>3 DEF ReplaceTypeOK, ResultInOrder
    <2>7. QED
      BY <1>1, <2>1, <2>4, <2>5, <2>6 DEF ReplaceIInv
  <1>7. CASE Drop
    <2>1. /\ rp = "copy" /\ j \in 1..Len(given) /\ InRange(given[j]) /\ inserted
          /\ j' = j + 1
          /\ UNCHANGED <<given, start, end, replacements, inserted, result, rp>>
          /\ ResultFrom
      BY <1>1, <1>7 DEF Drop, args, ReplaceIInv
    <2>2. ResultFrom'
      BY <1>1, <2>1 DEF ResultFrom, InRange
    <2>3. InsertedAtMatch'
      BY <1>1, <2>1 DEF InsertedAtMatch, InRange
    <2>4. ReplaceTypeOK' /\ ResultInOrder'
      BY <1>1, <2>1 DEF ReplaceTypeOK, ResultInOrder
    <2>5. QED
      BY <1>1, <2>1, <2>2, <2>3, <2>4 DEF ReplaceIInv
  <1>8. CASE Return
    BY <1>1, <1>8 DEF Return, args, ReplaceIInv, ReplaceTypeOK, ResultInOrder
  <1>9. CASE UNCHANGED replaceVars
    BY <1>1, <1>9 DEF replaceVars, args, ReplaceIInv, ReplaceTypeOK, ResultInOrder, ResultFrom,
          InsertedAtMatch, InRange
  <1>10. QED
    BY <1>2, <1>3, <1>4, <1>5, <1>6, <1>7, <1>8, <1>9 DEF ReplaceNext

-----------------------------------------------------------------------------
THEOREM ReplaceInvariance == ReplaceSpec => []ReplaceIInv
  BY ReplaceInitially, ReplaceInductive, PTL DEF ReplaceSpec

\* Every variable keeps its type.
THEOREM ReplaceTypeCorrect == ReplaceSpec => []ReplaceTypeOK
  <1>1. ReplaceIInv => ReplaceTypeOK
    BY DEF ReplaceIInv
  <1>2. QED
    BY <1>1, ReplaceInvariance, PTL

\* The result of replaceAtomsInRange, and every part of it, is in document order
\* and holds no oversized atom.
THEOREM InOrder == ReplaceSpec => []ResultInOrder
  <1>1. ReplaceIInv => ResultInOrder
    BY DEF ReplaceIInv
  <1>2. QED
    BY <1>1, ReplaceInvariance, PTL

-----------------------------------------------------------------------------
(***************************************************************************)
(* Which atoms are returned.                                               *)
(***************************************************************************)

\* The atoms a .. b of the parameter, none if b is a - 1.
Given(a, b) == SubSeq(given, a, b)

\* The replacements in the place of the atoms first .. last, as far as atom n.
Spliced(first, last, n) == Given(1, first - 1) \o replacements \o Given(last + 1, n)

\* What the copying loop has built: the atoms passed by, if none of them is in
\* the range, else the splice of them.
CopySoFar ==
    \/ /\ ~ inserted
       /\ \A k \in 1..j - 1 : ~ InRange(given[k])
       /\ result = Given(1, j - 1)
    \/ /\ inserted
       /\ \E first, last \in 1..j - 1 :
             /\ \A k \in 1..j - 1 : InRange(given[k]) <=> k \in first..last
             /\ first <= last
             /\ result = Spliced(first, last, j - 1)

SpliceInv ==
    /\ rp = "search" => \A k \in 1..j - 1 : ~ InRange(given[k])
    /\ rp = "copy" => CopySoFar
    /\ SplicedIn

LEMMA GivenParts ==
    ASSUME given \in Seq(AnyAtom)
    PROVE  /\ \A a \in 1..Len(given) + 1, b \in 0..Len(given) : Given(a, b) \in Seq(AnyAtom)
           /\ \A a \in 1..Len(given) + 1 : Given(a, a - 1) = << >>
           /\ \A a \in 1..Len(given) + 1, b \in 0..Len(given) - 1 :
                 a <= b + 1 => Given(a, b + 1) = Append(Given(a, b), given[b + 1])
           /\ Given(1, Len(given)) = given
  <1>1. Len(given) \in Nat /\ \A k \in 1..Len(given) : given[k] \in AnyAtom
    OBVIOUS
  <1>2. ASSUME NEW a \in 1..Len(given) + 1, NEW b \in 0..Len(given)
        PROVE  Given(a, b) \in Seq(AnyAtom)
    BY <1>1, <1>2 DEF Given
  <1>3. ASSUME NEW a \in 1..Len(given) + 1
        PROVE  Given(a, a - 1) = << >>
    BY <1>1, <1>3 DEF Given
  <1>4. ASSUME NEW a \in 1..Len(given) + 1, NEW b \in 0..Len(given) - 1, a <= b + 1
        PROVE  Given(a, b + 1) = Append(Given(a, b), given[b + 1])
    BY <1>1, <1>4 DEF Given
  <1>5. Given(1, Len(given)) = given
    BY <1>1 DEF Given
  <1> QED
    BY <1>2, <1>3, <1>4, <1>5

LEMMA AppendBehind ==
    ASSUME NEW S, NEW s \in Seq(S), NEW t \in Seq(S), NEW x \in S
    PROVE  s \o Append(t, x) = Append(s \o t, x)
  OBVIOUS

\* An atom between two of the range is in the range.
LEMMA Between ==
    ASSUME ReplaceTypeOK, Aligned(given, start, end, replacements),
           NEW a \in 1..Len(given), NEW m \in 1..Len(given), NEW b \in 1..Len(given),
           a < m, m < b, InRange(given[a]), InRange(given[b])
    PROVE  InRange(given[m])
  <1>1. /\ given[a].endByte <= given[m].startByte /\ given[m].endByte <= given[b].startByte
        /\ given[a].startByte <= given[a].endByte /\ given[b].startByte <= given[b].endByte
    BY Alignment DEF InDocumentOrder
  <1>2. /\ start \in Nat /\ end \in Nat
        /\ \A k \in {a, m, b} : given[k].startByte \in Nat /\ given[k].endByte \in Nat
    BY Alignment
  <1> QED
    BY <1>1, <1>2 DEF InRange

\* Splicing in one more atom behind the range.
LEMMA SplicedFurther ==
    ASSUME ReplaceTypeOK, NEW first \in 1..Len(given), NEW last \in 1..Len(given),
           NEW n \in 0..Len(given) - 1, last <= n
    PROVE  Spliced(first, last, n + 1) = Append(Spliced(first, last, n), given[n + 1])
  <1> DEFINE s == Given(1, first - 1) \o replacements
             t == Given(last + 1, n)
             x == given[n + 1]
  <1>1. /\ given \in Seq(AnyAtom) /\ replacements \in Seq(AnyAtom)
        /\ Len(given) \in Nat
    BY DEF ReplaceTypeOK
  <1>2. /\ 1 \in 1..Len(given) + 1 /\ first - 1 \in 0..Len(given)
        /\ last + 1 \in 1..Len(given) + 1 /\ n \in 0..Len(given)
        /\ n \in 0..Len(given) - 1 /\ last + 1 <= n + 1 /\ x \in AnyAtom
    BY <1>1
  <1>3. Given(1, first - 1) \in Seq(AnyAtom) /\ t \in Seq(AnyAtom)
    BY <1>1, <1>2, GivenParts
  <1>4. Given(last + 1, n + 1) = Append(t, x)
    BY <1>1, <1>2, GivenParts
  <1>5. s \in Seq(AnyAtom)
    BY <1>1, <1>3
  <1>6. Spliced(first, last, n + 1) = s \o Append(t, x) /\ Spliced(first, last, n) = s \o t
    BY <1>4 DEF Spliced
  <1>7. x \in AnyAtom
    BY <1>2
  <1>8. s \o Append(t, x) = Append(s \o t, x)
    <2> HIDE DEF s, t, x
    <2> QED
      BY ONLY <1>3, <1>5, <1>7, AppendBehind
  <1> QED
    BY <1>6, <1>8

LEMMA SpliceStep == ReplaceIInv /\ SpliceInv /\ [ReplaceNext]_replaceVars => SpliceInv'
  <1> SUFFICES ASSUME ReplaceIInv, SpliceInv, [ReplaceNext]_replaceVars PROVE SpliceInv'
    OBVIOUS
  <1>1. /\ ReplaceTypeOK /\ Aligned(given, start, end, replacements)
        /\ given \in Seq(AnyAtom) /\ replacements \in Seq(AnyAtom) /\ result \in Seq(AnyAtom)
        /\ Len(given) \in Nat /\ j \in 1..Len(given) + 1 /\ inserted \in BOOLEAN
    BY DEF ReplaceIInv, ReplaceTypeOK
  <1>2. UNCHANGED <<given, start, end, replacements>>
    BY DEF ReplaceNext, SkipOutside, Match, NoMatch, Keep, Insert, Drop, Return, replaceVars, args
  <1>3. /\ \A a : InRange(a)' <=> InRange(a)
        /\ \A a, b : Given(a, b)' = Given(a, b)
        /\ \A f, l, n : Spliced(f, l, n)' = Spliced(f, l, n)
    BY <1>2 DEF InRange, Given, Spliced
  <1>4. CASE SkipOutside
    <2>1. /\ rp = "search" /\ rp' = rp /\ j' = j + 1 /\ ~ InRange(given[j])
      BY <1>4 DEF SkipOutside
    <2>2. \A k \in 1..j' - 1 : k = j \/ k \in 1..j - 1
      BY <1>1, <2>1
    <2> QED
      BY <1>2, <1>3, <2>1, <2>2 DEF SpliceInv, SplicedIn
  <1>5. CASE Match
    <2>1. j' = 1 /\ rp' = "copy" /\ ~ inserted' /\ result' = << >>
      BY <1>5 DEF Match, ReplaceIInv
    <2>2. Given(1, 0) = << >>
      BY <1>1, GivenParts
    <2>3. CopySoFar'
      BY <1>2, <1>3, <2>1, <2>2 DEF CopySoFar
    <2> QED
      BY <2>1, <2>3 DEF SpliceInv, SplicedIn
  <1>6. CASE NoMatch
    <2>1. rp = "search" /\ j > Len(given) /\ result' = given /\ rp' = "returned"
      BY <1>6 DEF NoMatch
    <2>2. \A k \in 1..Len(given) : ~ InRange(given[k])
      BY <1>1, <2>1 DEF SpliceInv
    <2> QED
      BY <1>2, <1>3, <2>1, <2>2 DEF SpliceInv, SplicedIn
  <1>7. CASE Keep
    <2>1. /\ rp = "copy" /\ rp' = rp /\ j \in 1..Len(given) /\ ~ InRange(given[j])
          /\ result' = Append(result, given[j]) /\ j' = j + 1 /\ inserted' = inserted
          /\ CopySoFar
      BY <1>1, <1>7 DEF Keep, SpliceInv
    <2>2. /\ j' - 1 = j /\ j - 1 \in 0..Len(given) - 1 /\ (j - 1) + 1 = j
          /\ \A k \in 1..j : k = j \/ k \in 1..j - 1
          /\ \A k \in 1..j - 1 : k # j /\ k \in 1..j /\ k \in 1..Len(given)
      BY <1>1, <2>1
    <2>3. CASE ~ inserted
      <3>1. result = Given(1, j - 1) /\ \A k \in 1..j - 1 : ~ InRange(given[k])
        BY <2>1, <2>3 DEF CopySoFar
      <3>2. 1 \in 1..Len(given) + 1 /\ 1 <= (j - 1) + 1
        BY <1>1, <2>1
      <3>3. Given(1, (j - 1) + 1) = Append(Given(1, j - 1), given[(j - 1) + 1])
        BY <1>1, <2>2, <3>2, GivenParts
      <3>4. result' = Given(1, j)
        BY <2>1, <2>2, <3>1, <3>3
      <3>5. \A k \in 1..j : ~ InRange(given[k])
        BY <2>1, <2>2, <3>1
      <3> QED
        BY <1>2, <1>3, <2>1, <2>2, <2>3, <3>4, <3>5 DEF SpliceInv, CopySoFar, SplicedIn
    <2>4. CASE inserted
      <3>a. PICK first \in 1..j - 1 : \E last \in 1..j - 1 :
                /\ \A k \in 1..j - 1 : InRange(given[k]) <=> k \in first..last
                /\ first <= last
                /\ result = Spliced(first, last, j - 1)
        BY <2>1, <2>4 DEF CopySoFar
      <3>1. PICK last \in 1..j - 1 :
                /\ \A k \in 1..j - 1 : InRange(given[k]) <=> k \in first..last
                /\ first <= last
                /\ result = Spliced(first, last, j - 1)
        BY <3>a
      <3>2. Spliced(first, last, (j - 1) + 1)
                = Append(Spliced(first, last, j - 1), given[(j - 1) + 1])
        <4>1. last <= j - 1
          BY <1>1, <3>1
        <4> QED
          BY <1>1, <2>2, <4>1, SplicedFurther
      <3>3. result' = Spliced(first, last, j)
        BY <2>1, <2>2, <3>1, <3>2
      <3>4. j \notin first..last
        BY <1>1
      <3>5. \A k \in 1..j : InRange(given[k]) <=> k \in first..last
        BY <2>1, <2>2, <3>1, <3>4
      <3>6. first \in 1..j /\ last \in 1..j /\ first <= last
        BY <2>2, <3>1
      <3>7. CopySoFar'
        BY <1>2, <1>3, <2>1, <2>2, <2>4, <3>3, <3>5, <3>6 DEF CopySoFar
      <3> QED
        BY <2>1, <3>7 DEF SpliceInv, SplicedIn
    <2> QED
      BY <2>3, <2>4
  <1>8. CASE Insert
    <2>1. /\ rp = "copy" /\ rp' = rp /\ j \in 1..Len(given) /\ InRange(given[j])
          /\ ~ inserted /\ inserted' /\ result' = result \o replacements /\ j' = j + 1
          /\ CopySoFar
      BY <1>1, <1>8 DEF Insert, SpliceInv
    <2>2. result = Given(1, j - 1) /\ \A k \in 1..j - 1 : ~ InRange(given[k])
      BY <2>1 DEF CopySoFar
    <2>3. j' - 1 = j /\ j \in 1..j /\ j <= j /\ j + 1 \in 1..Len(given) + 1 /\ (j + 1) - 1 = j
      BY <1>1, <2>1
    <2>4. Given(j + 1, j) = << >>
      BY <1>1, <2>3, GivenParts
    <2>5. result' = Spliced(j, j, j)
      BY <1>1, <2>1, <2>2, <2>4 DEF Spliced
    <2>6. \A k \in 1..j : InRange(given[k]) <=> k \in j..j
      BY <1>1, <2>1, <2>2
    <2>7. CopySoFar'
      BY <1>2, <1>3, <2>1, <2>3, <2>5, <2>6 DEF CopySoFar
    <2> QED
      BY <2>1, <2>7 DEF SpliceInv, SplicedIn
  <1>9. CASE Drop
    <2>1. /\ rp = "copy" /\ rp' = rp /\ j \in 1..Len(given) /\ InRange(given[j])
          /\ inserted /\ inserted' = inserted /\ result' = result /\ j' = j + 1
          /\ CopySoFar
      BY <1>1, <1>9 DEF Drop, SpliceInv
    <2>a. PICK first \in 1..j - 1 : \E last \in 1..j - 1 :
              /\ \A k \in 1..j - 1 : InRange(given[k]) <=> k \in first..last
              /\ first <= last
              /\ result = Spliced(first, last, j - 1)
      BY <2>1 DEF CopySoFar
    <2>2. PICK last \in 1..j - 1 :
              /\ \A k \in 1..j - 1 : InRange(given[k]) <=> k \in first..last
              /\ first <= last
              /\ result = Spliced(first, last, j - 1)
      BY <2>a
    <2>3. last = j - 1
      <3> SUFFICES ASSUME last # j - 1 PROVE FALSE
        OBVIOUS
      <3>1. /\ last + 1 \in 1..j - 1 /\ last + 1 \notin first..last
            /\ last \in 1..Len(given) /\ last + 1 \in 1..Len(given)
            /\ last < last + 1 /\ last + 1 < j /\ last \in first..last
        BY <1>1, <2>1, <2>2
      <3>2. InRange(given[last]) /\ ~ InRange(given[last + 1])
        BY <2>2, <3>1
      <3> QED
        BY <1>1, <2>1, <3>1, <3>2, Between
    <2>4. /\ j' - 1 = j /\ first \in 1..j /\ j \in 1..j /\ first <= j
          /\ j \in 1..Len(given) + 1 /\ j + 1 \in 1..Len(given) + 1
          /\ (j - 1) + 1 = j /\ (j + 1) - 1 = j
          /\ \A k \in 1..j : k = j \/ k \in 1..j - 1
          /\ \A k \in 1..j : k \in first..j <=> k = j \/ k \in first..last
      BY <1>1, <2>1, <2>2, <2>3
    <2>5. Given(j, j - 1) = << >> /\ Given(j + 1, j) = << >>
      BY <1>1, <2>4, GivenParts
    <2>6. Spliced(first, j, j) = Spliced(first, last, j - 1)
      BY <2>3, <2>4, <2>5 DEF Spliced
    <2>7. \A k \in 1..j : InRange(given[k]) <=> k \in first..j
      BY <2>1, <2>2, <2>4
    <2>8. CopySoFar'
      BY <1>2, <1>3, <2>1, <2>2, <2>4, <2>6, <2>7 DEF CopySoFar
    <2> QED
      BY <2>1, <2>8 DEF SpliceInv, SplicedIn
  <1>10. CASE Return
    <2>1. rp = "copy" /\ j > Len(given) /\ rp' = "returned" /\ result' = result /\ CopySoFar
      BY <1>10 DEF Return, SpliceInv
    <2>2. j - 1 = Len(given)
      BY <1>1, <2>1
    <2> DEFINE in == {k \in 1..Len(given) : InRange(given[k])}
    <2>3. CASE ~ inserted
      <3>1. in = {} /\ result = given
        BY <1>1, <2>1, <2>2, <2>3, GivenParts DEF CopySoFar
      <3> QED
        BY <1>2, <1>3, <2>1, <3>1 DEF SpliceInv, SplicedIn
    <2>4. CASE inserted
      <3>a. PICK first \in 1..Len(given) : \E last \in 1..Len(given) :
                /\ \A k \in 1..Len(given) : InRange(given[k]) <=> k \in first..last
                /\ first <= last
                /\ result = Spliced(first, last, Len(given))
        BY <2>1, <2>2, <2>4 DEF CopySoFar
      <3>1. PICK last \in 1..Len(given) :
                /\ \A k \in 1..Len(given) : InRange(given[k]) <=> k \in first..last
                /\ first <= last
                /\ result = Spliced(first, last, Len(given))
        BY <3>a
      <3>2. \A k \in first..last : k \in 1..Len(given)
        BY <1>1
      <3>3. in = first..last
        BY <3>1, <3>2
      <3>4. first \in in /\ last \in in
        BY <3>1, <3>3
      <3>5. result = SubSeq(given, 1, first - 1) \o replacements
                         \o SubSeq(given, last + 1, Len(given))
        BY <3>1 DEF Spliced, Given
      <3>6. \E f, l \in in :
                /\ in = f..l
                /\ result = SubSeq(given, 1, f - 1) \o replacements
                                \o SubSeq(given, l + 1, Len(given))
        BY <3>3, <3>4, <3>5
      <3> QED
        BY <1>2, <1>3, <2>1, <3>6 DEF SpliceInv, SplicedIn
    <2> QED
      BY <2>3, <2>4
  <1>11. CASE UNCHANGED replaceVars
    BY <1>2, <1>3, <1>11 DEF replaceVars, SpliceInv, CopySoFar, SplicedIn
  <1> QED
    BY <1>4, <1>5, <1>6, <1>7, <1>8, <1>9, <1>10, <1>11 DEF ReplaceNext

\* The replacements take the place of the atoms in the range, which are
\* consecutive, and every other atom is returned where it was.
THEOREM SplicesIn == ReplaceSpec => []SplicedIn
  <1>1. ReplaceInit => SpliceInv
    BY DEF ReplaceInit, SpliceInv, SplicedIn
  <1>2. SpliceInv => SplicedIn
    BY DEF SpliceInv
  <1> QED
    BY <1>1, <1>2, SpliceStep, ReplaceInvariance, PTL DEF ReplaceSpec
=============================================================================
