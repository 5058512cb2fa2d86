-------------------------------- MODULE Merge --------------------------------
(***************************************************************************)
(* mergeAtoms of chunker.go: one left-to-right pass over the atoms that    *)
(* keeps the start of the open group and closes it when the next atom      *)
(* breaks it.  Indices are 1-based here and 0-based in the code.           *)
(***************************************************************************)
EXTENDS Atoms

CONSTANTS
    Languages,   \* the LanguageConfig.Name values in use
    AtomSeqs     \* the atom sequences the split phase can hand over

Atom ==
    [startByte : Nat, endByte : Nat, startLine : Nat \ {0}, endLine : Nat \ {0},
     node : Nat, parent : Nat, isTopLevel : BOOLEAN, lang : Languages]

\* The contract of the split phase (Collect establishes it).
ASSUME AtomAssumption ==
    \A s \in AtomSeqs : s \in Seq(Atom) /\ InDocumentOrder(s) /\ NoneOversized(s)

VARIABLES
    atoms,        \* the parameter of mergeAtoms
    i,            \* the loop variable: the atom looked at next
    groupStart,   \* first atom of the open group
    chunks,       \* the chunks closed so far
    pc            \* "start", "loop" or "done"

vars == <<atoms, i, groupStart, chunks, pc>>

Init ==
    /\ atoms \in AtomSeqs
    /\ i = 2
    /\ groupStart = 1
    /\ chunks = << >>
    /\ pc = "start"

\* if len(atoms) == 0 { return nil }
ReturnNil ==
    /\ pc = "start"
    /\ atoms = << >>
    /\ pc' = "done"
    /\ UNCHANGED <<atoms, i, groupStart, chunks>>

EnterLoop ==
    /\ pc = "start"
    /\ atoms # << >>
    /\ pc' = "loop"
    /\ UNCHANGED <<atoms, i, groupStart, chunks>>

\* Mutants: the last atom of the group opens the next one too; the start of the
\* group is not reset.
CloseGroupOverlapping ==
    /\ pc = "loop" /\ i <= Len(atoms) /\ Breaks(atoms, groupStart, i)
    /\ chunks' = Append(chunks, Chunk(atoms, groupStart, i - 1))
    /\ groupStart' = i - 1
    /\ i' = i + 1
    /\ UNCHANGED <<atoms, pc>>

CloseGroupWithoutReset ==
    /\ pc = "loop" /\ i <= Len(atoms) /\ Breaks(atoms, groupStart, i)
    /\ chunks' = Append(chunks, Chunk(atoms, groupStart, i - 1))
    /\ i' = i + 1
    /\ UNCHANGED <<atoms, groupStart, pc>>

\* An iteration that closes the group before atom i.
CloseGroup ==
    /\ pc = "loop"
    /\ i <= Len(atoms)
    /\ Breaks(atoms, groupStart, i)
    /\ chunks' = Append(chunks, Chunk(atoms, groupStart, i - 1))
    /\ groupStart' = i
    /\ i' = i + 1
    /\ UNCHANGED <<atoms, pc>>

\* An iteration that lets atom i join the group.
ExtendGroup ==
    /\ pc = "loop"
    /\ i <= Len(atoms)
    /\ ~ Breaks(atoms, groupStart, i)
    /\ i' = i + 1
    /\ UNCHANGED <<atoms, groupStart, chunks, pc>>

\* After the loop the open group, never empty, becomes the last chunk.
CloseLast ==
    /\ pc = "loop"
    /\ i > Len(atoms)
    /\ chunks' = Append(chunks, Chunk(atoms, groupStart, Len(atoms)))
    /\ pc' = "done"
    /\ UNCHANGED <<atoms, i, groupStart>>

Next == ReturnNil \/ EnterLoop \/ CloseGroup \/ ExtendGroup \/ CloseLast

\* mergeAtoms is a loop of one goroutine: it keeps running.
Spec == Init /\ [][Next]_vars /\ WF_vars(Next)

-----------------------------------------------------------------------------
ChunkRecord == [startByte : Nat, endByte : Nat, language : Languages]

\* Every variable has the type mergeAtoms gives it.
TypeOK ==
    /\ atoms \in Seq(Atom)
    /\ i \in Nat
    /\ groupStart \in Nat \ {0}
    /\ chunks \in Seq(ChunkRecord)
    /\ pc \in {"start", "loop", "done"}

\* The limit that Config.MaxChunkSize sets holds for chunks, gaps between the
\* merged atoms included, not only for the atoms that collectAtoms measured.
ChunksWithinMax ==
    \A k \in 1..Len(chunks) : chunks[k].endByte - chunks[k].startByte <= MaxChunkSize

\* Chunks come out in document order and share no byte of the file, although
\* each one also takes in the text between its atoms.
ChunksDisjoint ==
    \A j, k \in 1..Len(chunks) : j < k => chunks[j].endByte <= chunks[k].startByte

\* The atoms that mergeAtoms has passed: those before the open group, all of
\* them once it returns.
Merged == IF pc = "done" THEN 1..Len(atoms) ELSE 1..groupStart - 1

\* No atom is lost, and none is filed under the language of a neighbour:
\* mergeAtoms puts every atom it has passed into a chunk of the atom's language.
EveryAtomInItsChunk ==
    \A j \in Merged : \E k \in 1..Len(chunks) :
        /\ chunks[k].startByte <= atoms[j].startByte
        /\ atoms[j].endByte <= chunks[k].endByte
        /\ chunks[k].language = atoms[j].lang

\* "preventing hairline chunks": mergeAtoms closes a chunk below MinChunkSize
\* before the end of the file only where the next atom is of another language
\* or would not fit.
HairlineOnlyWhenForced ==
    \A k \in 1..Len(chunks) - 1 :
        chunks[k].endByte - chunks[k].startByte < MinChunkSize =>
            \E j \in 1..Len(atoms) :
                /\ atoms[j].startByte = chunks[k + 1].startByte
                /\ \/ atoms[j].lang # chunks[k].language
                   \/ atoms[j].endByte - chunks[k].startByte > MaxChunkSize

\* The loop computes the partition into longest runs: at every step what it has
\* closed is what Grouping has emitted.
Abstract == INSTANCE Grouping WITH
    next <- IF pc = "done" THEN Len(atoms) + 1 ELSE groupStart
ImplementsGrouping == Abstract!Spec
=============================================================================
