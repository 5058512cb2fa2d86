-------------------------------- MODULE Atoms --------------------------------
(***************************************************************************)
(* The atoms that the phases of analyze hand to each other (struct atom of *)
(* chunker.go) and the rules by which they become chunks.  A file is its   *)
(* byte offsets: an atom or a chunk is the half-open range startByte ..    *)
(* endByte - 1 of the one source text.                                     *)
(***************************************************************************)
EXTENDS Integers, Sequences

CONSTANTS
    MaxChunkSize,   \* Config.MaxChunkSize
    MinChunkSize    \* Config.MinChunkSize

\* NewChunker refuses a threshold that is not positive.  It does not compare
\* the two: MinChunkSize may exceed MaxChunkSize.
ASSUME SizeAssumption ==
    /\ MaxChunkSize \in Nat \ {0}
    /\ MinChunkSize \in Nat \ {0}

\* An atom has these fields: startByte, endByte, startLine, endLine, isTopLevel,
\* lang (langCfg.Name); node, the syntax node whose kind and name the code
\* copies, 0 for the kind "line" and no name; and parent, the node whose name is
\* the atom's parent symbol, 0 for none.  Merge reads the first two, isTopLevel
\* and lang; the others it only copies.

\* What the split phase owes to the merge phase: atoms in document order, no
\* two overlapping, none larger than a chunk may be.
InDocumentOrder(s) ==
    /\ \A j \in 1..Len(s) : s[j].startByte <= s[j].endByte
    /\ \A j, k \in 1..Len(s) : j < k => s[j].endByte <= s[k].startByte

NoneOversized(s) ==
    \A j \in 1..Len(s) : s[j].endByte - s[j].startByte <= MaxChunkSize

-----------------------------------------------------------------------------
\* Mutants: the size without the atom that would join; no look at the language;
\* a boundary that splits however little has accumulated.
BreaksLate(s, g, j) ==
    LET accumulated == s[j - 1].endByte - s[g].startByte
    IN  \/ accumulated > MaxChunkSize
        \/ s[j].isTopLevel /\ accumulated >= MinChunkSize
        \/ s[j].lang # s[g].lang

BreaksInOneLanguage(s, g, j) ==
    \/ s[j].endByte - s[g].startByte > MaxChunkSize
    \/ s[j].isTopLevel /\ s[j - 1].endByte - s[g].startByte >= MinChunkSize

BreaksAtBoundary(s, g, j) ==
    \/ s[j].endByte - s[g].startByte > MaxChunkSize
    \/ s[j].isTopLevel
    \/ s[j].lang # s[g].lang

\* s[g..j-1] is the group accumulated so far; does atom j end it?
Breaks(s, g, j) ==
    LET exceedsMax      == s[j].endByte - s[g].startByte > MaxChunkSize
        accumulated     == s[j - 1].endByte - s[g].startByte
        splitOnBoundary == s[j].isTopLevel /\ accumulated >= MinChunkSize
        langChanged     == s[j].lang # s[g].lang
    IN  exceedsMax \/ splitOnBoundary \/ langChanged

\* buildChunk of the group s[g..l]: the text from the start of the first atom
\* to the end of the last, whatever lies between them included, under the
\* language of the first.
Chunk(s, g, l) ==
    [startByte |-> s[g].startByte, endByte |-> s[l].endByte, language |-> s[g].lang]
=============================================================================
