------------------------------- MODULE Analyze -------------------------------
(***************************************************************************)
(* analyze of chunker.go, the whole of a call of ChunkFile or Analyze: the *)
(* early returns, the parse of the file, the split phase of Inject and the *)
(* merge phase of Merge.  Deferred calls close parser and tree of the file *)
(* on every way out.  What collectEdges and dedupeEdges do with the trees  *)
(* is in Edges and Dedupe.                                                 *)
(***************************************************************************)
EXTENDS Inject

VARIABLES
    source,      \* "empty", of an "unknown" extension, or "known"
    fileHeld,    \* the parser and the tree of the file, as far as they are open
    err,         \* the error returned, or "none"
    ap,          \* "called", "parser", "split", "merge" or "returned"
    i, groupStart, chunks, pc   \* mergeAtoms's

mergeVars   == <<i, groupStart, chunks, pc>>
analyzeVars == <<vars, source, fileHeld, err, ap, mergeVars>>

Join == INSTANCE Merge WITH AtomSeqs <- {}

-----------------------------------------------------------------------------
\* return Analysis{}, e, and what is deferred by then.
Leaving(e) ==
    /\ err' = e
    /\ fileHeld' = {}
    /\ ap' = "returned"

EmptySource ==
    /\ ap = "called"
    /\ source = "empty"
    /\ Leaving("none")
    /\ UNCHANGED <<vars, source, mergeVars>>

Unsupported ==
    /\ ap = "called"
    /\ source = "unknown"
    /\ Leaving("ErrUnsupportedLanguage")
    /\ UNCHANGED <<vars, source, mergeVars>>

OpenFileParser ==
    /\ ap = "called"
    /\ source = "known"
    /\ fileHeld' = {"parser"}
    /\ ap' = "parser"
    /\ UNCHANGED <<vars, source, err, mergeVars>>

\* Mutant: nothing is deferred.
FileParseFailsHolding ==
    /\ ap = "parser"
    /\ err' = "ErrParseFailed"
    /\ ap' = "returned"
    /\ UNCHANGED <<vars, source, fileHeld, mergeVars>>

\* SetLanguage fails or Parse gives no tree.
FileParseFails ==
    /\ ap = "parser"
    /\ Leaving("ErrParseFailed")
    /\ UNCHANGED <<vars, source, mergeVars>>

FileParsed ==
    /\ ap = "parser"
    /\ fileHeld' = {"parser", "tree"}
    /\ ap' = "split"
    /\ UNCHANGED <<vars, source, err, mergeVars>>

\* collectAtoms, collectEdges, applyInjections.
SplitStep ==
    /\ ap = "split"
    /\ Next
    /\ UNCHANGED <<source, fileHeld, err, ap, mergeVars>>

SplitDone ==
    /\ ap = "split"
    /\ ip = "returned"
    /\ ap' = "merge"
    /\ UNCHANGED <<vars, source, fileHeld, err, mergeVars>>

MergeStep ==
    /\ ap = "merge"
    /\ Join!Next
    /\ UNCHANGED <<root, wantEdges, ruleVars, held, edgeTrees, ip, walkVars, spliceVars,
                   source, fileHeld, err, ap>>

\* return Analysis{...}, nil
Merged ==
    /\ ap = "merge"
    /\ pc = "done"
    /\ Leaving("none")
    /\ UNCHANGED <<vars, source, mergeVars>>

AnalyzeNext ==
    \/ EmptySource \/ Unsupported \/ OpenFileParser \/ FileParseFails \/ FileParsed
    \/ SplitStep \/ SplitDone \/ MergeStep \/ Merged

-----------------------------------------------------------------------------
AnalyzeInit ==
    /\ Init
    /\ source \in {"empty", "unknown", "known"}
    /\ fileHeld = {}
    /\ err = "none"
    /\ ap = "called"
    /\ i = 2 /\ groupStart = 1 /\ chunks = << >> /\ pc = "start"

\* analyze runs in one goroutine: it keeps running.
AnalyzeSpec == AnalyzeInit /\ [][AnalyzeNext]_analyzeVars /\ WF_analyzeVars(AnalyzeNext)

-----------------------------------------------------------------------------
ChunkIndex == 1..Len(chunks)

InChunk(a, c) == c.startByte <= a.startByte /\ a.endByte <= c.endByte /\ c.language = a.lang

\* The phases together keep what Config promises: chunks within MaxChunkSize, in
\* document order, without common bytes, inside the file.
ChunksSound ==
    \A m \in ChunkIndex :
        /\ chunks[m].endByte - chunks[m].startByte <= MaxChunkSize
        /\ root.startByte[1] <= chunks[m].startByte /\ chunks[m].endByte <= root.endByte[1]
        /\ \A p \in ChunkIndex : m < p => chunks[m].endByte <= chunks[p].startByte

\* What analyze returns without an error has each outermost boundary that fits
\* in a chunk of the file's language, or, where its range lies in that of a
\* container that was injected, has a part of the injection in a chunk.
BoundariesInChunks ==
    ap = "returned" /\ source = "known" /\ err = "none" =>
        \A n \in {b \in NodesOf(root) : FileBoundary(b)} :
            \/ \E m \in ChunkIndex :
                  /\ chunks[m].language = FileLang
                  /\ chunks[m].startByte <= root.startByte[n]
                  /\ root.endByte[n] <= chunks[m].endByte
            \/ \E c \in NodesOf(root), p \in 1..Len(atoms), m \in ChunkIndex :
                  /\ \E q \in 1..Len(Rules) : root.kind[c] = Rules[q].container
                  /\ root.startByte[c] <= root.startByte[n] /\ root.endByte[n] <= root.endByte[c]
                  /\ Within(atoms[p], c)
                  /\ atoms[p].lang # FileLang
                  /\ InChunk(atoms[p], chunks[m])

\* Nodes of the file's tree are read only while it is open, and those of an
\* injected one likewise; when analyze has returned, with an error or without,
\* no parser or tree is open; an error comes without chunks and edges.
TreesOpenWhileRead ==
    /\ OpenWhileRead
    /\ ap = "split" => fileHeld = {"parser", "tree"}
    /\ ap = "returned" => fileHeld = {} /\ held = {}
    /\ err # "none" => chunks = << >> /\ edgeTrees = << >>

\* Every call of ChunkFile or Analyze returns.
Returns == <>(ap = "returned")
=============================================================================
