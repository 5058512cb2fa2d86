---------------------------- MODULE MarkdownBlocks ----------------------------
(***************************************************************************)
(* The book-keeping of the Markdown scanner over the blocks that are open  *)
(* (markdown_cgo/scanner.c), without the characters that decide it: which  *)
(* blocks there are, how many of them the current line has matched, and    *)
(* the flags that make the scanner match, and close, one.  It holds for    *)
(* every document and for whatever the parser asks the scanner for.        *)
(***************************************************************************)
EXTENDS Integers, Sequences

CONSTANT Block    \* the kinds of blocks

VARIABLES
    blocks,     \* Scanner.open_blocks
    matched,    \* Scanner.matched: how many of them the line has matched
    matching,   \* STATE_MATCHING: at the beginning of a line
    soft,       \* STATE_WAS_SOFT_LINE_BREAK: the line continues a paragraph
    closing,    \* STATE_CLOSE_BLOCK: the innermost block is to be closed
    atEnd       \* the scanner has come to the end of the file

blockVars == <<blocks, matched, matching, soft, closing, atEnd>>

Outer == SubSeq(blocks, 1, Len(blocks) - 1)

\* The only block that the line has not matched is to be closed.
Requested == closing /\ matched = Len(blocks) - 1

-----------------------------------------------------------------------------
OpenBlock(b) ==
    /\ ~ atEnd /\ ~ matching
    /\ blocks' = Append(blocks, b)
    /\ UNCHANGED <<matched, matching, soft, closing>>

RequestClose ==
    /\ closing' = TRUE
    /\ UNCHANGED <<blocks, matched, matching, soft, atEnd>>

\* BLOCK_CONTINUATION: the line matches the blocks up to n.  Matching is over
\* when all are matched, or with the first that is not, in a paragraph.
MatchBlocks(n) ==
    /\ ~ atEnd /\ matching
    /\ n \in matched + 1..Len(blocks)
    /\ matched' = n
    /\ matching' = (n < Len(blocks) /\ (soft => closing /\ n = Len(blocks) - 1))
    /\ UNCHANGED <<blocks, soft, closing>>

\* BLOCK_CLOSE: the line does not match the next block.  The innermost is closed.
CloseUnmatched ==
    /\ ~ atEnd /\ matching /\ ~ soft
    /\ blocks' = Outer
    /\ matching' = (matched < Len(blocks'))
    /\ closing' = (closing /\ ~ Requested)
    /\ UNCHANGED <<matched, soft>>

CloseAtEnd ==
    /\ atEnd
    /\ blocks # << >>
    /\ blocks' = Outer
    /\ UNCHANGED <<matched, matching, soft, closing, atEnd>>

\* The end of a line, which no block was matched on since the last token.
LineOver ==
    /\ ~ atEnd
    /\ matching => soft
    /\ matched' = 0
    /\ closing' = (closing /\ ~ (matching /\ Requested))
    /\ UNCHANGED blocks

\* LINE_ENDING
EndLine ==
    /\ LineOver
    /\ matching' = (blocks # << >>)
    /\ soft' = FALSE

\* SOFT_LINE_ENDING: in a paragraph; the next line matches some block or none.
EndLineSoftly ==
    /\ LineOver
    /\ ~ closing'
    /\ matching' \in {FALSE, blocks # << >>}
    /\ soft' = TRUE

\* PIPE_TABLE_LINE_ENDING: the next line will match all blocks.
EndTableLine ==
    /\ LineOver
    /\ ~ closing'
    /\ matching' = (blocks # << >>)
    /\ UNCHANGED soft

\* A token that is no business of the blocks.
OtherToken ==
    /\ atEnd => atEnd'
    /\ UNCHANGED <<blocks, matched, matching, soft, closing>>

BlocksNext ==
    /\ atEnd' \in BOOLEAN
    /\ \/ \E b \in Block : OpenBlock(b)
       \/ RequestClose
       \/ \E n \in 1..Len(blocks) : MatchBlocks(n)
       \/ CloseUnmatched \/ CloseAtEnd
       \/ EndLine \/ EndLineSoftly \/ EndTableLine
       \/ OtherToken

BlocksInit ==
    /\ blocks = << >>
    /\ matched = 0
    /\ matching = FALSE /\ soft = FALSE /\ closing = FALSE
    /\ atEnd \in BOOLEAN

BlocksSpec == BlocksInit /\ [][BlocksNext]_blockVars

-----------------------------------------------------------------------------
(***************************************************************************)
(* The scanner matches blocks only while there is one left to match.  Its  *)
(* BLOCK_CLOSE does not ask whether a block is open: it takes one off the  *)
(* stack whenever it is matching and has matched none.                     *)
(***************************************************************************)
MatchesOpenBlocks ==
    ~ atEnd => /\ matched <= Len(blocks)
               /\ matching => matched < Len(blocks)

(***************************************************************************)
(* No block that the line has matched is closed on that line: a block      *)
(* closes before the end of the file only if the line has matched fewer    *)
(* than there are.                                                         *)
(***************************************************************************)
ClosesUnmatched ==
    [][Len(blocks') < Len(blocks) /\ ~ atEnd => matched < Len(blocks)]_blockVars
=============================================================================
