------------------------ MODULE MarkdownScanner_proofs -------------------------
(***************************************************************************)
(* What is proved of the Markdown scanner.                                 *)
(*                                                                         *)
(* Its book-keeping closes no block that is not open and none that the     *)
(* line has matched, for every kind of block and every sequence of tokens  *)
(* the parser may ask for.                                                 *)
(*                                                                         *)
(* The scanner itself implements that book-keeping, for every document,    *)
(* every width of the indentation and every way of the parser: each call   *)
(* of scan that finds a token changes the blocks and the flags as a step   *)
(* of MarkdownBlocks does, though the parse functions, the matching of     *)
(* blocks and the look-ahead all work on the same fields.                  *)
(***************************************************************************)
EXTENDS MarkdownScanner, FiniteSetTheorems, WellFoundedInduction, TLAPS

-----------------------------------------------------------------------------
(***************************************************************************)
(* The blocks of the Markdown scanner.                                     *)
(***************************************************************************)
BlocksTypeOK ==
    /\ blocks \in Seq(Block)
    /\ matched \in Nat
    /\ matching \in BOOLEAN /\ soft \in BOOLEAN /\ closing \in BOOLEAN /\ atEnd \in BOOLEAN

BlocksIInv == BlocksTypeOK /\ MatchesOpenBlocks

-----------------------------------------------------------------------------
\* The innermost block is taken off a stack that has one.
LEMMA OuterBlocks ==
    ASSUME blocks \in Seq(Block), Len(blocks) # 0
    PROVE  Outer \in Seq(Block) /\ Len(Outer) = Len(blocks) - 1
<1>1. Len(blocks) \in Nat /\ Len(blocks) - 1 \in 0..Len(blocks)
  OBVIOUS
<1> QED
  BY <1>1 DEF Outer

\* The end of a line starts matching anew, with the first block if there is one.
LEMMA LineOverInv ==
    ASSUME BlocksIInv, LineOver, atEnd' \in BOOLEAN, soft' \in BOOLEAN,
           matching' \in BOOLEAN, matching' => blocks # << >>
    PROVE  BlocksIInv'
<1>1. matched' = 0 /\ blocks' = blocks /\ closing' \in BOOLEAN
  BY DEF LineOver, BlocksIInv, BlocksTypeOK
<1>2. Len(blocks) \in Nat /\ (blocks # << >> => Len(blocks) > 0)
  BY DEF BlocksIInv, BlocksTypeOK
<1>3. BlocksTypeOK'
  BY <1>1 DEF BlocksIInv, BlocksTypeOK
<1>4. MatchesOpenBlocks'
  BY <1>1, <1>2 DEF MatchesOpenBlocks
<1> QED
  BY <1>3, <1>4 DEF BlocksIInv

LEMMA BlocksStep == BlocksIInv /\ [BlocksNext]_blockVars => BlocksIInv'
<1> SUFFICES ASSUME BlocksIInv, [BlocksNext]_blockVars PROVE BlocksIInv'
  OBVIOUS
<1>0. /\ blocks \in Seq(Block) /\ Len(blocks) \in Nat /\ matched \in Nat
      /\ ~ atEnd => matched <= Len(blocks) /\ (matching => matched < Len(blocks))
      /\ matching \in BOOLEAN /\ soft \in BOOLEAN /\ closing \in BOOLEAN /\ atEnd \in BOOLEAN
  BY DEF BlocksIInv, BlocksTypeOK, MatchesOpenBlocks
<1>1. ASSUME NEW b \in Block, OpenBlock(b), atEnd' \in BOOLEAN PROVE BlocksIInv'
  <2>1. blocks' \in Seq(Block) /\ Len(blocks') = Len(blocks) + 1
    BY <1>0, <1>1 DEF OpenBlock
  <2>2. ~ atEnd /\ ~ matching' /\ matched' = matched
    BY <1>1 DEF OpenBlock
  <2>3. BlocksTypeOK'
    BY <1>0, <1>1, <2>1 DEF BlocksTypeOK, OpenBlock
  <2>4. MatchesOpenBlocks'
    BY <1>0, <2>1, <2>2 DEF MatchesOpenBlocks
  <2> QED
    BY <2>3, <2>4 DEF BlocksIInv
<1>2. CASE RequestClose
  BY <1>0, <1>2 DEF RequestClose, BlocksIInv, BlocksTypeOK, MatchesOpenBlocks
<1>3. ASSUME NEW n \in 1..Len(blocks), MatchBlocks(n), atEnd' \in BOOLEAN PROVE BlocksIInv'
  <2>1. n \in Nat /\ n <= Len(blocks) /\ matched' = n /\ blocks' = blocks /\ ~ atEnd
    BY <1>0, <1>3 DEF MatchBlocks
  <2>2. matching' \in BOOLEAN /\ (matching' => n < Len(blocks))
    BY <1>3 DEF MatchBlocks
  <2>3. BlocksTypeOK'
    BY <1>0, <1>3, <2>1, <2>2 DEF BlocksTypeOK, MatchBlocks
  <2>4. MatchesOpenBlocks'
    BY <1>0, <2>1, <2>2 DEF MatchesOpenBlocks
  <2> QED
    BY <2>3, <2>4 DEF BlocksIInv
<1>4. CASE CloseUnmatched /\ atEnd' \in BOOLEAN
  <2>1. ~ atEnd /\ matching /\ matched < Len(blocks)
    BY <1>0, <1>4 DEF CloseUnmatched
  <2>2. blocks' \in Seq(Block) /\ Len(blocks') = Len(blocks) - 1
    BY <1>0, <1>4, <2>1, OuterBlocks DEF CloseUnmatched
  <2>3. matched' = matched /\ matching' = (matched < Len(blocks'))
    BY <1>4 DEF CloseUnmatched
  <2>4. BlocksTypeOK'
    BY <1>0, <1>4, <2>2, <2>3 DEF BlocksTypeOK, CloseUnmatched
  <2>5. MatchesOpenBlocks'
    BY <1>0, <2>1, <2>2, <2>3 DEF MatchesOpenBlocks
  <2> QED
    BY <2>4, <2>5 DEF BlocksIInv
<1>5. CASE CloseAtEnd
  <2>1. Len(blocks) # 0
    BY <1>0, <1>5 DEF CloseAtEnd
  <2>2. BlocksTypeOK'
    BY <1>0, <1>5, <2>1, OuterBlocks DEF BlocksTypeOK, CloseAtEnd
  <2>3. MatchesOpenBlocks'
    BY <1>5 DEF MatchesOpenBlocks, CloseAtEnd
  <2> QED
    BY <2>2, <2>3 DEF BlocksIInv
<1>6. CASE EndLine /\ atEnd' \in BOOLEAN
  BY <1>6, LineOverInv DEF EndLine
<1>7. CASE EndLineSoftly /\ atEnd' \in BOOLEAN
  BY <1>7, LineOverInv DEF EndLineSoftly
<1>8. CASE EndTableLine /\ atEnd' \in BOOLEAN
  BY <1>0, <1>8, LineOverInv DEF EndTableLine
<1>9. CASE OtherToken /\ atEnd' \in BOOLEAN
  BY <1>0, <1>9 DEF OtherToken, BlocksIInv, BlocksTypeOK, MatchesOpenBlocks
<1>10. CASE UNCHANGED blockVars
  BY <1>0, <1>10 DEF blockVars, BlocksIInv, BlocksTypeOK, MatchesOpenBlocks
<1> QED
  BY <1>1, <1>2, <1>3, <1>4, <1>5, <1>6, <1>7, <1>8, <1>9, <1>10 DEF BlocksNext

LEMMA BlocksInitially == BlocksInit => BlocksIInv
<1> SUFFICES ASSUME BlocksInit PROVE BlocksIInv
  OBVIOUS
<1>1. blocks \in Seq(Block) /\ Len(blocks) = 0 /\ matched = 0
  BY DEF BlocksInit
<1>2. matching = FALSE /\ soft = FALSE /\ closing = FALSE /\ atEnd \in BOOLEAN
  BY DEF BlocksInit
<1>3. BlocksTypeOK
  BY <1>1, <1>2 DEF BlocksTypeOK
<1>4. MatchesOpenBlocks
  BY <1>1, <1>2 DEF MatchesOpenBlocks
<1> QED
  BY <1>3, <1>4 DEF BlocksIInv

(***************************************************************************)
(* pop_block is never called on an empty stack while the scanner matches:  *)
(* scan relies on it at its BLOCK_CLOSE without a test.                    *)
(***************************************************************************)
THEOREM OpenBlocksMatched == BlocksSpec => []MatchesOpenBlocks
<1>1. BlocksIInv => MatchesOpenBlocks
  BY DEF BlocksIInv
<1> QED
  BY <1>1, BlocksInitially, BlocksStep, PTL DEF BlocksSpec

(***************************************************************************)
(* A block that the line has matched stays open to the end of the line.    *)
(***************************************************************************)
THEOREM UnmatchedClosed == BlocksSpec => ClosesUnmatched
<1>1. BlocksIInv /\ [BlocksNext]_blockVars =>
         [Len(blocks') < Len(blocks) /\ ~ atEnd => matched < Len(blocks)]_blockVars
  <2> SUFFICES ASSUME BlocksIInv, BlocksNext, Len(blocks') < Len(blocks), ~ atEnd
               PROVE  matched < Len(blocks)
    OBVIOUS
  <2>1. Len(blocks) \in Nat /\ (matching => matched < Len(blocks))
    BY DEF BlocksIInv, BlocksTypeOK, MatchesOpenBlocks
  <2>2. ASSUME NEW b \in Block, OpenBlock(b) PROVE Len(blocks') = Len(blocks) + 1
    BY <2>2 DEF OpenBlock, BlocksIInv, BlocksTypeOK
  <2>3. blocks' # blocks
    BY <2>1
  <2>4. ~ (RequestClose \/ EndLine \/ EndLineSoftly \/ EndTableLine \/ OtherToken \/ CloseAtEnd)
    BY <2>3 DEF RequestClose, EndLine, EndLineSoftly, EndTableLine, LineOver, OtherToken, CloseAtEnd
  <2>5. ~ \E n \in 1..Len(blocks) : MatchBlocks(n)
    BY <2>3 DEF MatchBlocks
  <2>6. ~ \E b \in Block : OpenBlock(b)
    BY <2>1, <2>2
  <2>7. CloseUnmatched
    BY <2>4, <2>5, <2>6 DEF BlocksNext
  <2> QED
    BY <2>1, <2>7 DEF CloseUnmatched
<1> QED
  BY <1>1, BlocksInitially, BlocksStep, PTL DEF BlocksSpec, ClosesUnmatched

-----------------------------------------------------------------------------
(***************************************************************************)
(* Functions that are defined by recursion.                                *)
(***************************************************************************)
Less == {ss \in Nat \X Nat : ss[1] < ss[2]}

\* A set of naturals that is not empty has a least element.
LEMMA LeastNumber ==
    ASSUME NEW T, T \subseteq Nat, T # {}
    PROVE  \E m \in T : \A k \in T : m <= k
<1>1. IsWellFoundedOn(Less, Nat)
  BY NatLessThanWellFounded DEF OpToRel, Less
<1>2. PICK m \in T : \A k \in T : ~ (<<k, m>> \in Less)
  BY ONLY <1>1, T \subseteq Nat, T # {}, WFMin
<1>3. \A k \in T : ~ (k < m)
  BY <1>2 DEF Less
<1> QED
  BY <1>3

\* A function that is defined in terms of its values at arguments of a lower
\* rank exists.
RecursiveIn(F, S, V, rank, N) ==
    /\ N \in Nat /\ V # {}
    /\ rank \in [S -> 0..N]
    /\ F \in [S \X [S -> V] -> V]
    /\ \A x \in S : \A g, h \in [S -> V] :
          (\A y \in S : rank[y] < rank[x] => g[y] = h[y]) => F[<<x, g>>] = F[<<x, h>>]

LEMMA RecursionByRank ==
    ASSUME NEW F, NEW S, NEW V, NEW rank, NEW N, RecursiveIn(F, S, V, rank, N)
    PROVE  \E f \in [S -> V] : \A x \in S : f[x] = F[<<x, f>>]
<1> USE DEF RecursiveIn
<1> DEFINE Defined(f, d) == \A x \in S : rank[x] < d => f[x] = F[<<x, f>>]
           T == {d \in 0..N + 1 : ~ \E f \in [S -> V] : Defined(f, d)}
<1>1. \A x \in S : rank[x] \in 0..N
  OBVIOUS
<1>2. T = {}
  <2> SUFFICES ASSUME T # {} PROVE FALSE
    OBVIOUS
  <2> T \subseteq Nat
    OBVIOUS
  <2> HIDE DEF T
  <2>1. PICK d \in T : \A e \in T : d <= e
    BY LeastNumber
  <2> USE DEF T
  <2>2. d # 0
    <3>1. PICK v \in V : TRUE
      OBVIOUS
    <3> DEFINE g == [x \in S |-> v]
    <3>2. g \in [S -> V]
      BY <3>1
    <3>3. Defined(g, 0)
      BY <1>1
    <3> HIDE DEF Defined, g
    <3>4. 0 \notin T
      BY <3>2, <3>3
    <3> QED
      BY <2>1, <3>4
  <2>3. d \in 1..N + 1 /\ d - 1 \in 0..N + 1
    BY <2>1, <2>2
  <2>4. PICK f \in [S -> V] : Defined(f, d - 1)
    <3> HIDE DEF Defined
    <3>1. d - 1 \notin T
      <4> HIDE DEF T
      <4> QED
        BY <2>1, <2>3
    <3> QED
      BY <2>3, <3>1
  <2> DEFINE g == [x \in S |-> IF rank[x] = d - 1 THEN F[<<x, f>>] ELSE f[x]]
  <2>5. \A x \in S : F[<<x, f>>] \in V /\ f[x] \in V
    OBVIOUS
  <2>6. g \in [S -> V]
    BY <2>5
  <2>7. \A x \in S : rank[x] < d - 1 => g[x] = f[x]
    BY <1>1, <2>3
  <2>8. \A x \in S : rank[x] = d - 1 => g[x] = F[<<x, f>>]
    BY <1>1, <2>3
  <2>9. ASSUME NEW x \in S, rank[x] < d PROVE F[<<x, g>>] = F[<<x, f>>]
    <3>1. \A y \in S : rank[y] < rank[x] => g[y] = f[y]
      BY <1>1, <2>3, <2>7, <2>9
    <3> HIDE DEF g
    <3> QED
      BY <2>6, <3>1
  <2>10. Defined(g, d)
    <3> SUFFICES ASSUME NEW x \in S, rank[x] < d PROVE g[x] = F[<<x, g>>]
      OBVIOUS
    <3>1. CASE rank[x] = d - 1
      <4> HIDE DEF g
      <4> QED
        BY <3>1, <2>8, <2>9
    <3>2. CASE rank[x] # d - 1
      <4>1. rank[x] < d - 1
        BY <1>1, <2>3, <3>2
      <4>2. f[x] = F[<<x, f>>]
        BY <2>4, <4>1
      <4> HIDE DEF g
      <4> QED
        BY <4>1, <4>2, <2>7, <2>9
    <3> QED
      BY <3>1, <3>2
  <2> QED
    <3> HIDE DEF g, Defined
    <3> QED
      BY <2>1, <2>6, <2>10
<1>3. PICK f \in [S -> V] : Defined(f, N + 1)
  <2>1. N + 1 \notin T /\ N + 1 \in 0..N + 1
    <3> HIDE DEF T
    <3> QED
      BY <1>2
  <2> HIDE DEF Defined
  <2> QED
    BY <2>1
<1>4. \A x \in S : rank[x] < N + 1
  BY <1>1
<1> QED
  BY <1>3, <1>4

\* What is true of an argument if it is of those of a lower rank is true of all.
LEMMA InductionByRank ==
    ASSUME NEW N \in Nat, NEW S, NEW T, NEW rank \in [S -> 0..N],
           \A x \in S : (\A y \in S : rank[y] < rank[x] => y \in T) => x \in T
    PROVE  \A x \in S : x \in T
<1> DEFINE D == {d \in 0..N : \E x \in S : rank[x] = d /\ x \notin T}
<1>1. \A x \in S : rank[x] \in 0..N
  OBVIOUS
<1> SUFFICES ASSUME D # {} PROVE FALSE
  BY <1>1
<1> D \subseteq Nat
  OBVIOUS
<1> HIDE DEF D
<1>2. PICK d \in D : \A e \in D : d <= e
  BY LeastNumber
<1>3. PICK x \in S : rank[x] = d /\ x \notin T
  BY <1>2 DEF D
<1>4. ASSUME NEW y \in S, rank[y] < rank[x] PROVE y \in T
  <2>1. rank[y] \notin D
    BY <1>1, <1>2, <1>3, <1>4
  <2> QED
    BY <1>1, <2>1 DEF D
<1> QED
  BY <1>3, <1>4

-----------------------------------------------------------------------------
(***************************************************************************)
(* Loops: functions that call themselves, if at all, at the end.           *)
(***************************************************************************)
\* A loop over S goes on, in G, with the next argument, and ends with a value in S.
Loop(S, rank, N, G, next, end) ==
    /\ N \in Nat /\ rank \in [S -> 0..N] /\ S # {}
    /\ \A x \in S : x \in G => next[x] \in S /\ rank[next[x]] < rank[x]
    /\ \A x \in S : x \notin G => end[x] \in S

\* The function that such a loop computes exists.
LEMMA LoopExists ==
    ASSUME NEW S, NEW rank, NEW N, NEW G, NEW next, NEW end, Loop(S, rank, N, G, next, end)
    PROVE  \E f \in [S -> S] : \A x \in S : f[x] = IF x \in G THEN f[next[x]] ELSE end[x]
<1> DEFINE Step(x, f) == IF x \in G THEN f[next[x]] ELSE end[x]
           F == [q \in S \X [S -> S] |-> Step(q[1], q[2])]
<1>1. \A x \in S : \A f \in [S -> S] : F[<<x, f>>] = Step(x, f)
  OBVIOUS
<1>2. \A x \in S : \A f \in [S -> S] : Step(x, f) \in S
  BY DEF Loop
<1>3. F \in [S \X [S -> S] -> S]
  <2> HIDE DEF Step
  <2> QED
    BY <1>2
<1>4. ASSUME NEW x \in S, NEW g \in [S -> S], NEW h \in [S -> S],
             \A y \in S : rank[y] < rank[x] => g[y] = h[y]
      PROVE  F[<<x, g>>] = F[<<x, h>>]
  <2>1. Step(x, g) = Step(x, h)
    BY <1>4 DEF Loop
  <2> HIDE DEF Step, F
  <2> QED
    BY <1>1, <2>1
<1>5. RecursiveIn(F, S, S, rank, N)
  <2> HIDE DEF F
  <2>1. \A x \in S : \A g, h \in [S -> S] :
            (\A y \in S : rank[y] < rank[x] => g[y] = h[y]) => F[<<x, g>>] = F[<<x, h>>]
    BY <1>4
  <2> QED
    BY <1>3, <2>1 DEF RecursiveIn, Loop
<1> HIDE DEF F, Step
<1>6. \E f \in [S -> S] : \A x \in S : f[x] = F[<<x, f>>]
  BY <1>5, RecursionByRank
<1> QED
  BY <1>1, <1>6 DEF Step

\* What the value at the end has to do with the argument there, and with one before
\* if with the next, it has to do with the first.
LEMMA LoopKeeps ==
    ASSUME NEW S, NEW rank, NEW N, NEW G, NEW next, NEW end, Loop(S, rank, N, G, next, end),
           NEW f, \A x \in S : f[x] = IF x \in G THEN f[next[x]] ELSE end[x],
           NEW R, \A x \in S : x \notin G => <<x, end[x]>> \in R,
           \A x \in S : x \in G => \A y : <<next[x], y>> \in R => <<x, y>> \in R
    PROVE  \A x \in S : <<x, f[x]>> \in R
<1> DEFINE T == {x \in S : <<x, f[x]>> \in R}
<1>1. ASSUME NEW x \in S, \A y \in S : rank[y] < rank[x] => y \in T
      PROVE  x \in T
  <2>1. CASE x \in G
    <3>1. next[x] \in T
      BY <1>1, <2>1 DEF Loop
    <3> QED
      BY <2>1, <3>1
  <2>2. CASE x \notin G
    BY <2>2
  <2> QED
    BY <2>1, <2>2
<1>2. \A x \in S : x \in T
  <2> HIDE DEF T
  <2>1. \A x \in S : (\A y \in S : rank[y] < rank[x] => y \in T) => x \in T
    BY <1>1
  <2>2. N \in Nat /\ rank \in [S -> 0..N]
    BY DEF Loop
  <2> QED
    BY ONLY <2>1, <2>2, InductionByRank
<1> QED
  BY <1>2

-----------------------------------------------------------------------------
(***************************************************************************)
(* The characters, and what a record of the scanner holds.                 *)
(***************************************************************************)
DocOK == doc \in Seq(Line \cup {"NL"})

Positions == 1..Len(doc) + 1

Word == Line \cup Tokens \cup {"NL", "EOF", "none"}

State ==
    [at : Positions, end : 0..Len(doc) + 1, found : Word, ok : BOOLEAN, simulate : BOOLEAN,
     blocks : Seq(Block), matched : Nat, matching : BOOLEAN, soft : BOOLEAN, closing : BOOLEAN,
     indent : 0..Wide - 1, column : 0..3, fence : Nat, seen : [matched : Nat, begin : Word]]

\* What MarkdownBlocks keeps is the same.
Books(x, y) ==
    /\ y.simulate = x.simulate /\ y.blocks = x.blocks /\ y.matched = x.matched
    /\ y.matching = x.matching /\ y.soft = x.soft /\ y.closing = x.closing

\* y is x, further on.
Moved(x, y) == y \in State /\ Books(x, y)

\* Every place of the document has a character, and only the one behind it the end.
LEMMA AtFacts ==
    ASSUME DocOK
    PROVE  /\ Len(doc) \in Nat
           /\ \A i \in Positions : /\ At(i) \in Word
                                   /\ At(i) = "EOF" <=> i > Len(doc)
           /\ "EOF" \notin Line /\ Blank \subseteq Line
<1>1. Len(doc) \in Nat /\ \A i \in 1..Len(doc) : doc[i] \in Line \cup {"NL"}
  BY DEF DocOK
<1>2. "EOF" \notin Line /\ Blank \subseteq Line
  BY DEF Line, Ink, Blank, Html
<1>3. "EOF" \in Word /\ \A c \in Line \cup {"NL"} : c \in Word /\ c # "EOF"
  BY <1>2 DEF Word
<1>4. ASSUME NEW i \in Positions PROVE At(i) \in Word /\ (At(i) = "EOF" <=> i > Len(doc))
  <2>1. CASE i <= Len(doc)
    <3>1. doc[i] \in Word /\ doc[i] # "EOF"
      BY <1>1, <1>3, <2>1 DEF Positions
    <3> QED
      BY <1>1, <2>1, <3>1 DEF At, Positions
  <2>2. CASE i > Len(doc)
    BY <1>1, <1>3, <2>2 DEF At, Positions
  <2> QED
    BY <1>1, <2>1, <2>2 DEF Positions
<1> QED
  BY <1>1, <1>2, <1>4

LEMMA Remainders ==
    ASSUME NEW n \in Nat
    PROVE  n % 4 \in 0..3 /\ n % Wide \in 0..Wide - 1
BY WideAssumption

LEMMA MovedBy ==
    ASSUME NEW x \in State, NEW i \in Positions, NEW c \in 0..3
    PROVE  Moved(x, [x EXCEPT !.at = i, !.column = c])
BY DEF State, Moved, Books

\* The lexer goes on: advance.
LEMMA Advanced ==
    ASSUME DocOK, NEW x \in State
    PROVE  Moved(x, advance(x))
<1>1. Len(doc) \in Nat
  BY AtFacts
<1> DEFINE i == IF x.at > Len(doc) THEN x.at ELSE x.at + 1
           c == IF Cur(x) = "TAB" THEN 0 ELSE (x.column + 1) % 4
<1>2. x.column \in 0..3 /\ x.at \in Positions
  BY DEF State
<1>3. i \in Positions /\ c \in 0..3
  BY <1>1, <1>2 DEF Positions
<1>4. advance(x) = [x EXCEPT !.at = i, !.column = c]
  BY DEF advance
<1> HIDE DEF i, c
<1> QED
  BY <1>3, <1>4, MovedBy

LEMMA Sized ==
    ASSUME NEW x, x.column \in 0..3
    PROVE  Size(x) \in 1..4
BY DEF Size

\* First finds its place: the end of the document has none of the characters.
LEMMA FirstIs ==
    ASSUME DocOK, NEW i \in Positions, NEW chars, "EOF" \notin chars
    PROVE  /\ First(i, chars) \in i..Len(doc) + 1
           /\ At(First(i, chars)) \notin chars
           /\ \A k \in i..First(i, chars) - 1 : At(k) \in chars
<1> DEFINE T == {j \in i..Len(doc) + 1 : At(j) \notin chars}
<1>1. Len(doc) \in Nat /\ i \in 1..Len(doc) + 1 /\ At(Len(doc) + 1) = "EOF"
  BY AtFacts DEF Positions
<1>2. T \subseteq Nat /\ Len(doc) + 1 \in T
  BY <1>1
<1>3. PICK j \in T : \A k \in T : j <= k
  <2> HIDE DEF T
  <2> QED
    BY <1>2, LeastNumber
<1>4. j \in i..Len(doc) + 1 /\ At(j) \notin chars /\ \A k \in i..j - 1 : At(k) \in chars
  BY <1>1, <1>3
<1> QED
  BY <1>4 DEF First

\* advance, again and again.
LEMMA MovedTo ==
    ASSUME DocOK, NEW x \in State, NEW j \in x.at..Len(doc) + 1
    PROVE  Moved(x, To(x, j)) /\ To(x, j).at = j
<1> DEFINE K == {k \in x.at..j - 1 : \A l \in k..j - 1 : doc[l] # "TAB"}
           c == (Cardinality(K) + (IF Cardinality(K) = j - x.at THEN x.column ELSE 0)) % 4
<1>1. Len(doc) \in Nat /\ x.at \in 1..Len(doc) + 1 /\ j \in 1..Len(doc) + 1 /\ x.column \in 0..3
  BY AtFacts DEF State, Positions
<1>2. Cardinality(K) \in Nat
  <2> DEFINE I == x.at..j - 1
  <2>1. x.at \in Int /\ j - 1 \in Int
    BY <1>1
  <2>2. IsFiniteSet(I)
    BY <2>1, FS_Interval
  <2>3. K \subseteq I
    OBVIOUS
  <2> HIDE DEF I, K
  <2> QED
    BY <2>2, <2>3, FS_Subset, FS_CardinalityType
<1>3. c \in 0..3
  <2>1. PICK n \in Nat : n = Cardinality(K)
    BY <1>2
  <2> HIDE DEF K
  <2>2. PICK m \in Nat : m = n + (IF n = j - x.at THEN x.column ELSE 0)
    BY <1>1
  <2>3. m % 4 \in 0..3
    BY Remainders
  <2> QED
    BY <2>1, <2>2, <2>3
<1>4. To(x, j) = [x EXCEPT !.at = j, !.column = c]
  BY DEF To, State
<1> HIDE DEF c
<1>5. j \in Positions
  BY <1>1 DEF Positions
<1>6. Moved(x, To(x, j))
  BY <1>3, <1>4, <1>5, MovedBy
<1>7. To(x, j).at = j
  BY <1>4 DEF State
<1> QED
  BY <1>6, <1>7

LEMMA MovedOver ==
    ASSUME DocOK, NEW x \in State, NEW chars, "EOF" \notin chars
    PROVE  Moved(x, Over(x, chars)) /\ Over(x, chars).at \in x.at..Len(doc) + 1
<1>1. x.at \in Positions
  BY DEF State
<1> QED
  BY <1>1, FirstIs, MovedTo DEF Over

-----------------------------------------------------------------------------
(***************************************************************************)
(* Indentation.                                                            *)
(***************************************************************************)
LEMMA AdvancedPlace ==
    ASSUME DocOK, NEW p \in Places
    PROVE  /\ advance(p) \in Places /\ advance(p).indent = p.indent
           /\ p.at <= Len(doc) => advance(p).at = p.at + 1
<1>1. Len(doc) \in Nat
  BY AtFacts
<1> DEFINE i == IF p.at > Len(doc) THEN p.at ELSE p.at + 1
           c == IF Cur(p) = "TAB" THEN 0 ELSE (p.column + 1) % 4
<1>2. i \in 1..Len(doc) + 1 /\ c \in 0..3 /\ (p.at <= Len(doc) => i = p.at + 1)
  BY <1>1 DEF Places
<1>3. advance(p) = [p EXCEPT !.at = i, !.column = c]
  BY DEF advance
<1> HIDE DEF i, c
<1> QED
  BY <1>2, <1>3 DEF Places

BlankCounted(p) == [advance(p) EXCEPT !.indent = (@ + Size(p)) % Wide]

\* One blank, counted.
LEMMA CountedPlace ==
    ASSUME DocOK, NEW p \in Places, Cur(p) \in Blank
    PROVE  BlankCounted(p) \in Places /\ p.at <= Len(doc) /\ BlankCounted(p).at = p.at + 1
<1>1. Len(doc) \in Nat /\ p.at \in Positions /\ p.column \in 0..3 /\ p.indent \in Nat
  BY AtFacts, WideAssumption DEF Places, Positions
<1>2. p.at <= Len(doc)
  <2>1. PICK i \in Positions : i = p.at
    BY <1>1
  <2>2. At(i) # "EOF"
    BY <2>1, AtFacts DEF Cur
  <2> QED
    BY <1>1, <2>1, <2>2, AtFacts DEF Positions
<1>3. PICK q \in Places : q = advance(p) /\ q.at = p.at + 1 /\ q.indent = p.indent
  BY <1>2, AdvancedPlace
<1>4. PICK n \in Nat : n = p.indent + Size(p)
  BY <1>1, Sized
<1>5. n % Wide \in 0..Wide - 1
  BY Remainders
<1>6. BlankCounted(p) = [q EXCEPT !.indent = n % Wide]
  BY <1>3, <1>4 DEF BlankCounted
<1> QED
  BY <1>2, <1>3, <1>5, <1>6 DEF Places

\* The function that goes over the blanks.
OverBlanks(enough) ==
    CHOOSE over : over = [p \in Places |->
        IF Cur(p) \in Blank /\ p.indent < enough THEN over[BlankCounted(p)] ELSE p]

\* The loop over the blanks ends in the document.
LEMMA BlanksOver ==
    ASSUME DocOK, NEW enough, NEW p \in Places
    PROVE  OverBlanks(enough)[p] \in Places
<1> DEFINE G == {q \in Places : Cur(q) \in Blank /\ q.indent < enough}
           next == [q \in Places |-> BlankCounted(q)]
           end == [q \in Places |-> q]
           rank == [q \in Places |-> Len(doc) + 1 - q.at]
           Over1(f) == [q \in Places |-> IF q \in G THEN f[next[q]] ELSE end[q]]
<1>1. Len(doc) \in Nat /\ \A q \in Places : q.at \in 1..Len(doc) + 1
  BY AtFacts DEF Places
<1>2. rank \in [Places -> 0..Len(doc)]
  BY <1>1
<1>3. \A q \in Places : q \in G => next[q] \in Places /\ rank[next[q]] < rank[q]
  <2> SUFFICES ASSUME NEW q \in Places, q \in G
               PROVE  next[q] \in Places /\ rank[next[q]] < rank[q]
    OBVIOUS
  <2>1. PICK r \in Places : r = BlankCounted(q) /\ r.at = q.at + 1
    BY CountedPlace
  <2>2. next[q] = r
    BY <2>1
  <2> HIDE DEF next, G
  <2> QED
    BY <1>1, <2>1, <2>2
<1>4. \A q \in Places : q \notin G => end[q] \in Places
  OBVIOUS
<1>5. Loop(Places, rank, Len(doc), G, next, end)
  <2> HIDE DEF G, next, end, rank
  <2> QED
    BY <1>1, <1>2, <1>3, <1>4 DEF Loop
<1>6. PICK f \in [Places -> Places] :
          \A q \in Places : f[q] = IF q \in G THEN f[next[q]] ELSE end[q]
  <2> HIDE DEF G, next, end, rank
  <2> QED
    BY <1>5, LoopExists
<1>7. f = Over1(f)
  <2> HIDE DEF G, next, end
  <2> QED
    BY <1>6
<1>8. \A g : Over1(g) = [q \in Places |->
                            IF Cur(q) \in Blank /\ q.indent < enough THEN g[BlankCounted(q)] ELSE q]
  OBVIOUS
<1>9. OverBlanks(enough) = Over1(OverBlanks(enough))
  <2> HIDE DEF Over1
  <2>1. f = [q \in Places |->
                IF Cur(q) \in Blank /\ q.indent < enough THEN f[BlankCounted(q)] ELSE q]
    BY <1>7, <1>8
  <2>2. OverBlanks(enough) = [q \in Places |->
                IF Cur(q) \in Blank /\ q.indent < enough
                THEN OverBlanks(enough)[BlankCounted(q)] ELSE q]
    BY <2>1 DEF OverBlanks
  <2> QED
    BY <1>8, <2>2
<1>10. PICK o : o = OverBlanks(enough)
  OBVIOUS
<1>11. \A q \in Places : o[q] = IF q \in G THEN o[next[q]] ELSE end[q]
  <2> HIDE DEF G, next, end
  <2> QED
    BY <1>9, <1>10
<1> DEFINE R == {q \in Places \X Places : TRUE}
<1>12. \A q \in Places : <<q, o[q]>> \in R
  <2>1. \A q \in Places : q \notin G => <<q, end[q]>> \in R
    OBVIOUS
  <2>2. \A q \in Places : q \in G => \A y : <<next[q], y>> \in R => <<q, y>> \in R
    OBVIOUS
  <2> HIDE DEF G, next, end, R, rank
  <2> QED
    BY <1>5, <1>11, <2>1, <2>2, LoopKeeps
<1> QED
  BY <1>10, <1>12

Put(x, i, c, n) == [x EXCEPT !.at = i, !.column = c, !.indent = n]

\* The indentation is counted for what is a place: nothing else changes.
LEMMA IndentedFrom ==
    ASSUME DocOK, NEW x, NEW enough, x.at \in Positions, x.column \in 0..3, x.indent \in 0..Wide - 1
    PROVE  \E i \in Positions, c \in 0..3, n \in 0..Wide - 1 :
              Indented(x, enough) = Put(x, i, c, n)
<1>1. PICK p \in Places : p = [at |-> x.at, column |-> x.column, indent |-> x.indent]
  BY DEF Places, Positions
<1>2. PICK q \in Places : q = OverBlanks(enough)[p]
  BY BlanksOver
<1>3. Indented(x, enough) = Put(x, q.at, q.column, q.indent)
  BY <1>1, <1>2 DEF Indented, OverBlanks, BlankCounted, Put, PutAt
<1> QED
  BY <1>2, <1>3 DEF Places, Positions

\* Indented counts blanks, and leaves the books alone.
LEMMA MovedIndented ==
    ASSUME DocOK, NEW x \in State, NEW enough
    PROVE  Moved(x, Indented(x, enough))
<1>1. x.at \in Positions /\ x.column \in 0..3 /\ x.indent \in 0..Wide - 1
  BY DEF State
<1>2. PICK i \in Positions, c \in 0..3, n \in 0..Wide - 1 :
          Indented(x, enough) = Put(x, i, c, n)
  BY <1>1, IndentedFrom
<1> QED
  BY <1>2 DEF Put, Moved, State, Books

-----------------------------------------------------------------------------
(***************************************************************************)
(* Matching.                                                               *)
(***************************************************************************)
LEMMA AdvancedFrom ==
    ASSUME DocOK, NEW x, x.at \in Positions, x.column \in 0..3
    PROVE  \E i \in Positions, c \in 0..3 : advance(x) = [x EXCEPT !.at = i, !.column = c]
<1>1. Len(doc) \in Nat
  BY AtFacts
<1> DEFINE i == IF x.at > Len(doc) THEN x.at ELSE x.at + 1
           c == IF Cur(x) = "TAB" THEN 0 ELSE (x.column + 1) % 4
<1>2. i \in Positions /\ c \in 0..3
  BY <1>1 DEF Positions
<1>3. advance(x) = [x EXCEPT !.at = i, !.column = c]
  BY DEF advance
<1> HIDE DEF i, c
<1> QED
  BY <1>2, <1>3

\* y is m, further on.
Later(m, y) == y \in Matchings /\ y.matched = m.matched

\* What one block asks of the line does not change how many are matched.
LEMMA LaterAdvanced ==
    ASSUME DocOK, NEW m \in Matchings
    PROVE  Later(m, advance(m))
<1>1. m.at \in Positions /\ m.column \in 0..3
  BY DEF Matchings, Positions
<1>2. PICK i \in Positions, c \in 0..3 : advance(m) = [m EXCEPT !.at = i, !.column = c]
  BY <1>1, AdvancedFrom
<1> QED
  BY <1>2 DEF Matchings, Later, Positions

LEMMA LaterIndented ==
    ASSUME DocOK, NEW m \in Matchings, NEW enough
    PROVE  Later(m, Indented(m, enough))
<1>1. m.at \in Positions /\ m.column \in 0..3 /\ m.indent \in 0..Wide - 1
  BY DEF Matchings, Positions
<1>2. PICK i \in Positions, c \in 0..3, n \in 0..Wide - 1 : Indented(m, enough) = Put(m, i, c, n)
  BY <1>1, IndentedFrom
<1> QED
  BY <1>2 DEF Put, Matchings, Later, Positions

LEMMA LaterShifted ==
    ASSUME NEW m \in Matchings, NEW n \in 0..Wide - 1
    PROVE  Later(m, [m EXCEPT !.indent = n])
BY DEF Matchings, Later

LEMMA LaterQuote ==
    ASSUME DocOK, NEW m \in Matchings
    PROVE  Later(m, AfterQuote(m))
<1>1. PICK a \in Matchings : a = advance(m) /\ a.matched = m.matched
  BY LaterAdvanced DEF Later
<1>2. 0 \in 0..Wide - 1
  BY WideAssumption
<1>3. PICK y \in Matchings : y = [a EXCEPT !.indent = 0] /\ y.matched = m.matched
  BY <1>1, <1>2, LaterShifted DEF Later
<1>4. PICK z \in Matchings : z = advance(y) /\ z.matched = m.matched
  BY <1>3, LaterAdvanced DEF Later
<1>5. PICK n \in 0..Wide - 1 : n = Size(y) - 1
  <2>1. y.column \in 0..3
    BY DEF Matchings
  <2>2. Size(y) \in 1..4
    BY <2>1, Sized
  <2> QED
    BY <2>2, WideAssumption
<1>6. AfterQuote(m) = IF Cur(y) \in Blank THEN [z EXCEPT !.indent = n] ELSE y
  BY <1>1, <1>3, <1>4, <1>5 DEF AfterQuote
<1>7. [z EXCEPT !.indent = n] \in Matchings /\ [z EXCEPT !.indent = n].matched = m.matched
  BY <1>4 DEF Matchings
<1> QED
  BY <1>3, <1>6, <1>7 DEF Later

\* match says whether the line matches the block; it counts none.
LEMMA LaterMatched ==
    ASSUME DocOK, NEW m \in Matchings, NEW b
    PROVE  Later(m, match(m, b))
<1> DEFINE need == list_item_indentation(b)
           Is(ok, y) == [y EXCEPT !.ok = ok]
           Less1(y, n) == [y EXCEPT !.indent = @ - n]
<1>1. PICK code \in Matchings : code = Indented(m, 4) /\ code.matched = m.matched
  BY LaterIndented DEF Later
<1>2. PICK item \in Matchings : item = Indented(m, need) /\ item.matched = m.matched
  BY LaterIndented DEF Later
<1>3. PICK quote \in Matchings : quote = Indented(m, Wide) /\ quote.matched = m.matched
  BY LaterIndented DEF Later
<1>4. ASSUME NEW y \in Matchings, NEW ok \in BOOLEAN, y.matched = m.matched
      PROVE  Is(ok, y) \in Matchings /\ Is(ok, y).matched = m.matched
  BY <1>4 DEF Matchings
<1>5. ASSUME NEW y \in Matchings, NEW n \in Nat, y.indent >= n, y.matched = m.matched
      PROVE  Less1(y, n) \in Matchings /\ Less1(y, n).matched = m.matched
  <2>1. y.indent - n \in 0..Wide - 1
    BY <1>5, WideAssumption DEF Matchings
  <2> QED
    BY <1>5, <2>1 DEF Matchings
<1>6. CASE b = INDENTED_CODE_BLOCK
  <2>1. match(m, b) = IF code.indent >= 4 /\ Cur(code) # "NL" THEN Is(TRUE, Less1(code, 4))
                      ELSE Is(FALSE, code)
    BY <1>1, <1>6 DEF match, INDENTED_CODE_BLOCK, LIST_ITEM, LIST_ITEM_MAX_INDENTATION, BLOCK_QUOTE, FENCED_CODE_BLOCK, ANONYMOUS
  <2> HIDE DEF Is, Less1
  <2>2. CASE code.indent >= 4
    <3>1. PICK y \in Matchings : y = Less1(code, 4) /\ y.matched = m.matched
      BY <1>1, <1>5, <2>2
    <3> QED
      BY <1>1, <1>4, <2>1, <3>1 DEF Later
  <2>3. CASE ~ (code.indent >= 4)
    BY <1>1, <1>4, <2>1, <2>3 DEF Later
  <2> QED
    BY <2>2, <2>3
<1>7. CASE b \in LIST_ITEM..LIST_ITEM_MAX_INDENTATION
  <2>1. match(m, b) = IF item.indent >= need THEN Is(TRUE, Less1(item, need))
                      ELSE IF Cur(item) = "NL" THEN Is(TRUE, [item EXCEPT !.indent = 0])
                      ELSE Is(FALSE, item)
    BY <1>2, <1>7 DEF match, INDENTED_CODE_BLOCK, LIST_ITEM, LIST_ITEM_MAX_INDENTATION, BLOCK_QUOTE, FENCED_CODE_BLOCK, ANONYMOUS
  <2>2. need \in Nat
    BY <1>7, WideAssumption DEF list_item_indentation, LIST_ITEM, LIST_ITEM_MAX_INDENTATION
  <2>3. PICK flat \in Matchings : flat = [item EXCEPT !.indent = 0] /\ flat.matched = m.matched
    <3>1. 0 \in 0..Wide - 1
      BY WideAssumption
    <3> QED
      BY <1>2, <3>1, LaterShifted DEF Later
  <2> HIDE DEF Is, Less1, need
  <2>4. CASE item.indent >= need
    <3>1. PICK y \in Matchings : y = Less1(item, need) /\ y.matched = m.matched
      BY <1>2, <1>5, <2>2, <2>4
    <3> QED
      BY <1>4, <2>1, <2>4, <3>1 DEF Later
  <2>5. CASE ~ (item.indent >= need)
    BY <1>2, <1>4, <2>1, <2>3, <2>5 DEF Later
  <2> QED
    BY <2>4, <2>5
<1>8. CASE b = BLOCK_QUOTE
  <2>1. match(m, b) = IF Cur(quote) = ">" THEN Is(TRUE, AfterQuote(quote)) ELSE Is(FALSE, quote)
    BY <1>3, <1>8 DEF match, INDENTED_CODE_BLOCK, LIST_ITEM, LIST_ITEM_MAX_INDENTATION, BLOCK_QUOTE, FENCED_CODE_BLOCK, ANONYMOUS
  <2>2. PICK y \in Matchings : y = AfterQuote(quote) /\ y.matched = m.matched
    BY <1>3, LaterQuote DEF Later
  <2> HIDE DEF Is
  <2> QED
    BY <1>3, <1>4, <2>1, <2>2 DEF Later
<1>9. CASE /\ b # INDENTED_CODE_BLOCK /\ b \notin LIST_ITEM..LIST_ITEM_MAX_INDENTATION
           /\ b # BLOCK_QUOTE
  <2>1. match(m, b) = IF b \in {FENCED_CODE_BLOCK, ANONYMOUS} THEN Is(TRUE, m) ELSE Is(FALSE, m)
    BY <1>9 DEF match
  <2>2. \A ok \in BOOLEAN : Is(ok, m) \in Matchings /\ Is(ok, m).matched = m.matched
    BY <1>4
  <2> HIDE DEF Is
  <2> QED
    BY <2>1, <2>2 DEF Later
<1> QED
  BY <1>6, <1>7, <1>8, <1>9

\* The function that goes over the blocks.
Onward(blocksOf, m) == [match(m, blocksOf[m.matched + 1]) EXCEPT !.matched = @ + 1]

OverBlocks(blocksOf, top) ==
    CHOOSE from : from = [m \in Matchings |->
        IF m.matched >= top THEN [m EXCEPT !.ok = TRUE]
        ELSE IF match(m, blocksOf[m.matched + 1]).ok THEN from[Onward(blocksOf, m)]
        ELSE match(m, blocksOf[m.matched + 1])]

\* From m, the blocks up to that of y are matched, and top if it is ok.
Matched(m, y, top) ==
    /\ y \in Matchings
    /\ m.matched <= y.matched
    /\ m.matched <= top => y.matched <= top /\ (y.ok <=> y.matched = top)

\* One turn of the loop of scan that matches blocks.
LEMMA OneMatched ==
    ASSUME DocOK, NEW m \in Matchings, NEW blocksOf
    PROVE  Onward(blocksOf, m) \in Matchings /\ Onward(blocksOf, m).matched = m.matched + 1
<1>1. PICK y \in Matchings : y = match(m, blocksOf[m.matched + 1]) /\ y.matched = m.matched
  BY LaterMatched DEF Later
<1>2. PICK n \in Nat : n = m.matched + 1
  BY DEF Matchings
<1>3. Onward(blocksOf, m) = [y EXCEPT !.matched = n]
  BY <1>1, <1>2 DEF Onward
<1> QED
  BY <1>1, <1>2, <1>3 DEF Matchings

\* That loop: it stops at a block that does not match, or at the last one sought.
LEMMA BlocksOver ==
    ASSUME DocOK, NEW blocksOf, NEW top \in Nat, NEW m0 \in Matchings
    PROVE  Matched(m0, OverBlocks(blocksOf, top)[m0], top)
<1> DEFINE Is(m) == match(m, blocksOf[m.matched + 1])
           Full(m) == [m EXCEPT !.ok = TRUE]
           S == Matchings
           G == {m \in S : ~ (m.matched >= top) /\ Is(m).ok}
           next == [m \in S |-> Onward(blocksOf, m)]
           end == [m \in S |-> IF m.matched >= top THEN Full(m) ELSE Is(m)]
           rank == [m \in S |-> IF m.matched >= top THEN 0 ELSE top - m.matched]
           Step(f) == [m \in S |-> IF m \in G THEN f[next[m]] ELSE end[m]]
           Def(f) == [m \in S |-> IF m.matched >= top THEN Full(m)
                                  ELSE IF Is(m).ok THEN f[Onward(blocksOf, m)] ELSE Is(m)]
<1>1. \A m \in S : m.matched \in Nat
  BY DEF Matchings
<1>2. \A m \in S : Is(m) \in S /\ Is(m).matched = m.matched
  BY LaterMatched DEF Later
<1>3. \A m \in S : Full(m) \in S /\ Full(m).matched = m.matched /\ Full(m).ok
  BY DEF Matchings
<1>4. \A m \in S : next[m] \in S /\ next[m].matched = m.matched + 1
  BY OneMatched
<1>5. rank \in [S -> 0..top]
  <2> HIDE DEF S
  <2> QED
    BY <1>1
<1> HIDE DEF Is, Full, S
<1>6. \A m \in S : m \in G => next[m] \in S /\ rank[next[m]] < rank[m]
  <2> SUFFICES ASSUME NEW m \in S, m \in G PROVE rank[next[m]] < rank[m]
    BY <1>4
  <2>1. PICK n \in S : n = next[m] /\ n.matched = m.matched + 1
    BY <1>4
  <2>2. m.matched \in Nat /\ m.matched < top
    BY <1>1
  <2>3. rank[m] = top - m.matched
    BY <2>2
  <2>4. rank[n] = IF n.matched >= top THEN 0 ELSE top - n.matched
    OBVIOUS
  <2> HIDE DEF rank, next, G
  <2> QED
    BY <2>1, <2>2, <2>3, <2>4
<1>7. \A m \in S : end[m] \in S
  BY <1>2, <1>3
<1>8. Loop(S, rank, top, G, next, end)
  <2>1. S # {}
    BY DEF S
  <2> HIDE DEF G, next, end, rank
  <2> QED
    BY <1>5, <1>6, <1>7, <2>1 DEF Loop
<1>9. \A f : Step(f) = Def(f)
  OBVIOUS
<1>10. PICK f \in [S -> S] : f = Step(f)
  <2> HIDE DEF G, next, end, rank
  <2>1. PICK f \in [S -> S] : \A m \in S : f[m] = IF m \in G THEN f[next[m]] ELSE end[m]
    BY <1>8, LoopExists
  <2> QED
    BY <2>1
<1>11. OverBlocks(blocksOf, top) = CHOOSE g : g = Def(g)
  BY DEF OverBlocks, Is, Full, S
<1>12. PICK o : o = OverBlocks(blocksOf, top) /\ o = Step(o)
  <2> HIDE DEF Step, Def
  <2> QED
    BY <1>9, <1>10, <1>11
<1>13. \A m \in S : o[m] = IF m \in G THEN o[next[m]] ELSE end[m]
  <2> HIDE DEF G, next, end, rank
  <2> QED
    BY <1>12
<1> DEFINE R == {q \in S \X S : Matched(q[1], q[2], top)}
<1>14. \A m \in S : \A y : Matched(m, y, top) => <<m, y>> \in R
  BY DEF Matched, S
<1>15. \A m, y : <<m, y>> \in R => Matched(m, y, top)
  OBVIOUS
<1>16. \A m \in S : m \notin G => <<m, end[m]>> \in R
  <2> SUFFICES ASSUME NEW m \in S, m \notin G PROVE Matched(m, end[m], top)
    BY <1>14
  <2>1. CASE m.matched >= top
    <3>1. end[m] = Full(m)
      BY <2>1
    <3> HIDE DEF end
    <3> QED
      BY <1>1, <1>3, <2>1, <3>1 DEF Matched, S
  <2>2. CASE ~ (m.matched >= top)
    <3>1. end[m] = Is(m) /\ ~ Is(m).ok
      BY <2>2
    <3> HIDE DEF end
    <3> QED
      BY <1>1, <1>2, <2>2, <3>1 DEF Matched, S
  <2> QED
    BY <2>1, <2>2
<1>17. \A m \in S : m \in G => \A y : <<next[m], y>> \in R => <<m, y>> \in R
  <2> SUFFICES ASSUME NEW m \in S, m \in G, NEW y, <<next[m], y>> \in R PROVE Matched(m, y, top)
    BY <1>14
  <2>1. PICK n \in S : n = next[m] /\ n.matched = m.matched + 1
    BY <1>4
  <2>2. m.matched \in Nat /\ m.matched < top
    BY <1>1
  <2>3. Matched(n, y, top)
    BY <1>15, <2>1
  <2>4. y.matched \in Nat
    BY <2>3 DEF Matched, Matchings
  <2> HIDE DEF next, G, R
  <2> QED
    BY <2>1, <2>2, <2>3, <2>4 DEF Matched
<1>18. \A m \in S : <<m, o[m]>> \in R
  <2> HIDE DEF G, next, end, R, rank
  <2> QED
    BY <1>8, <1>13, <1>16, <1>17, LoopKeeps
<1>19. m0 \in S
  BY DEF S
<1> HIDE DEF R
<1> QED
  BY <1>12, <1>15, <1>18, <1>19

\* What the line matches, from the blocks that it has matched.
MatchedUpTo(x, y, top) ==
    /\ y \in State
    /\ y.simulate = x.simulate /\ y.blocks = x.blocks /\ y.matching = x.matching
    /\ y.soft = x.soft /\ y.closing = x.closing /\ y.found = x.found
    /\ x.matched <= y.matched
    /\ x.matched <= top => y.matched <= top /\ (y.ok <=> y.matched = top)

\* The blocks that a line matches are counted, in order, and that is all.
LEMMA MatchUpToMatches ==
    ASSUME DocOK, NEW x \in State, NEW top \in Nat
    PROVE  MatchedUpTo(x, MatchUpTo(x, top), top)
<1>1. PICK m \in Matchings :
          m = [at |-> x.at, column |-> x.column, indent |-> x.indent, matched |-> x.matched,
               ok |-> x.ok]
  BY DEF Matchings, State, Positions
<1>2. PICK y : y = OverBlocks(x.blocks, top)[m] /\ Matched(m, y, top)
  BY BlocksOver
<1>3. MatchUpTo(x, top) =
          [x EXCEPT !.at = y.at, !.column = y.column, !.indent = y.indent, !.matched = y.matched,
                    !.ok = y.ok]
  BY <1>1, <1>2 DEF MatchUpTo, OverBlocks, Onward, PutMatched, PutAt
<1>4. /\ y.at \in Positions /\ y.column \in 0..3 /\ y.indent \in 0..Wide - 1
      /\ y.matched \in Nat /\ y.ok \in BOOLEAN
  BY <1>2 DEF Matched, Matchings, Positions
<1>5. /\ x.matched <= y.matched
      /\ x.matched <= top => y.matched <= top /\ (y.ok <=> y.matched = top)
  BY <1>1, <1>2 DEF Matched
<1>6. PICK i \in Positions, c \in 0..3, n \in 0..Wide - 1, k \in Nat, ok \in BOOLEAN :
          i = y.at /\ c = y.column /\ n = y.indent /\ k = y.matched /\ ok = y.ok
  BY <1>4
<1>7. MatchUpTo(x, top) =
          [x EXCEPT !.at = i, !.column = c, !.indent = n, !.matched = k, !.ok = ok]
  BY <1>3, <1>6
<1>8. PICK z : z = MatchUpTo(x, top)
  OBVIOUS
<1>9. /\ z \in State /\ z.simulate = x.simulate /\ z.blocks = x.blocks /\ z.matching = x.matching
      /\ z.soft = x.soft /\ z.closing = x.closing /\ z.found = x.found
      /\ z.matched = k /\ z.ok = ok
  BY <1>7, <1>8 DEF State
<1> QED
  BY <1>5, <1>6, <1>8, <1>9 DEF MatchedUpTo

-----------------------------------------------------------------------------
(***************************************************************************)
(* The tokens that may begin a block.                                      *)
(***************************************************************************)
LEMMA TokenWords ==
    /\ Tokens \subseteq Word /\ Html \subseteq Tokens /\ "none" \in Word /\ "none" \notin Tokens
    /\ {"BLOCK_QUOTE_START", "INDENTED_CHUNK_START", "ATX_MARKER", "THEMATIC_BREAK",
        "LIST_MARKER", "LIST_MARKER_DONT_INTERRUPT", "FENCED_CODE_BLOCK_START",
        "BLANK_LINE_START", "PIPE_TABLE_START", "SETEXT_UNDERLINE", "METADATA",
        "FENCED_CODE_BLOCK_END_BACKTICK", "FENCED_CODE_BLOCK_END_TILDE", "LINE_ENDING",
        "SOFT_LINE_ENDING", "PIPE_TABLE_LINE_ENDING", "BLOCK_CLOSE", "BLOCK_CONTINUATION",
        "CLOSE_BLOCK", "EOF", "ERROR"} \subseteq Tokens
<1>1. Html \subseteq Tokens /\ Tokens \subseteq Word
  BY DEF Tokens, Word
<1>2. "none" \notin Tokens
  BY DEF Tokens, Starts, Html
<1> QED
  BY <1>1, <1>2 DEF Tokens, Starts, Word

\* A block may have begun, which in the look-ahead is not pushed.
Begun(x, y) ==
    /\ y \in State
    /\ y.simulate = x.simulate /\ y.matched = x.matched
    /\ y.matching = x.matching /\ y.soft = x.soft /\ y.closing = x.closing
    /\ y.blocks # x.blocks => ~ x.simulate /\ \E b \in Block : y.blocks = Append(x.blocks, b)

\* What only moves may be said to have begun a block or none.
LEMMA MovedBegun ==
    ASSUME NEW x, NEW y, Moved(x, y)
    PROVE  Begun(x, y)
BY DEF Moved, Books, Begun

LEMMA MovedTwice ==
    ASSUME NEW x, NEW y, NEW z, Moved(x, y), Moved(y, z)
    PROVE  Moved(x, z)
BY DEF Moved, Books

LEMMA BegunAfter ==
    ASSUME NEW x, NEW y, NEW z, Moved(x, y), Begun(y, z)
    PROVE  Begun(x, z)
BY DEF Moved, Books, Begun

LEMMA BegunThen ==
    ASSUME NEW x, NEW y, NEW z, Begun(x, y), Moved(y, z)
    PROVE  Begun(x, z)
BY DEF Moved, Books, Begun

LEMMA MovedFound ==
    ASSUME NEW x \in State, NEW t \in Word
    PROVE  Moved(x, Found(x, t)) /\ Found(x, t).found = t
BY DEF Moved, Books, State, Found

LEMMA MovedNothing ==
    ASSUME NEW x \in State
    PROVE  Moved(x, Nothing(x)) /\ Nothing(x).found = "none"
BY MovedFound, TokenWords DEF Nothing

LEMMA MovedEnd ==
    ASSUME DocOK, NEW x \in State, NEW e \in 0..Len(doc) + 1
    PROVE  Moved(x, [x EXCEPT !.end = e])
BY DEF Moved, Books, State

LEMMA MovedMarked ==
    ASSUME DocOK, NEW x \in State
    PROVE  Moved(x, mark_end(x))
<1>1. PICK e \in 0..Len(doc) + 1 : e = x.at
  BY AtFacts DEF State, Positions
<1>2. mark_end(x) = [x EXCEPT !.end = e]
  BY <1>1 DEF mark_end
<1> QED
  BY <1>2, MovedEnd

LEMMA MovedShifted ==
    ASSUME NEW x \in State, NEW n \in 0..Wide - 1
    PROVE  Moved(x, [x EXCEPT !.indent = n])
BY DEF Moved, Books, State

LEMMA MovedFlat ==
    ASSUME NEW x \in State
    PROVE  Moved(x, [x EXCEPT !.indent = 0])
<1>1. PICK n \in 0..Wide - 1 : n = 0
  BY WideAssumption
<1> QED
  BY <1>1, MovedShifted

LEMMA MovedFence ==
    ASSUME NEW x \in State, NEW n \in Nat
    PROVE  Moved(x, [x EXCEPT !.fence = n])
BY DEF Moved, Books, State

LEMMA MovedUnindented ==
    ASSUME DocOK, NEW x \in State
    PROVE  Moved(x, Unindented(x))
<1>1. PICK y \in State : y = [x EXCEPT !.indent = 0] /\ Moved(x, y)
  BY MovedFlat DEF Moved
<1>2. PICK z : z = Indented(y, Wide) /\ Moved(y, z)
  BY MovedIndented
<1> QED
  BY <1>1, <1>2, MovedTwice DEF Unindented

\* push_block, which does nothing while the scanner simulates.
LEMMA PushBegun ==
    ASSUME NEW x \in State, NEW b \in Block
    PROVE  Begun(x, push_block(x, b))
<1>1. CASE x.simulate
  BY <1>1 DEF push_block, Begun
<1>2. CASE ~ x.simulate
  <2>1. PICK s \in Seq(Block) : s = Append(x.blocks, b)
    <3>1. PICK o \in Seq(Block) : o = x.blocks
      BY DEF State
    <3>2. Append(o, b) \in Seq(Block)
      OBVIOUS
    <3> QED
      BY <3>1, <3>2
  <2>2. push_block(x, b) = [x EXCEPT !.blocks = s]
    BY <1>2, <2>1 DEF push_block
  <2> QED
    BY <1>2, <2>1, <2>2 DEF Begun, State
<1> QED
  BY <1>1, <1>2

\* The blank behind a ">".
LEMMA MovedQuote ==
    ASSUME DocOK, NEW x \in State
    PROVE  Moved(x, AfterQuote(x))
<1>1. PICK a \in State : a = advance(x) /\ Moved(x, a)
  BY Advanced DEF Moved
<1>2. PICK y \in State : y = [a EXCEPT !.indent = 0] /\ Moved(a, y)
  BY MovedFlat DEF Moved
<1>3. PICK z \in State : z = advance(y) /\ Moved(y, z)
  BY Advanced DEF Moved
<1>4. PICK n \in 0..Wide - 1 : n = Size(y) - 1
  <2>1. y.column \in 0..3
    BY DEF State
  <2>2. Size(y) \in 1..4
    BY <2>1, Sized
  <2> QED
    BY <2>2, WideAssumption
<1>5. PICK w \in State : w = [z EXCEPT !.indent = n] /\ Moved(z, w)
  BY MovedShifted DEF Moved
<1>6. AfterQuote(x) = IF Cur(y) \in Blank THEN w ELSE y
  BY <1>1, <1>2, <1>3, <1>4, <1>5 DEF AfterQuote
<1>7. Moved(x, y) /\ Moved(x, w)
  BY <1>1, <1>2, <1>3, <1>5, MovedTwice
<1> QED
  BY <1>6, <1>7

\* The value of a block fits the numbers there are.
LEMMA ItemBegun ==
    ASSUME NEW x \in State, NEW before \in 0..Wide - 1, NEW extra \in 0..Wide - 1, extra >= 1,
           NEW digits \in 0..9, NEW t \in Word
    PROVE  Begun(x, ListItem(x, before, extra, digits, t))
<1> DEFINE code == extra - 1 > 3
<1>1. PICK item \in 0..Wide - 1 : item = IF code THEN before ELSE (extra - 1 + before) % Wide
  <2>1. PICK n \in Nat : n = extra - 1 + before
    BY WideAssumption
  <2>2. n % Wide \in 0..Wide - 1
    BY Remainders
  <2> QED
    BY <2>1, <2>2
<1>2. PICK n \in 0..Wide - 1 : n = IF code THEN extra - 1 ELSE 0
  BY WideAssumption
<1>3. PICK b \in Block : b = LIST_ITEM + item + digits
  BY WideAssumption, BlockAssumption DEF LIST_ITEM
<1>4. PICK y \in State : y = [x EXCEPT !.indent = n] /\ Moved(x, y)
  BY MovedShifted DEF Moved
<1>5. PICK z \in State : z = push_block(y, b) /\ Begun(y, z)
  BY PushBegun DEF Begun
<1>6. PICK w \in State : w = Found(z, t) /\ Moved(z, w)
  BY MovedFound DEF Moved
<1>7. ListItem(x, before, extra, digits, t) = w
  BY <1>1, <1>2, <1>3, <1>4, <1>5, <1>6 DEF ListItem
<1> QED
  BY <1>4, <1>5, <1>6, <1>7, BegunAfter, BegunThen

\* The fields that are numbers.
LEMMA StateFields ==
    ASSUME DocOK, NEW x \in State
    PROVE  /\ Len(doc) \in Nat /\ x.at \in Positions /\ x.at \in Nat /\ x.at \in 0..Len(doc) + 1
           /\ x.column \in 0..3 /\ x.indent \in 0..Wide - 1
<1>1. Len(doc) \in Nat
  BY AtFacts
<1> QED
  BY <1>1 DEF State, Positions

\* parse_fenced_code_block begins or ends a block of code.
LEMMA FenceBegun ==
    ASSUME DocOK, NEW x \in State, NEW v, Cur(x) # "EOF"
    PROVE  Begun(x, parse_fenced_code_block(x, v))
<1> DEFINE d == Cur(x)
           End == IF d = "TICK" THEN "FENCED_CODE_BLOCK_END_BACKTICK"
                  ELSE "FENCED_CODE_BLOCK_END_TILDE"
<1>1. PICK o \in State : o = Over(x, {d}) /\ Moved(x, o) /\ o.at \in x.at..Len(doc) + 1
  <2>1. "EOF" \notin {d}
    OBVIOUS
  <2>2. Moved(x, Over(x, {d})) /\ Over(x, {d}).at \in x.at..Len(doc) + 1
    BY <2>1, MovedOver
  <2> QED
    BY <2>2 DEF Moved
<1>2. PICK y \in State : y = mark_end(o) /\ Moved(o, y) /\ y.at = o.at
  <2>1. mark_end(o).at = o.at
    BY DEF mark_end, State
  <2> QED
    BY <2>1, MovedMarked DEF Moved
<1>3. PICK level \in Nat : level = (y.at - x.at) % Wide
  <2>1. PICK n \in Nat : n = y.at - x.at
    <3>1. Len(doc) \in Nat /\ x.at \in Nat
      BY StateFields
    <3> QED
      BY <1>1, <1>2, <3>1
  <2>2. n % Wide \in 0..Wide - 1
    BY Remainders
  <2> QED
    BY <2>1, <2>2, WideAssumption
<1> DEFINE closes == End \in v /\ x.indent < 4 /\ level >= x.fence
<1>4. PICK z \in State : z = (IF closes THEN Over(y, Blank) ELSE y) /\ Moved(y, z)
  <2>1. "EOF" \notin Blank
    BY DEF Blank
  <2>2. Moved(y, Over(y, Blank)) /\ Moved(y, y)
    BY <2>1, MovedOver DEF Moved, Books
  <2> QED
    BY <2>2 DEF Moved
<1>5. PICK w \in State : w = (IF d = "TICK" THEN Over(z, Line \ {d}) ELSE z) /\ Moved(z, w)
  <2>1. PICK chars : chars = Line \ {d}
    OBVIOUS
  <2>2. "EOF" \notin chars
    BY <2>1, AtFacts
  <2>3. Moved(z, Over(z, chars)) /\ Moved(z, z)
    BY <2>2, MovedOver DEF Moved, Books
  <2> QED
    BY <2>1, <2>3 DEF Moved
<1>6. Moved(x, z) /\ Moved(x, w)
  BY <1>1, <1>2, <1>4, <1>5, MovedTwice
<1>7. PICK e \in Word : e = End
  BY TokenWords
<1>8. Begun(x, Found([z EXCEPT !.fence = 0], End))
  <2>1. PICK r \in State : r = [z EXCEPT !.fence = 0] /\ Moved(z, r)
    BY MovedFence DEF Moved
  <2>2. Moved(r, Found(r, e))
    BY MovedFound
  <2> QED
    BY <1>6, <1>7, <2>1, <2>2, MovedTwice, MovedBegun
<1>9. Begun(x, Found(push_block([w EXCEPT !.fence = level, !.indent = 0], FENCED_CODE_BLOCK),
                     "FENCED_CODE_BLOCK_START"))
  <2>1. PICK r \in State : r = [w EXCEPT !.fence = level] /\ Moved(w, r)
    BY MovedFence DEF Moved
  <2>2. PICK s \in State : s = [r EXCEPT !.indent = 0] /\ Moved(r, s)
    BY MovedFlat DEF Moved
  <2>3. PICK b \in Block : b = FENCED_CODE_BLOCK
    BY BlockAssumption, WideAssumption DEF FENCED_CODE_BLOCK
  <2>4. PICK p \in State : p = push_block(s, b) /\ Begun(s, p)
    BY PushBegun DEF Begun
  <2>5. PICK t \in Word : t = "FENCED_CODE_BLOCK_START"
    BY TokenWords
  <2>6. Moved(p, Found(p, t))
    BY MovedFound
  <2>7. Moved(x, s)
    BY <1>6, <2>1, <2>2, MovedTwice
  <2>8. Begun(x, Found(p, t))
    BY <2>4, <2>6, <2>7, BegunAfter, BegunThen
  <2> QED
    BY <2>1, <2>2, <2>3, <2>4, <2>5, <2>8
<1>10. Begun(x, Nothing(w))
  BY <1>6, MovedNothing, MovedTwice, MovedBegun
<1>11. parse_fenced_code_block(x, v) =
          IF closes /\ Cur(z) = "NL" THEN Found([z EXCEPT !.fence = 0], End)
          ELSE IF "FENCED_CODE_BLOCK_START" \in v /\ level >= 3 /\ (d = "TICK" => Cur(w) # d)
          THEN Found(push_block([w EXCEPT !.fence = level, !.indent = 0], FENCED_CODE_BLOCK),
                     "FENCED_CODE_BLOCK_START")
          ELSE Nothing(w)
  BY <1>1, <1>2, <1>3, <1>4, <1>5 DEF parse_fenced_code_block
<1> QED
  BY <1>8, <1>9, <1>10, <1>11

\* A line of markers: what is known of it does not depend on the token it makes.
LEMMA MarkersRead ==
    ASSUME DocOK, NEW x \in State, Cur(x) # "EOF"
    PROVE  /\ Moved(x, Markers(x).item) /\ Moved(x, Markers(x).whole)
           /\ Markers(x).extra \in 0..Wide - 1
<1> DEFINE m == Cur(x)
<1>1. PICK y \in State : y = advance(x) /\ Moved(x, y)
  BY Advanced DEF Moved
<1>2. PICK first \in State : first = Unindented(y) /\ Moved(y, first)
  BY MovedUnindented DEF Moved
<1>3. PICK last \in State : last = Over(first, {m} \cup Blank) /\ Moved(first, last)
  <2>1. PICK chars : chars = {m} \cup Blank
    OBVIOUS
  <2>2. "EOF" \notin chars
    BY <2>1 DEF Blank
  <2>3. Moved(first, Over(first, chars))
    BY <2>2, MovedOver
  <2> QED
    BY <2>1, <2>3 DEF Moved
<1>4. PICK e \in 0..Len(doc) + 1 : e = first.at
  BY StateFields
<1>5. PICK item \in State : item = [last EXCEPT !.end = e] /\ Moved(last, item)
  BY MovedEnd DEF Moved
<1>6. PICK flat \in State : flat = [last EXCEPT !.indent = 0] /\ Moved(last, flat)
  BY MovedFlat DEF Moved
<1>7. PICK whole \in State : whole = mark_end(flat) /\ Moved(flat, whole)
  BY MovedMarked DEF Moved
<1>8. Markers(x).item = item /\ Markers(x).whole = whole
  BY <1>1, <1>2, <1>3, <1>4, <1>5, <1>6, <1>7 DEF Markers
<1>9. Markers(x).extra = 1 \/ Markers(x).extra = first.indent
  BY <1>1, <1>2 DEF Markers
<1>10. first.indent \in 0..Wide - 1 /\ 1 \in 0..Wide - 1
  BY WideAssumption, StateFields
<1>11. Moved(x, item) /\ Moved(x, whole)
  BY <1>1, <1>2, <1>3, <1>5, <1>6, <1>7, MovedTwice
<1> QED
  BY <1>8, <1>9, <1>10, <1>11

LEMMA MarkedWord ==
    ASSUME NEW dont
    PROVE  Marker(dont) \in Word
BY TokenWords DEF Marker

\* parse_star.
LEMMA StarBegun ==
    ASSUME DocOK, NEW x \in State, NEW v, Cur(x) # "EOF"
    PROVE  Begun(x, parse_star(x, Markers(x), v))
<1>1. PICK m : m = Markers(x) /\ Moved(x, m.item) /\ Moved(x, m.whole) /\ m.extra \in 0..Wide - 1
  BY MarkersRead
<1>2. x.indent \in 0..Wide - 1
  BY DEF State
<1>3. Begun(x, Found(m.whole, "THEMATIC_BREAK"))
  <2>1. PICK t \in Word : t = "THEMATIC_BREAK"
    BY TokenWords
  <2>2. PICK w \in State : w = m.whole /\ Moved(x, w)
    BY <1>1 DEF Moved
  <2> QED
    BY <2>1, <2>2, MovedFound, MovedTwice, MovedBegun
<1>4. m.extra >= 1 => Begun(x, ListItem(m.item, x.indent, m.extra, 0, Marker(m.dont)))
  <2>1. PICK t \in Word : t = Marker(m.dont)
    BY MarkedWord
  <2>2. PICK w \in State : w = m.item /\ Moved(x, w)
    BY <1>1 DEF Moved
  <2>3. PICK before \in 0..Wide - 1, extra \in 0..Wide - 1 : before = x.indent /\ extra = m.extra
    BY <1>1, <1>2
  <2>4. PICK digits \in 0..9 : digits = 0
    OBVIOUS
  <2>5. extra >= 1 => Begun(w, ListItem(w, before, extra, digits, t))
    BY ItemBegun
  <2> QED
    BY <2>1, <2>2, <2>3, <2>4, <2>5, BegunAfter
<1>5. Begun(x, Nothing(x))
  BY MovedNothing, MovedBegun
<1>6. parse_star(x, m, v) =
          IF "THEMATIC_BREAK" \in v /\ m.count >= 3 /\ m.lineEnd /\ x.indent < 4
          THEN Found(m.whole, "THEMATIC_BREAK")
          ELSE IF Marker(m.dont) \in v /\ m.extra >= 1
          THEN ListItem(m.item, x.indent, m.extra, 0, Marker(m.dont))
          ELSE Nothing(x)
  BY DEF parse_star
<1> QED
  BY <1>1, <1>3, <1>4, <1>5, <1>6

\* A token is found further on, after which no block began.
LEMMA FoundAfter ==
    ASSUME NEW x, NEW y, NEW t \in Word, Moved(x, y)
    PROVE  Begun(x, Found(y, t))
<1>1. Moved(y, Found(y, t))
  BY MovedFound DEF Moved
<1> QED
  BY <1>1, MovedTwice, MovedBegun

\* A list item begins further on.
LEMMA ItemAfter ==
    ASSUME DocOK, NEW x \in State, NEW y, NEW extra \in 0..Wide - 1, NEW digits \in 0..9, NEW t \in Word,
           Moved(x, y), extra >= 1
    PROVE  Begun(x, ListItem(y, x.indent, extra, digits, t))
<1>1. PICK before \in 0..Wide - 1 : before = x.indent
  BY StateFields
<1>2. y \in State
  BY DEF Moved
<1>3. Begun(y, ListItem(y, before, extra, digits, t))
  BY <1>2, ItemBegun
<1> QED
  BY <1>1, <1>3, BegunAfter

\* parse_thematic_break_underscore.
LEMMA UnderscoreBegun ==
    ASSUME DocOK, NEW x \in State, NEW v, Cur(x) # "EOF"
    PROVE  Begun(x, parse_thematic_break_underscore(x, Markers(x), v))
<1>1. PICK m : m = Markers(x) /\ Moved(x, m.whole)
  BY MarkersRead
<1>2. PICK t \in Word : t = "THEMATIC_BREAK"
  BY TokenWords
<1>3. Begun(x, Found(m.whole, t)) /\ Begun(x, Nothing(x))
  BY <1>1, FoundAfter, MovedNothing, MovedBegun
<1> QED
  BY <1>1, <1>2, <1>3 DEF parse_thematic_break_underscore

\* parse_block_quote.
LEMMA QuoteBegun ==
    ASSUME DocOK, NEW x \in State, NEW v
    PROVE  Begun(x, parse_block_quote(x, v))
<1>1. PICK y \in State : y = AfterQuote(x) /\ Moved(x, y)
  BY MovedQuote DEF Moved
<1>2. PICK b \in Block : b = BLOCK_QUOTE
  BY BlockAssumption, WideAssumption DEF BLOCK_QUOTE
<1>3. PICK z \in State : z = push_block(y, b) /\ Begun(y, z)
  BY PushBegun DEF Begun
<1>4. PICK t \in Word : t = "BLOCK_QUOTE_START"
  BY TokenWords
<1>5. Begun(x, Found(z, t)) /\ Begun(x, Nothing(x))
  BY <1>1, <1>3, MovedFound, MovedNothing, MovedBegun, BegunAfter, BegunThen
<1> QED
  BY <1>1, <1>2, <1>3, <1>4, <1>5 DEF parse_block_quote

\* parse_atx_heading.
LEMMA HeadingBegun ==
    ASSUME DocOK, NEW x \in State, NEW v
    PROVE  Begun(x, parse_atx_heading(x, v))
<1>0. PICK chars : chars = {"#"}
  OBVIOUS
<1>1. "EOF" \notin chars
  BY <1>0
<1>2. PICK y \in State : y = Over(x, chars) /\ Moved(x, y)
  BY <1>1, MovedOver DEF Moved
<1>3. PICK z \in State : z = [y EXCEPT !.indent = 0] /\ Moved(y, z)
  BY MovedFlat DEF Moved
<1>4. PICK w \in State : w = mark_end(z) /\ Moved(z, w)
  BY MovedMarked DEF Moved
<1>5. PICK t \in Word : t = "ATX_MARKER"
  BY TokenWords
<1>6. Moved(x, w)
  BY <1>2, <1>3, <1>4, MovedTwice
<1>7. Begun(x, Found(w, t)) /\ Begun(x, Nothing(x))
  BY <1>6, FoundAfter, MovedNothing, MovedBegun
<1>8. parse_atx_heading(x, v) \in {Found(w, t), Nothing(x)}
  BY <1>0, <1>2, <1>3, <1>4, <1>5 DEF parse_atx_heading
<1> QED
  BY <1>7, <1>8

\* parse_setext_underline.
LEMMA UnderlineBegun ==
    ASSUME DocOK, NEW x \in State, NEW v
    PROVE  Begun(x, parse_setext_underline(x, v))
<1>0. PICK chars : chars = {"="}
  OBVIOUS
<1>1. "EOF" \notin chars
  BY <1>0
<1>2. PICK u \in State : u = Over(x, chars) /\ Moved(x, u)
  BY <1>1, MovedOver DEF Moved
<1>3. PICK y \in State : y = Over(u, Blank) /\ Moved(u, y)
  <2>1. "EOF" \notin Blank
    BY DEF Blank
  <2> QED
    BY <2>1, MovedOver DEF Moved
<1>4. PICK w \in State : w = mark_end(y) /\ Moved(y, w)
  BY MovedMarked DEF Moved
<1>5. PICK t \in Word : t = "SETEXT_UNDERLINE"
  BY TokenWords
<1>6. Moved(x, w)
  BY <1>2, <1>3, <1>4, MovedTwice
<1>7. Begun(x, Found(w, t)) /\ Begun(x, Nothing(x))
  BY <1>6, FoundAfter, MovedNothing, MovedBegun
<1>8. parse_setext_underline(x, v) \in {Found(w, t), Nothing(x)}
  BY <1>0, <1>2, <1>3, <1>4, <1>5 DEF parse_setext_underline
<1> QED
  BY <1>7, <1>8

\* The loop over the lines of the metadata: no block begins.
LEMMA MetadataMoved ==
    ASSUME DocOK, NEW x \in State, NEW m, m # "EOF"
    PROVE  Moved(x, Metadata(x, m))
<1> DEFINE last(i) == First(i + 3, Blank)
           starts == {i \in x.at + 1..Len(doc) :
                         doc[i - 1] = "NL" /\ First(i, {m}) = i + 3 /\ At(last(i)) = "NL"}
           start == CHOOSE i \in starts : \A k \in starts : i <= k
<1>1. Len(doc) \in Nat /\ x.at \in Nat /\ x.at \in Positions
  BY StateFields
<1>2. CASE starts = {}
  <2>1. Metadata(x, m) = Nothing(x)
    BY <1>2 DEF Metadata
  <2> QED
    BY <2>1, MovedNothing
<1>3. CASE starts # {}
  <2>1. starts \subseteq Nat
    BY <1>1
  <2>2. PICK i \in starts : i = start
    <3> HIDE DEF starts
    <3>1. \E i \in starts : \A k \in starts : i <= k
      BY <1>3, <2>1, LeastNumber
    <3> QED
      BY <3>1
  <2>3. i \in x.at + 1..Len(doc) /\ First(i, {m}) = i + 3 /\ At(last(i)) = "NL"
    OBVIOUS
  <2> HIDE DEF starts
  <2>4. PICK j : j = i + 3 /\ j \in Positions /\ j > x.at
    <3>1. i \in Positions
      BY <1>1, <2>3 DEF Positions
    <3>2. PICK chars : chars = {m}
      OBVIOUS
    <3>3. First(i, chars) \in i..Len(doc) + 1
      <4>1. "EOF" \notin chars
        BY <3>2
      <4> QED
        BY <3>1, <4>1, FirstIs
    <3> QED
      BY <1>1, <2>3, <3>2, <3>3 DEF Positions
  <2>5. PICK l : l = last(i) /\ l \in j..Len(doc) + 1
    <3>1. "EOF" \notin Blank
      BY DEF Blank
    <3> QED
      BY <2>4, <3>1, FirstIs
  <2>6. l <= Len(doc)
    <3>1. At(l) = "NL" /\ l \in Positions
      BY <1>1, <2>3, <2>4, <2>5 DEF Positions
    <3>2. At(l) # "EOF"
      BY <3>1
    <3> QED
      BY <1>1, <3>1, <3>2, AtFacts DEF Positions
  <2>7. PICK n \in x.at..Len(doc) + 1 : n = l + 1
    BY <1>1, <2>4, <2>5, <2>6 DEF Positions
  <2>8. PICK y \in State : y = To(x, n) /\ Moved(x, y)
    BY MovedTo DEF Moved
  <2>9. PICK z \in State : z = mark_end(y) /\ Moved(y, z)
    BY MovedMarked DEF Moved
  <2>10. PICK t \in Word : t = "METADATA"
    BY TokenWords
  <2>11. Moved(z, Found(z, t))
    BY MovedFound
  <2>12. Metadata(x, m) = Found(mark_end(To(x, last(start) + 1)), "METADATA")
    BY <1>3 DEF Metadata, starts
  <2>13. Metadata(x, m) = Found(z, t)
    BY <2>2, <2>5, <2>7, <2>8, <2>9, <2>10, <2>12
  <2> QED
    BY <2>8, <2>9, <2>11, <2>13, MovedTwice
<1> QED
  BY <1>2, <1>3

\* parse_plus.
LEMMA PlusBegun ==
    ASSUME DocOK, NEW x \in State, NEW v, Cur(x) # "EOF"
    PROVE  Begun(x, parse_plus(x, v))
<1>1. PICK y \in State : y = advance(x) /\ Moved(x, y)
  BY Advanced DEF Moved
<1>2. PICK z \in State : z = Unindented(y) /\ Moved(y, z)
  BY MovedUnindented DEF Moved
<1>3. PICK w \in State : w = mark_end(z) /\ Moved(z, w)
  BY MovedMarked DEF Moved
<1> DEFINE empty == Cur(z) = "NL"
<1>4. PICK extra \in 0..Wide - 1 : extra = IF empty THEN 1 ELSE z.indent
  BY WideAssumption, StateFields
<1>5. PICK t \in Word : t = Marker(empty /\ AllMatched(x))
  BY MarkedWord
<1>6. PICK three \in State : three = Over(y, {"+"}) /\ Moved(y, three)
  <2>1. "EOF" \notin {"+"}
    OBVIOUS
  <2>2. PICK chars : chars = {"+"}
    OBVIOUS
  <2>3. Moved(y, Over(y, chars))
    BY <2>1, <2>2, MovedOver
  <2> QED
    BY <2>2, <2>3 DEF Moved
<1>7. PICK open \in State : open = Over(three, Blank) /\ Moved(three, open)
  <2>1. "EOF" \notin Blank
    BY DEF Blank
  <2> QED
    BY <2>1, MovedOver DEF Moved
<1>8. PICK p : p = "+" /\ p # "EOF"
  OBVIOUS
<1>9. PICK data \in State : data = Metadata(open, p) /\ Moved(open, data)
  BY <1>8, MetadataMoved DEF Moved
<1>10. Moved(x, w) /\ Moved(x, data)
  BY <1>1, <1>2, <1>3, <1>6, <1>7, <1>9, MovedTwice
<1>11. PICK digits \in 0..9 : digits = 0
  OBVIOUS
<1>12. Begun(x, Nothing(x)) /\ Begun(x, data)
  BY <1>10, MovedNothing, MovedBegun
<1>13. extra >= 1 => Begun(x, ListItem(w, x.indent, extra, digits, t))
  BY <1>10, ItemAfter
<1>14. \/ parse_plus(x, v) \in {Nothing(x), data}
       \/ extra >= 1 /\ parse_plus(x, v) = ListItem(w, x.indent, extra, digits, t)
  BY <1>1, <1>2, <1>3, <1>4, <1>5, <1>6, <1>7, <1>8, <1>9, <1>11 DEF parse_plus
<1> QED
  BY <1>12, <1>13, <1>14

\* parse_ordered_list_marker: a number has nine digits at most.
LEMMA OrderedBegun ==
    ASSUME DocOK, NEW x \in State, NEW v
    PROVE  Begun(x, parse_ordered_list_marker(x, v))
<1>1. PICK y \in State : y = Over(x, {"1"}) /\ Moved(x, y) /\ y.at \in x.at..Len(doc) + 1
  <2>1. "EOF" \notin {"1"}
    OBVIOUS
  <2>2. PICK chars : chars = {"1"}
    OBVIOUS
  <2>3. Moved(x, Over(x, chars)) /\ Over(x, chars).at \in x.at..Len(doc) + 1
    BY <2>1, <2>2, MovedOver
  <2> QED
    BY <2>2, <2>3 DEF Moved
<1>2. PICK digits \in Nat : digits = y.at - x.at
  BY <1>1, StateFields
<1>3. PICK a \in State : a = advance(y) /\ Moved(y, a)
  BY Advanced DEF Moved
<1>4. PICK z \in State : z = Unindented(a) /\ Moved(a, z)
  BY MovedUnindented DEF Moved
<1>5. PICK w \in State : w = mark_end(z) /\ Moved(z, w)
  BY MovedMarked DEF Moved
<1> DEFINE empty == Cur(z) = "NL"
<1>6. PICK extra \in 0..Wide - 1 : extra = IF empty THEN 1 ELSE z.indent
  BY WideAssumption, StateFields
<1>7. PICK t \in Word : t = "LIST_MARKER"
  BY TokenWords
<1>8. Moved(x, w)
  BY <1>1, <1>3, <1>4, <1>5, MovedTwice
<1>9. Begun(x, Nothing(x))
  BY MovedNothing, MovedBegun
<1>10. extra >= 1 /\ digits \in 0..9 => Begun(x, ListItem(w, x.indent, extra, digits, t))
  BY <1>8, ItemAfter
<1>11. \/ parse_ordered_list_marker(x, v) = Nothing(x)
       \/ /\ extra >= 1 /\ digits <= 9
          /\ parse_ordered_list_marker(x, v) = ListItem(w, x.indent, extra, digits, t)
  BY <1>1, <1>2, <1>3, <1>4, <1>5, <1>6, <1>7 DEF parse_ordered_list_marker
<1> QED
  BY <1>9, <1>10, <1>11

\* parse_minus: of all that it may find only the list item is a block.
LEMMA MinusBegun ==
    ASSUME DocOK, NEW x \in State, NEW v, Cur(x) # "EOF"
    PROVE  Begun(x, parse_minus(x, Markers(x), v))
<1>1. PICK m : m = Markers(x) /\ Moved(x, m.item) /\ Moved(x, m.whole) /\ m.extra \in 0..Wide - 1
  BY MarkersRead
<1>2. PICK item \in State, whole \in State, extra \in 0..Wide - 1 :
          item = m.item /\ whole = m.whole /\ extra = m.extra
  BY <1>1 DEF Moved
<1> DEFINE rule == IF "SETEXT_UNDERLINE" \in v /\ ~ m.apart /\ m.lineEnd /\ AllMatched(x)
                   THEN "SETEXT_UNDERLINE"
                   ELSE IF "THEMATIC_BREAK" \in v /\ m.count >= 3 /\ m.lineEnd
                   THEN "THEMATIC_BREAK" ELSE "none"
           Or(y, z) == IF y.found # "none" THEN y ELSE [z EXCEPT !.column = y.column]
<1>3. PICK r \in Word : r = rule
  BY TokenWords
<1>4. PICK data \in State :
          /\ data = (IF "METADATA" \in v /\ m.count = 3 /\ ~ m.apart /\ m.lineEnd
                     THEN Metadata(whole, "-") ELSE Nothing(whole))
          /\ Moved(whole, data)
  <2>1. PICK p : p = "-" /\ p # "EOF"
    OBVIOUS
  <2>2. Moved(whole, Metadata(whole, p)) /\ Moved(whole, Nothing(whole))
    BY <2>1, MetadataMoved, MovedNothing
  <2> QED
    BY <2>1, <2>2 DEF Moved
<1>5. PICK ruled \in State : ruled = Found(whole, r) /\ Moved(whole, ruled)
  BY MovedFound DEF Moved
<1>6. PICK apart \in State : apart = [ruled EXCEPT !.column = data.column] /\ Moved(ruled, apart)
  <2>1. PICK c \in 0..3 : c = data.column
    BY StateFields
  <2>2. Moved(ruled, [ruled EXCEPT !.column = c])
    BY DEF Moved, Books, State
  <2> QED
    BY <2>1, <2>2 DEF Moved
<1>7. Moved(x, data) /\ Moved(x, apart)
  BY <1>1, <1>2, <1>4, <1>5, <1>6, MovedTwice
<1>8. Begun(x, Nothing(x)) /\ Begun(x, data) /\ Begun(x, apart)
  BY <1>7, MovedNothing, MovedBegun
<1>9. PICK t \in Word, digits \in 0..9 : t = Marker(m.dont) /\ digits = 0
  BY MarkedWord
<1>10. extra >= 1 => Begun(x, ListItem(item, x.indent, extra, digits, t))
  BY <1>1, <1>2, ItemAfter
<1> HIDE DEF rule
<1>11. \/ parse_minus(x, m, v) = Nothing(x)
       \/ extra >= 1 /\ parse_minus(x, m, v) = ListItem(item, x.indent, extra, digits, t)
       \/ parse_minus(x, m, v) = Or(data, ruled)
  BY <1>2, <1>3, <1>4, <1>5, <1>9 DEF parse_minus, rule
<1>12. Or(data, ruled) \in {data, apart}
  BY <1>6
<1> QED
  BY <1>1, <1>8, <1>10, <1>11, <1>12

\* parse_html_block.
LEMMA HtmlBegun ==
    ASSUME DocOK, NEW x \in State, NEW v, Cur(x) \in Html
    PROVE  Begun(x, parse_html_block(x, v))
<1>1. PICK t \in Word : t = Cur(x)
  BY TokenWords
<1>2. PICK a \in State : a = advance(x) /\ Moved(x, a)
  BY Advanced DEF Moved
<1>3. PICK y \in State : y = Found(a, t) /\ Moved(a, y)
  BY MovedFound DEF Moved
<1>4. PICK b \in Block : b = ANONYMOUS
  BY BlockAssumption, WideAssumption DEF ANONYMOUS
<1>5. Begun(x, Nothing(x)) /\ Begun(x, y) /\ Begun(x, push_block(y, b))
  BY <1>2, <1>3, MovedNothing, MovedTwice, MovedBegun, PushBegun, BegunAfter
<1>6. parse_html_block(x, v) \in {Nothing(x), y, push_block(y, b)}
  BY <1>1, <1>2, <1>3, <1>4 DEF parse_html_block
<1> QED
  BY <1>5, <1>6

\* parse_pipe_table counts the blocks of the second line, and puts matched back.
LEMMA TableBegun ==
    ASSUME DocOK, NEW x \in State
    PROVE  Begun(x, parse_pipe_table(x))
<1>1. PICK header \in State : header = Over(x, Line) /\ Moved(x, header)
  BY AtFacts, MovedOver DEF Moved
<1>2. PICK a \in State : a = advance(header) /\ Moved(header, a)
  BY Advanced DEF Moved
<1>3. PICK below \in State :
          /\ below = [a EXCEPT !.indent = 0, !.column = 0, !.matched = 0]
          /\ below.simulate = a.simulate /\ below.blocks = a.blocks
          /\ below.matching = a.matching /\ below.soft = a.soft /\ below.closing = a.closing
  <2>1. PICK n \in 0..Wide - 1, c \in 0..3, k \in Nat : n = 0 /\ c = 0 /\ k = 0
    BY WideAssumption
  <2>2. PICK y : y = [a EXCEPT !.indent = n, !.column = c, !.matched = k]
    OBVIOUS
  <2>3. /\ y \in State /\ y.simulate = a.simulate /\ y.blocks = a.blocks
        /\ y.matching = a.matching /\ y.soft = a.soft /\ y.closing = a.closing
    BY <2>2 DEF State
  <2> QED
    BY <2>1, <2>2, <2>3
<1>4. PICK i \in State : i = Indented(below, Wide) /\ Moved(below, i)
  BY MovedIndented DEF Moved
<1>5. PICK top \in Nat : top = Len(x.blocks)
  BY DEF State
<1>6. PICK row2 \in State : row2 = MatchUpTo(i, top) /\ MatchedUpTo(i, row2, top)
  BY MatchUpToMatches DEF MatchedUpTo
<1>7. PICK last \in State : last = Over(row2, Line) /\ Moved(row2, last)
  BY AtFacts, MovedOver DEF Moved
<1>8. PICK e \in 0..Len(doc) + 1, k \in Nat, t \in Word :
          e = x.at /\ k = x.matched /\ t = "PIPE_TABLE_START"
  <2>1. x.matched \in Nat
    BY DEF State
  <2> QED
    BY <2>1, StateFields, TokenWords
<1>9. PICK y : y = [last EXCEPT !.end = e, !.matched = k]
  OBVIOUS
<1>10. /\ y \in State /\ y.simulate = last.simulate /\ y.blocks = last.blocks /\ y.matched = k
       /\ y.matching = last.matching /\ y.soft = last.soft /\ y.closing = last.closing
  BY <1>9 DEF State
<1>11. Moved(x, y)
  BY <1>1, <1>2, <1>3, <1>4, <1>6, <1>7, <1>8, <1>10 DEF Moved, Books, MatchedUpTo
<1>12. Begun(x, Found(y, t)) /\ Begun(x, Nothing(x))
  BY <1>11, FoundAfter, MovedNothing, MovedBegun
<1>13. parse_pipe_table(x) \in {Found(y, t), Nothing(x)}
  BY <1>1, <1>2, <1>3, <1>4, <1>5, <1>6, <1>7, <1>8, <1>9 DEF parse_pipe_table
<1> QED
  BY <1>12, <1>13

\* Whichever function parses the first character, at most one block begins.
LEMMA BlockAtBegun ==
    ASSUME DocOK, NEW x \in State, NEW v
    PROVE  Begun(x, BlockAt(x, v))
<1>1. Begun(x, Nothing(x))
  BY MovedNothing, MovedBegun
<1>2. CASE Cur(x) = "NL"
  <2>1. PICK t \in Word : t = "BLANK_LINE_START"
    BY TokenWords
  <2>2. Moved(x, x)
    BY DEF Moved, Books
  <2>3. Begun(x, Found(x, t))
    BY <2>2, FoundAfter
  <2>4. BlockAt(x, v) \in {Found(x, t), Nothing(x)}
    BY <1>2, <2>1 DEF BlockAt, Html
  <2> QED
    BY <1>1, <2>3, <2>4
<1>3. CASE Cur(x) \in {"TICK", "~"}
  <2>1. BlockAt(x, v) = parse_fenced_code_block(x, v)
    BY <1>3 DEF BlockAt, Html
  <2> QED
    BY <1>3, <2>1, FenceBegun
<1>4. CASE Cur(x) = "*"
  <2>1. BlockAt(x, v) = parse_star(x, Markers(x), v)
    BY <1>4 DEF BlockAt, Html
  <2> QED
    BY <1>4, <2>1, StarBegun
<1>5. CASE Cur(x) = "_"
  <2>1. BlockAt(x, v) = parse_thematic_break_underscore(x, Markers(x), v)
    BY <1>5 DEF BlockAt, Html
  <2> QED
    BY <1>5, <2>1, UnderscoreBegun
<1>6. CASE Cur(x) = ">"
  <2>1. BlockAt(x, v) = parse_block_quote(x, v)
    BY <1>6 DEF BlockAt, Html
  <2> QED
    BY <2>1, QuoteBegun
<1>7. CASE Cur(x) = "#"
  <2>1. BlockAt(x, v) = parse_atx_heading(x, v)
    BY <1>7 DEF BlockAt, Html
  <2> QED
    BY <2>1, HeadingBegun
<1>8. CASE Cur(x) = "="
  <2>1. BlockAt(x, v) = parse_setext_underline(x, v)
    BY <1>8 DEF BlockAt, Html
  <2> QED
    BY <2>1, UnderlineBegun
<1>9. CASE Cur(x) = "+"
  <2>1. BlockAt(x, v) = parse_plus(x, v)
    BY <1>9 DEF BlockAt, Html
  <2> QED
    BY <1>9, <2>1, PlusBegun
<1>10. CASE Cur(x) = "1"
  <2>1. BlockAt(x, v) = parse_ordered_list_marker(x, v)
    BY <1>10 DEF BlockAt, Html
  <2> QED
    BY <2>1, OrderedBegun
<1>11. CASE Cur(x) = "-"
  <2>1. BlockAt(x, v) = parse_minus(x, Markers(x), v)
    BY <1>11 DEF BlockAt, Html
  <2> QED
    BY <1>11, <2>1, MinusBegun
<1>12. CASE Cur(x) \in Html
  <2>1. BlockAt(x, v) = parse_html_block(x, v)
    BY <1>12 DEF BlockAt, Html
  <2> QED
    BY <1>12, <2>1, HtmlBegun
<1>13. CASE Cur(x) \notin {"NL", "TICK", "~", "*", "_", ">", "#", "=", "+", "1", "-"} \cup Html
  <2>1. BlockAt(x, v) \in {parse_pipe_table(x), Nothing(x)}
    BY <1>13 DEF BlockAt
  <2> QED
    BY <1>1, <2>1, TableBegun
<1> QED
  BY <1>2, <1>3, <1>4, <1>5, <1>6, <1>7, <1>8, <1>9, <1>10, <1>11, <1>12, <1>13

\* What begins, if anything; if nothing does, nothing has changed.
LEMMA BeginBegun ==
    ASSUME DocOK, NEW x \in State, NEW v
    PROVE  /\ Begun(x, Begin(x, v))
           /\ Begin(x, v).found = "none" => Moved(x, Begin(x, v))
<1>1. PICK y \in State : y = Indented(x, Wide) /\ Moved(x, y)
  BY MovedIndented DEF Moved
<1>2. PICK t \in Word, b \in Block :
          t = "INDENTED_CHUNK_START" /\ b = INDENTED_CODE_BLOCK /\ t # "none"
  BY TokenWords, BlockAssumption, WideAssumption DEF INDENTED_CODE_BLOCK
<1> DEFINE code == Found(push_block([y EXCEPT !.indent = @ - 4], INDENTED_CODE_BLOCK),
                         "INDENTED_CHUNK_START")
<1>3. y.indent >= 4 => Begun(x, code) /\ code.found # "none"
  <2> SUFFICES ASSUME y.indent >= 4 PROVE Begun(x, code) /\ code.found # "none"
    OBVIOUS
  <2>1. PICK n \in 0..Wide - 1 : n = y.indent - 4
    BY StateFields, WideAssumption
  <2>2. PICK z \in State : z = [y EXCEPT !.indent = n] /\ Moved(y, z)
    BY MovedShifted DEF Moved
  <2>3. PICK p \in State : p = push_block(z, b) /\ Begun(z, p)
    BY PushBegun DEF Begun
  <2>4. code = Found(p, t)
    BY <1>2, <2>1, <2>2, <2>3
  <2> HIDE DEF code
  <2>5. Moved(p, Found(p, t)) /\ Found(p, t).found = t
    BY MovedFound
  <2>6. Moved(x, z)
    BY <1>1, <2>2, MovedTwice
  <2> QED
    BY <1>2, <2>3, <2>4, <2>5, <2>6, BegunAfter, BegunThen
<1>4. PICK w \in State : w = BlockAt(y, v) /\ Begun(y, w)
  BY BlockAtBegun DEF Begun
<1>5. Begun(x, w) /\ Begun(x, y)
  BY <1>1, <1>4, BegunAfter, MovedBegun
<1>6. \/ y.indent >= 4 /\ Begin(x, v) = code
      \/ Begin(x, v) = IF w.found = "none" THEN y ELSE w
  BY <1>1, <1>4 DEF Begin, BeginAfterBlanks, OrElse
<1> HIDE DEF code
<1> QED
  BY <1>1, <1>3, <1>5, <1>6

-----------------------------------------------------------------------------
(***************************************************************************)
(* Lines.                                                                  *)
(***************************************************************************)
\* A block is matched, the innermost is closed, or, in a paragraph, neither.
Continued(x, z) ==
    LET size == Len(x.blocks)
        last == x.closing /\ x.matched = size - 1
    IN  /\ z \in State
        /\ z.simulate = x.simulate /\ z.soft = x.soft
        /\ \/ /\ z.found # "none"
              /\ z.matched \in x.matched + 1..size
              /\ z.blocks = x.blocks /\ z.closing = x.closing
              /\ z.matching = (z.matched < size /\ (x.soft => x.closing /\ z.matched = size - 1))
           \/ /\ z.found # "none" /\ ~ x.soft
              /\ z.matched = x.matched
              /\ z.blocks = SubSeq(x.blocks, 1, size - 1)
              /\ z.matching = (z.matched < size - 1)
              /\ z.closing = (x.closing /\ ~ last)
           \/ /\ z.found = "none" /\ x.soft
              /\ z.matched = x.matched /\ z.blocks = x.blocks
              /\ z.closing = (x.closing /\ ~ last)

\* The numbers of Continue: matched before is i and after is j, sought were top.
LEMMA ContinueArithmetic ==
    ASSUME NEW size \in Nat, NEW i \in Nat, NEW j \in Nat, NEW top \in Nat,
           NEW closes \in BOOLEAN, NEW softly \in BOOLEAN, NEW ok \in BOOLEAN,
           i < size, top = size - (IF closes THEN 1 ELSE 0), i <= j, j <= top, ok <=> j = top
    PROVE  /\ j > i => /\ j \in i + 1..size
                       /\ (closes /\ (j > i \/ ~ ok)) <=> closes
                       /\ (ok \/ ~ softly) /\ j # size
                             <=> j < size /\ (softly => closes /\ j = size - 1)
           /\ ~ (j > i) => /\ j = i
                           /\ (closes /\ (j > i \/ ~ ok)) <=> (closes /\ ~ (closes /\ i = size - 1))
                           /\ j # size - 1 <=> j < size - 1
OBVIOUS

\* A block that the parser asked to close is not matched any more.
Sought(x, top) ==
    x.matched < Len(x.blocks) /\ top = Len(x.blocks) - (IF x.closing THEN 1 ELSE 0)

\* Continue: STATE_MATCHING, STATE_CLOSE_BLOCK and the stack after a line was matched.
LEMMA ContinueContinues ==
    ASSUME DocOK, NEW x \in State, x.found = "none",
           NEW top \in Nat, Sought(x, top), NEW y, MatchedUpTo(x, y, top)
    PROVE  Continued(x, Continue(x, y))
<1>1. /\ x.blocks \in Seq(Block) /\ x.matched \in Nat
      /\ x.closing \in BOOLEAN /\ x.soft \in BOOLEAN
  BY DEF State
<1>2. /\ y \in State /\ y.simulate = x.simulate /\ y.blocks = x.blocks
      /\ y.soft = x.soft /\ y.closing = x.closing /\ y.found = x.found
      /\ x.matched <= y.matched /\ y.matched <= top /\ (y.ok <=> y.matched = top)
      /\ y.matched \in Nat /\ y.ok \in BOOLEAN
  <2>1. x.matched <= top
    <3>1. PICK n \in Nat, i \in Nat : n = Len(x.blocks) /\ i = x.matched
      BY <1>1
    <3>2. PICK d \in {0, 1} : d = IF x.closing THEN 1 ELSE 0
      OBVIOUS
    <3>3. i < n /\ top = n - d
      BY <3>1, <3>2 DEF Sought
    <3>4. i <= top
      BY ONLY i \in Nat, n \in Nat, top \in Nat, d \in {0, 1}, <3>3
    <3> QED
      BY <3>1, <3>4
  <2>2. y \in State /\ y.matched \in Nat /\ y.ok \in BOOLEAN
    BY DEF MatchedUpTo, State
  <2> QED
    BY <2>1, <2>2 DEF MatchedUpTo
<1>3. PICK size \in Nat, i \in Nat, j \in Nat, closes \in BOOLEAN, softly \in BOOLEAN, ok \in BOOLEAN :
          /\ size = Len(x.blocks) /\ i = x.matched /\ j = y.matched
          /\ closes = x.closing /\ softly = x.soft /\ ok = y.ok
  <2>1. Len(x.blocks) \in Nat
    BY <1>1
  <2> QED
    BY <1>1, <1>2, <2>1
<1>4. /\ j > i => /\ j \in i + 1..size
                  /\ (closes /\ (j > i \/ ~ ok)) <=> closes
                  /\ (ok \/ ~ softly) /\ j # size
                         <=> j < size /\ (softly => closes /\ j = size - 1)
      /\ ~ (j > i) => /\ j = i
                      /\ (closes /\ (j > i \/ ~ ok)) <=> (closes /\ ~ (closes /\ i = size - 1))
                      /\ j # size - 1 <=> j < size - 1
  <2>1. i < size /\ top = size - (IF closes THEN 1 ELSE 0) /\ i <= j /\ j <= top /\ (ok <=> j = top)
    BY <1>2, <1>3 DEF Sought
  <2> QED
    BY <2>1, ContinueArithmetic
<1>5. PICK c \in BOOLEAN, k \in BOOLEAN, last \in BOOLEAN :
          /\ c <=> (closes /\ (j > i \/ ~ ok))
          /\ k <=> (ok \/ ~ softly)
          /\ last <=> (k /\ j # size)
  <2> DEFINE c == closes /\ (j > i \/ ~ ok)
             k == ok \/ ~ softly
             last == k /\ j # size
  <2>1. c \in BOOLEAN /\ k \in BOOLEAN /\ last \in BOOLEAN
    OBVIOUS
  <2> QED
    BY <2>1
<1>6. PICK after : after = [y EXCEPT !.closing = c, !.matching = k]
  OBVIOUS
<1>7. /\ after \in State /\ after.simulate = y.simulate /\ after.blocks = y.blocks
      /\ after.soft = y.soft /\ after.found = y.found /\ after.matched = y.matched
      /\ after.closing = c /\ after.matching = k
  BY <1>2, <1>6 DEF State
<1>8. PICK goes \in Word, shuts \in Word :
          goes = "BLOCK_CONTINUATION" /\ shuts = "BLOCK_CLOSE" /\ goes # "none" /\ shuts # "none"
  BY TokenWords
<1>9. PICK z : z = Continue(x, y)
  OBVIOUS
<1>10. after = [y EXCEPT !.closing = @ /\ (y.matched > x.matched \/ ~ y.ok),
                         !.matching = y.ok \/ ~ x.soft]
  <2>1. c = (y.closing /\ (y.matched > x.matched \/ ~ y.ok))
    BY <1>2, <1>3, <1>5
  <2>2. k = (y.ok \/ ~ x.soft)
    BY <1>3, <1>5
  <2> QED
    BY <1>6, <2>1, <2>2
<1>11. z = IF y.matched > x.matched
           THEN Found([after EXCEPT !.matching = @ /\ y.matched # Len(x.blocks)], goes)
           ELSE IF x.soft THEN after
           ELSE Found([after EXCEPT !.blocks = SubSeq(@, 1, Len(x.blocks) - 1),
                                    !.matching = y.matched # Len(x.blocks) - 1], shuts)
  BY <1>8, <1>9, <1>10 DEF Continue
<1>12. CASE j > i
  <2>1. last = (after.matching /\ y.matched # Len(x.blocks))
    BY <1>3, <1>5, <1>7
  <2>2. z = Found([after EXCEPT !.matching = last], goes)
    BY <1>3, <1>11, <1>12, <2>1
  <2>3. /\ z \in State /\ z.simulate = after.simulate /\ z.blocks = after.blocks
        /\ z.soft = after.soft /\ z.found = goes /\ z.matched = after.matched
        /\ z.closing = after.closing /\ z.matching = last
    BY <1>7, <2>2 DEF State, Found
  <2>4. z.matched = j /\ z.closing = x.closing /\ z.soft = x.soft /\ z.blocks = x.blocks
        /\ z.simulate = x.simulate
    BY <1>2, <1>3, <1>4, <1>5, <1>7, <1>12, <2>3
  <2>5. z.matching = (j < size /\ (softly => closes /\ j = size - 1))
    BY <1>4, <1>5, <1>12, <2>3
  <2>6. z.matching = (z.matched < Len(x.blocks)
                         /\ (x.soft => x.closing /\ z.matched = Len(x.blocks) - 1))
    BY <1>3, <2>4, <2>5
  <2>7. z.matched \in x.matched + 1..Len(x.blocks)
    BY <1>3, <1>4, <1>12, <2>4
  <2>8. z.found # "none" /\ z \in State
    BY <1>8, <2>3
  <2> QED
    BY <1>9, <2>4, <2>6, <2>7, <2>8 DEF Continued
<1>13. CASE ~ (j > i)
  <2>1. c = (x.closing /\ ~ (x.closing /\ x.matched = Len(x.blocks) - 1))
    BY <1>3, <1>4, <1>5, <1>13
  <2>2. y.matched = x.matched
    BY <1>3, <1>4, <1>13
  <2>3. CASE x.soft
    <3>1. z = after
      BY <1>3, <1>11, <1>13, <2>3
    <3> QED
      BY <1>2, <1>7, <1>9, <2>1, <2>2, <2>3, <3>1 DEF Continued
  <2>4. CASE ~ x.soft
    <3>1. PICK o \in Seq(Block), n \in BOOLEAN :
              /\ o = SubSeq(after.blocks, 1, Len(x.blocks) - 1)
              /\ n = (y.matched # Len(x.blocks) - 1)
      <4>1. PICK s \in Seq(Block) : s = x.blocks
        BY <1>1
      <4>2. size - 1 \in 0..Len(s)
        <5>1. i < size
          BY <1>3 DEF Sought
        <5>2. size = Len(s)
          BY <1>3, <4>1
        <5> QED
          BY <5>1, <5>2
      <4>3. SubSeq(s, 1, size - 1) \in Seq(Block)
        BY <4>2
      <4> QED
        BY <1>2, <1>3, <1>7, <4>1, <4>3
    <3>2. z = Found([after EXCEPT !.blocks = o, !.matching = n], shuts)
      BY <1>3, <1>11, <1>13, <2>4, <3>1
    <3>3. /\ z \in State /\ z.simulate = after.simulate /\ z.blocks = o
          /\ z.soft = after.soft /\ z.found = shuts /\ z.matched = after.matched
          /\ z.closing = after.closing /\ z.matching = n
      BY <1>7, <3>2 DEF State, Found
    <3>4. n = (z.matched < Len(x.blocks) - 1)
      BY <1>3, <1>4, <1>7, <1>13, <3>1, <3>3
    <3>5. o = SubSeq(x.blocks, 1, Len(x.blocks) - 1)
      BY <1>2, <1>7, <3>1
    <3>6. z.found # "none" /\ z.matched = x.matched /\ z.soft = x.soft /\ z.simulate = x.simulate
          /\ z.closing = c /\ z \in State
      BY <1>2, <1>7, <1>8, <2>2, <3>3
    <3> QED
      BY <1>9, <2>1, <2>4, <3>3, <3>4, <3>5, <3>6 DEF Continued
  <2> QED
    BY <2>3, <2>4
<1> QED
  BY <1>12, <1>13

\* The last block that is sought, when one is left to match.
LEMMA TopNat ==
    ASSUME NEW x \in State, x.matched < Len(x.blocks)
    PROVE  \E top \in Nat : top = Len(x.blocks) - (IF x.closing THEN 1 ELSE 0) /\ Sought(x, top)
<1>1. PICK n \in Nat, i \in Nat : n = Len(x.blocks) /\ i = x.matched /\ i < n
  BY DEF State
<1>2. PICK d \in {0, 1} : d = IF x.closing THEN 1 ELSE 0
  OBVIOUS
<1>3. n - d \in Nat
  BY ONLY i \in Nat, n \in Nat, d \in {0, 1}, <1>1
<1> QED
  BY <1>1, <1>2, <1>3 DEF Sought

\* The start of a line, or of what is left of it.
LEMMA LineStarted ==
    ASSUME DocOK, NEW x \in State, NEW v, x.found = "none",
           x.matching => x.matched < Len(x.blocks)
    PROVE  /\ x.matching => Continued(x, StartOfLine(x, v))
           /\ ~ x.matching => /\ Begun(x, StartOfLine(x, v))
                              /\ StartOfLine(x, v).found = "none" => Moved(x, StartOfLine(x, v))
<1>1. CASE x.matching
  <2>1. PICK top \in Nat : top = Len(x.blocks) - (IF x.closing THEN 1 ELSE 0) /\ Sought(x, top)
    BY <1>1, TopNat
  <2>2. PICK y : y = MatchUpTo(x, top) /\ MatchedUpTo(x, y, top)
    BY MatchUpToMatches
  <2>3. Continued(x, Continue(x, y))
    BY <2>1, <2>2, ContinueContinues
  <2>4. StartOfLine(x, v) = Continue(x, y)
    BY <1>1, <2>1, <2>2 DEF StartOfLine
  <2> QED
    BY <1>1, <2>3, <2>4
<1>2. CASE ~ x.matching
  <2>1. StartOfLine(x, v) = Begin(x, v)
    BY <1>2 DEF StartOfLine
  <2> QED
    BY <1>2, <2>1, BeginBegun
<1> QED
  BY <1>1, <1>2

\* In the look-ahead no block is pushed, and none is popped.
LEMMA LookedAhead ==
    ASSUME DocOK, NEW x \in State, x.found = "none", x.simulate, ~ x.closing,
           x.matched <= Len(x.blocks), x.matching => x.soft
    PROVE  /\ StartAhead(x) \in State
           /\ StartAhead(x).blocks = x.blocks
           /\ StartAhead(x).soft = x.soft /\ ~ StartAhead(x).closing
<1> DEFINE Good(z) == /\ z \in State /\ z.blocks = x.blocks /\ z.soft = x.soft /\ ~ z.closing
<1>1. CASE Cur(x) = "EOF"
  BY <1>1 DEF StartAhead
<1>2. CASE Cur(x) # "EOF" /\ ~ x.matching
  <2>1. PICK z : z = StartAhead(x) /\ Begun(x, z)
    <3>1. StartAhead(x) = Begin(x, Interrupting)
      BY <1>2 DEF StartAhead, StartOfLine
    <3> QED
      BY <3>1, BeginBegun
  <2>2. Good(z)
    BY <2>1 DEF Begun
  <2> QED
    BY <2>1, <2>2
<1>3. CASE Cur(x) # "EOF" /\ x.matching
  <2>1. PICK top \in Nat : top = Len(x.blocks)
    BY DEF State
  <2>2. PICK y : y = MatchUpTo(x, top) /\ MatchedUpTo(x, y, top)
    BY MatchUpToMatches
  <2>3. PICK z : z = StartAhead(x)
    OBVIOUS
  <2>4. z = Continue(x, y)
    <3>1. top = Len(x.blocks) - (IF x.closing THEN 1 ELSE 0)
      BY <2>1
    <3> QED
      BY <1>3, <2>2, <2>3, <3>1 DEF StartAhead, StartOfLine
  <2>5. Good(z)
    <3>1. PICK c \in BOOLEAN, k \in BOOLEAN, last \in BOOLEAN :
              /\ c <=> (y.closing /\ (y.matched > x.matched \/ ~ y.ok))
              /\ k <=> (y.ok \/ ~ x.soft)
              /\ last <=> (k /\ y.matched # Len(x.blocks))
      <4> DEFINE c == y.closing /\ (y.matched > x.matched \/ ~ y.ok)
                 k == y.ok \/ ~ x.soft
                 last == k /\ y.matched # Len(x.blocks)
      <4>1. c \in BOOLEAN /\ k \in BOOLEAN /\ last \in BOOLEAN
        OBVIOUS
      <4> QED
        BY <4>1
    <3>2. y \in State /\ y.closing \in BOOLEAN /\ x.soft
      BY <1>3, <2>2 DEF MatchedUpTo, State
    <3>3. PICK after : after = [y EXCEPT !.closing = c, !.matching = k]
      OBVIOUS
    <3>4. /\ after \in State /\ after.blocks = y.blocks /\ after.soft = y.soft /\ after.closing = c
          /\ after.matching = k
      BY <3>2, <3>3 DEF State
    <3>5. ~ c /\ after.blocks = x.blocks /\ after.soft = x.soft
      BY <2>2, <3>1, <3>4 DEF MatchedUpTo
    <3>6. after = [y EXCEPT !.closing = @ /\ (y.matched > x.matched \/ ~ y.ok),
                            !.matching = y.ok \/ ~ x.soft]
      <4>1. c = (y.closing /\ (y.matched > x.matched \/ ~ y.ok))
        BY <3>1
      <4>2. k = (y.ok \/ ~ x.soft)
        BY <3>1
      <4> QED
        BY <3>3, <4>1, <4>2
    <3>7. PICK t \in Word : t = "BLOCK_CONTINUATION"
      BY TokenWords
    <3>8. last = (after.matching /\ y.matched # Len(x.blocks))
      BY <3>1, <3>4
    <3>9. z \in {after, Found([after EXCEPT !.matching = last], t)}
      BY <2>4, <3>2, <3>6, <3>7, <3>8 DEF Continue
    <3>10. Good(after)
      BY <3>4, <3>5
    <3>11. Good(Found([after EXCEPT !.matching = last], t))
      BY <3>4, <3>5 DEF State, Found
    <3> QED
      BY <3>9, <3>10, <3>11
  <2> QED
    BY <2>3, <2>5
<1> QED
  BY <1>1, <1>2, <1>3

\* The line ending is marked as the end of the token.
LEMMA NextLineNext ==
    ASSUME DocOK, NEW x \in State
    PROVE  Moved(x, NextLine(x)) /\ NextLine(x).found = x.found /\ NextLine(x).end \in Positions
<1>1. PICK a \in State : a = advance(x) /\ Moved(x, a) /\ a.found = x.found
  <2>1. advance(x).found = x.found
    BY DEF advance, State
  <2> QED
    BY <2>1, Advanced DEF Moved
<1>2. PICK n \in 0..Wide - 1, c \in 0..3 : n = 0 /\ c = 0
  BY WideAssumption
<1>3. PICK y : y = [a EXCEPT !.indent = n, !.column = c]
  OBVIOUS
<1>4. Moved(a, y) /\ y.found = a.found
  BY <1>3 DEF State, Moved, Books
<1>5. PICK z \in State : z = NextLine(x) /\ z = mark_end(y) /\ Moved(y, z)
  <2>1. y \in State
    BY <1>4 DEF Moved
  <2> QED
    BY <1>1, <1>2, <1>3, <2>1, MovedMarked DEF NextLine, Moved
<1>6. z.found = y.found /\ z.end \in Positions
  <2>1. y \in State /\ z = [y EXCEPT !.end = y.at]
    BY <1>4, <1>5 DEF Moved, mark_end
  <2>2. y.at \in Positions
    BY <2>1 DEF State
  <2>3. z.end = y.at /\ z.found = y.found
    BY <2>1 DEF State
  <2> QED
    BY <2>2, <2>3
<1> QED
  BY <1>1, <1>4, <1>5, <1>6, MovedTwice

\* What the next line matches.
LEMMA AheadMatches ==
    ASSUME DocOK, NEW x \in State
    PROVE  LET z == MatchAhead(x)
           IN  /\ z \in State /\ z.simulate /\ z.blocks = x.blocks /\ z.matching = x.matching
               /\ z.soft = x.soft /\ z.closing = x.closing /\ z.found = x.found
               /\ z.matched <= Len(x.blocks)
<1>1. PICK i \in State : i = Indented(x, Wide) /\ Moved(x, i) /\ i.found = x.found
  <2>1. x.at \in Positions /\ x.column \in 0..3 /\ x.indent \in 0..Wide - 1
    BY StateFields
  <2>2. PICK p \in Positions, c \in 0..3, n \in 0..Wide - 1 : Indented(x, Wide) = Put(x, p, c, n)
    BY <2>1, IndentedFrom
  <2>3. Indented(x, Wide).found = x.found
    BY <2>2 DEF Put, State
  <2> QED
    BY <2>3, MovedIndented DEF Moved
<1>2. PICK k \in Nat, s \in BOOLEAN : k = 0 /\ s = TRUE
  OBVIOUS
<1>3. PICK y : y = [i EXCEPT !.simulate = s, !.matched = k]
  OBVIOUS
<1>4. /\ y \in State /\ y.simulate = s /\ y.matched = k /\ y.blocks = i.blocks
      /\ y.matching = i.matching /\ y.soft = i.soft /\ y.closing = i.closing /\ y.found = i.found
  BY <1>3 DEF State
<1>5. PICK top \in Nat : top = Len(x.blocks)
  BY DEF State
<1>6. PICK z : z = MatchUpTo(y, top) /\ MatchedUpTo(y, z, top)
  BY <1>4, MatchUpToMatches
<1>7. MatchAhead(x) = z
  BY <1>1, <1>2, <1>3, <1>5, <1>6 DEF MatchAhead
<1>8. y.matched <= top
  BY <1>2, <1>4
<1>9. /\ z \in State /\ z.simulate /\ z.blocks = x.blocks /\ z.matching = x.matching
      /\ z.soft = x.soft /\ z.closing = x.closing /\ z.found = x.found /\ z.matched <= top
  BY <1>1, <1>2, <1>4, <1>6, <1>8 DEF MatchedUpTo, Moved, Books
<1> QED
  BY <1>5, <1>7, <1>9

\* The line is over.
Ended(x, z) ==
    LET some == x.blocks # << >>
    IN  /\ z \in State /\ z.end \in Positions
        /\ z.blocks = x.blocks /\ z.matched = 0 /\ z.closing = x.closing
        /\ \/ z.matching = some /\ z.soft = FALSE
           \/ ~ z.closing /\ z.soft = TRUE /\ z.matching \in {FALSE, some}
           \/ ~ z.closing /\ z.matching = some /\ z.soft = x.soft

\* LineEnding: nothing that the look-ahead matched or began is left but the token.
LEMMA LineEnds ==
    ASSUME DocOK, NEW x \in State, NEW v, x.found = "none", x.matching => x.soft,
           EndOfLine(x, v).found # "none"
    PROVE  Ended(x, EndOfLine(x, v))
<1> DEFINE some == x.blocks # << >>
<1>1. PICK next \in State : /\ next = NextLine(x) /\ Moved(x, next) /\ next.found = "none"
                            /\ next.end \in Positions
  BY NextLineNext DEF Moved
<1>2. PICK ahead \in State :
          /\ ahead = MatchAhead(next)
          /\ ahead.simulate /\ ahead.blocks = x.blocks /\ ahead.matching = x.matching
          /\ ahead.soft = x.soft /\ ahead.closing = x.closing /\ ahead.found = "none"
          /\ ahead.matched <= Len(x.blocks)
  BY <1>1, AheadMatches DEF Moved, Books
<1>3. PICK start : start = StartAhead(ahead)
  OBVIOUS
<1>4. ~ x.closing => /\ start \in State /\ start.blocks = x.blocks /\ start.soft = x.soft
                     /\ ~ start.closing
  BY <1>2, <1>3, LookedAhead
<1>5. PICK z : z = EndOfLine(x, v)
  OBVIOUS
<1>6. PICK reads \in BOOLEAN, goes \in BOOLEAN :
          /\ reads <=> ~ x.closing /\ v \cap {"SOFT_LINE_ENDING", "PIPE_TABLE_LINE_ENDING"} # {}
          /\ goes <=> reads /\ Cur(ahead) # "EOF" /\ start.found = "none"
  <2> DEFINE r == ~ x.closing /\ v \cap {"SOFT_LINE_ENDING", "PIPE_TABLE_LINE_ENDING"} # {}
             g == r /\ Cur(ahead) # "EOF" /\ start.found = "none"
  <2>1. r \in BOOLEAN /\ g \in BOOLEAN
    OBVIOUS
  <2> QED
    BY <2>1
<1>7. PICK y : y = IF reads
                   THEN [start EXCEPT !.end = next.end, !.indent = 0, !.column = 0, !.matched = 0,
                                      !.seen = [matched |-> ahead.matched, begin |-> start.found]]
                   ELSE [next EXCEPT !.matched = 0]
  OBVIOUS
<1>8. /\ x.blocks \in Seq(Block) /\ x.soft \in BOOLEAN /\ x.closing \in BOOLEAN
  BY DEF State
<1>9. /\ y \in State /\ y.end \in Positions /\ y.blocks = x.blocks /\ y.matched = 0
      /\ y.closing = x.closing /\ y.soft = x.soft
  <2>1. PICK zero \in Nat : zero = 0
    OBVIOUS
  <2>2. CASE reads
    <3>1. PICK e \in Positions, n \in 0..Wide - 1, c \in 0..3, s \in [matched : Nat, begin : Word] :
              /\ e = next.end /\ n = 0 /\ c = 0
              /\ s = [matched |-> ahead.matched, begin |-> start.found]
      <4>1. ahead.matched \in Nat /\ start.found \in Word /\ 0 \in 0..Wide - 1
        BY <1>4, <1>6, <2>2, WideAssumption DEF State
      <4>2. PICK s \in [matched : Nat, begin : Word] :
                s = [matched |-> ahead.matched, begin |-> start.found]
        BY <4>1
      <4>3. PICK n \in 0..Wide - 1, c \in 0..3 : n = 0 /\ c = 0
        BY <4>1
      <4> QED
        BY <1>1, <4>2, <4>3
    <3>2. y = [start EXCEPT !.end = e, !.indent = n, !.column = c, !.matched = zero, !.seen = s]
      BY <1>7, <2>1, <2>2, <3>1
    <3>3. start \in State /\ start.blocks = x.blocks /\ start.soft = x.soft /\ ~ start.closing
          /\ ~ x.closing
      BY <1>4, <1>6, <2>2
    <3>4. e \in 0..Len(doc) + 1
      BY AtFacts DEF Positions
    <3>5. /\ y \in State /\ y.end = e /\ y.blocks = start.blocks /\ y.matched = zero
          /\ y.closing = start.closing /\ y.soft = start.soft
      BY <3>2, <3>3, <3>4 DEF State
    <3>6. start.closing = x.closing
      BY <1>8, <3>3 DEF State
    <3> QED
      BY <2>1, <3>3, <3>5, <3>6
  <2>3. CASE ~ reads
    <3>1. y = [next EXCEPT !.matched = zero]
      BY <1>7, <2>1, <2>3
    <3>2. /\ y \in State /\ y.end = next.end /\ y.blocks = next.blocks /\ y.matched = zero
          /\ y.closing = next.closing /\ y.soft = next.soft
      BY <3>1 DEF State
    <3> QED
      BY <1>1, <2>1, <3>2 DEF Moved, Books
  <2> QED
    BY <2>2, <2>3
<1>10. PICK soon \in BOOLEAN : soon <=> ahead.matched > 0
  <2>1. (ahead.matched > 0) \in BOOLEAN
    OBVIOUS
  <2> QED
    BY <2>1
<1>11. PICK any \in BOOLEAN : any <=> some
  <2>1. some \in BOOLEAN
    OBVIOUS
  <2> QED
    BY <2>1
<1>12. PICK table \in Word, softly \in Word, line \in Word :
           /\ table = "PIPE_TABLE_LINE_ENDING" /\ softly = "SOFT_LINE_ENDING"
           /\ line = "LINE_ENDING"
  BY TokenWords
<1>13. PICK f \in BOOLEAN, g \in BOOLEAN : f = TRUE /\ g = FALSE
  OBVIOUS
<1>14. z = IF goes /\ table \in v /\ AllMatched(ahead)
           THEN Found([y EXCEPT !.matching = soon], table)
           ELSE IF goes /\ table \notin v
           THEN Found([y EXCEPT !.matching = soon, !.soft = f], softly)
           ELSE IF line \in v
           THEN Found([y EXCEPT !.matching = any, !.soft = g], line)
           ELSE Nothing(y)
  <2>1. z = LineEnding(x, next, ahead, start, v)
    BY <1>1, <1>2, <1>3, <1>5 DEF EndOfLine
  <2>2. soon = (ahead.matched > 0) /\ any = some
    BY <1>10, <1>11
  <2>3. reads = (~ x.closing /\ v \cap {"SOFT_LINE_ENDING", "PIPE_TABLE_LINE_ENDING"} # {})
    BY <1>6
  <2>4. goes = (reads /\ Cur(ahead) # "EOF" /\ start.found = "none")
    BY <1>6
  <2> QED
    BY <1>7, <1>12, <1>13, <2>1, <2>2, <2>3, <2>4 DEF LineEnding
<1>15. soon => any
  <2>1. Len(x.blocks) \in Nat /\ (Len(x.blocks) > 0 => some)
    BY <1>8
  <2>2. ahead.matched \in Nat
    BY DEF State
  <2> QED
    BY <1>2, <1>10, <1>11, <2>1, <2>2
<1>16. goes => ~ x.closing
  BY <1>6
<1>17. CASE goes /\ table \in v /\ AllMatched(ahead)
  <2>1. z = Found([y EXCEPT !.matching = soon], table)
    BY <1>14, <1>17
  <2>2. /\ z \in State /\ z.end = y.end /\ z.blocks = y.blocks /\ z.matched = y.matched
        /\ z.closing = y.closing /\ z.soft = y.soft /\ z.matching = soon
    BY <1>9, <2>1 DEF State, Found
  <2>3. any => soon
    <3>1. Len(x.blocks) \in Nat /\ (some => Len(x.blocks) > 0)
      BY <1>8
    <3> QED
      BY <1>2, <1>10, <1>11, <1>17, <3>1 DEF AllMatched
  <2>4. soon = some
    BY <1>11, <1>15, <2>3
  <2> QED
    BY <1>5, <1>9, <1>16, <1>17, <2>2, <2>4 DEF Ended
<1>18. CASE goes /\ table \notin v
  <2>1. z = Found([y EXCEPT !.matching = soon, !.soft = f], softly)
    BY <1>14, <1>18
  <2>2. /\ z \in State /\ z.end = y.end /\ z.blocks = y.blocks /\ z.matched = y.matched
        /\ z.closing = y.closing /\ z.soft = f /\ z.matching = soon
    <3>1. y \in State
      BY <1>9
    <3> QED
      BY <2>1, <3>1 DEF State, Found
  <2>3. soon \in {FALSE, some}
    BY <1>11, <1>15
  <2> QED
    BY <1>5, <1>9, <1>13, <1>16, <1>18, <2>2, <2>3 DEF Ended
<1>19. CASE /\ ~ (goes /\ table \in v /\ AllMatched(ahead)) /\ ~ (goes /\ table \notin v)
            /\ line \in v
  <2>1. z = Found([y EXCEPT !.matching = any, !.soft = g], line)
    BY <1>14, <1>19
  <2>2. /\ z \in State /\ z.end = y.end /\ z.blocks = y.blocks /\ z.matched = y.matched
        /\ z.closing = y.closing /\ z.soft = g /\ z.matching = any
    <3>1. y \in State
      BY <1>9
    <3> QED
      BY <2>1, <3>1 DEF State, Found
  <2>3. any = some
    BY <1>11
  <2> QED
    BY <1>5, <1>9, <1>13, <2>2, <2>3 DEF Ended
<1>20. CASE /\ ~ (goes /\ table \in v /\ AllMatched(ahead)) /\ ~ (goes /\ table \notin v)
            /\ line \notin v
  <2>1. z = Nothing(y)
    BY <1>14, <1>20
  <2>2. z.found = "none"
    BY <1>9, <2>1, MovedNothing
  <2> QED
    BY <1>5, <2>2
<1> QED
  BY <1>17, <1>18, <1>19, <1>20

-----------------------------------------------------------------------------
(***************************************************************************)
(* A call of the scanner that finds a token.                               *)
(***************************************************************************)
\* Only what s says of the open blocks and of the request to close one differs.
Rests(x, z) ==
    /\ z \in State /\ z.matched = x.matched /\ z.matching = x.matching /\ z.soft = x.soft
    /\ z.end = x.end /\ z.at = x.at

\* The start of a line that is then over: no block begins, or neither is one matched
\* nor is the innermost closed.
Passed(x, y) ==
    /\ y.found = "none"
    /\ x.matching => Continued(x, y)
    /\ ~ x.matching => Moved(x, y)

ScannedTo(x, z) ==
    \/ Rests(x, z) /\ z.blocks = x.blocks /\ z.closing = x.closing
    \/ Rests(x, z) /\ z.blocks = x.blocks /\ z.closing = TRUE
    \/ /\ Rests(x, z) /\ x.at > Len(doc) /\ x.blocks # << >>
       /\ z.blocks = SubSeq(x.blocks, 1, Len(x.blocks) - 1) /\ z.closing = x.closing
    \/ x.at <= Len(doc) /\ ~ x.matching /\ Begun(x, z)
    \/ x.at <= Len(doc) /\ x.matching /\ Continued(x, z) /\ z.found # "none"
    \/ x.at <= Len(doc) /\ \E y \in State : Passed(x, y) /\ Ended(y, z)

\* A token without characters.
LEMMA FoundRests ==
    ASSUME NEW x \in State, NEW t \in Word
    PROVE  Rests(x, Found(x, t)) /\ Found(x, t).blocks = x.blocks /\ Found(x, t).closing = x.closing
BY DEF State, Found, Rests

\* scan, from the flags it is called with.
LEMMA ScanFinds ==
    ASSUME DocOK, NEW x \in State, x.found = "none",
           x.at <= Len(doc) /\ x.matching => x.matched < Len(x.blocks),
           NEW v, scan(x, v).found # "none"
    PROVE  ScannedTo(x, scan(x, v))
<1>1. PICK z : z = scan(x, v) /\ z.found # "none"
  OBVIOUS
<1>2. PICK error \in Word, close \in Word, eof \in Word, shuts \in Word :
          error = "ERROR" /\ close = "CLOSE_BLOCK" /\ eof = "EOF" /\ shuts = "BLOCK_CLOSE"
  BY TokenWords
<1>3. CASE "TRIGGER_ERROR" \in v
  <2>1. z = Found(x, error)
    BY <1>1, <1>2, <1>3 DEF scan
  <2> QED
    BY <1>1, <2>1, FoundRests DEF ScannedTo
<1>4. CASE "TRIGGER_ERROR" \notin v /\ "CLOSE_BLOCK" \in v
  <2>1. PICK c \in BOOLEAN : c = TRUE
    OBVIOUS
  <2>2. z = Found([x EXCEPT !.closing = c], close)
    BY <1>1, <1>2, <1>4, <2>1 DEF scan
  <2>3. Rests(x, z) /\ z.blocks = x.blocks /\ z.closing = c
    BY <2>2 DEF State, Found, Rests
  <2> QED
    BY <1>1, <2>1, <2>3 DEF ScannedTo
<1>5. Cur(x) = "EOF" <=> x.at > Len(doc)
  BY AtFacts, StateFields DEF Cur
<1>6. CASE "TRIGGER_ERROR" \notin v /\ "CLOSE_BLOCK" \notin v /\ x.at > Len(doc)
  <2>1. z = EndOfFile(x, v)
    BY <1>1, <1>5, <1>6 DEF scan
  <2>2. CASE "EOF" \in v
    <3>1. z = Found(x, eof)
      BY <1>2, <2>1, <2>2 DEF EndOfFile
    <3> QED
      BY <1>1, <3>1, FoundRests DEF ScannedTo
  <2>3. CASE "EOF" \notin v
    <3>1. x.blocks # << >> /\ z = Found([x EXCEPT !.blocks = SubSeq(@, 1, Len(@) - 1)], "BLOCK_CLOSE")
      BY <1>1, <2>1, <2>3 DEF EndOfFile
    <3>2. PICK o \in Seq(Block) : o = SubSeq(x.blocks, 1, Len(x.blocks) - 1)
      <4>1. PICK s \in Seq(Block) : s = x.blocks
        BY DEF State
      <4>2. Len(s) - 1 \in 0..Len(s)
        BY <3>1, <4>1
      <4>3. SubSeq(s, 1, Len(s) - 1) \in Seq(Block)
        BY <4>2
      <4> QED
        BY <4>1, <4>3
    <3>3. z = Found([x EXCEPT !.blocks = o], shuts)
      BY <1>2, <3>1, <3>2
    <3>4. Rests(x, z) /\ z.blocks = o /\ z.closing = x.closing
      BY <3>3 DEF State, Found, Rests
    <3> QED
      BY <1>1, <1>6, <3>1, <3>2, <3>4 DEF ScannedTo
  <2> QED
    BY <2>2, <2>3
<1>7. CASE "TRIGGER_ERROR" \notin v /\ "CLOSE_BLOCK" \notin v /\ x.at <= Len(doc)
  <2>1. PICK y : y = StartOfLine(x, v)
    OBVIOUS
  <2>2. z = IF y.found = "none" /\ Cur(y) = "NL" THEN EndOfLine(y, v) ELSE y
    <3>1. Cur(x) # "EOF"
      BY <1>5, <1>7, StateFields
    <3> QED
      BY <1>1, <1>7, <2>1, <3>1 DEF scan, FromStart
  <2>3. /\ x.matching => Continued(x, y)
        /\ ~ x.matching => Begun(x, y) /\ (y.found = "none" => Moved(x, y))
    BY <1>7, <2>1, LineStarted
  <2>4. y \in State
    BY <2>3 DEF Continued, Begun
  <2>5. CASE y.found # "none"
    <3>1. z = y
      BY <2>2, <2>5
    <3> QED
      BY <1>1, <1>7, <2>3, <2>5, <3>1 DEF ScannedTo
  <2>6. CASE y.found = "none"
    <3>1. z = EndOfLine(y, v)
      BY <1>1, <2>2, <2>6
    <3>2. Passed(x, y)
      BY <2>3, <2>6 DEF Passed
    <3>3. y.matching => y.soft
      BY <2>3, <2>6 DEF Continued, Moved, Books
    <3>4. Ended(y, z)
      BY <1>1, <2>4, <2>6, <3>1, <3>3, LineEnds
    <3> QED
      BY <1>1, <1>7, <2>4, <3>2, <3>4 DEF ScannedTo
  <2> QED
    BY <2>5, <2>6
<1> QED
  BY <1>3, <1>4, <1>6, <1>7, StateFields


-----------------------------------------------------------------------------
(***************************************************************************)
(* The scanner implements its book-keeping.                                *)
(***************************************************************************)
\* The parser takes z: the position is a position, and the blocks take a step.
LEMMA TakenPosition ==
    ASSUME DocOK, NEW z \in State
    PROVE  (IF z.end = 0 THEN z.at ELSE z.end) \in Positions
<1>1. z.at \in Positions /\ z.end \in 0..Len(doc) + 1 /\ Len(doc) \in Nat
  BY AtFacts DEF State
<1> QED
  BY <1>1 DEF Positions

ScannerInv ==
    /\ DocOK
    /\ pos \in Positions
    /\ indent \in 0..Wide - 1 /\ column \in 0..3 /\ fence \in Nat
    /\ atEnd = (pos > Len(doc))
    /\ BlocksIInv

\* The record of the scanner when it is called.
Called ==
    [at |-> pos, end |-> 0, found |-> "none", ok |-> FALSE, simulate |-> FALSE,
     blocks |-> blocks, matched |-> matched, matching |-> matching, soft |-> soft,
     closing |-> closing, indent |-> indent, column |-> column, fence |-> fence,
     seen |-> [matched |-> 0, begin |-> "none"]]

\* z has the fields of the record of the call.
CallOf(x) ==
    /\ x \in State /\ x.found = "none" /\ x.at = pos /\ x.end = 0 /\ ~ x.simulate
    /\ x.blocks = blocks /\ x.matched = matched /\ x.matching = matching
    /\ x.soft = soft /\ x.closing = closing

\* The variables of the specification make a record of the scanner.
LEMMA CallState ==
    ASSUME ScannerInv
    PROVE  CallOf(Called)
<1>1. PICK none \in Word : none = "none"
  BY TokenWords
<1>2. PICK n \in 0..Len(doc) + 1, k \in Nat : n = 0 /\ k = 0
  <2>1. Len(doc) \in Nat
    BY AtFacts DEF ScannerInv
  <2>2. 0 \in 0..Len(doc) + 1 /\ 0 \in Nat
    BY <2>1
  <2> QED
    BY <2>2
<1>3. PICK f \in BOOLEAN : f = FALSE
  OBVIOUS
<1>4. PICK s : s = [matched |-> k, begin |-> none]
  OBVIOUS
<1>5. s \in [matched : Nat, begin : Word]
  BY <1>4
<1>6. Called = [at |-> pos, end |-> n, found |-> none, ok |-> f, simulate |-> f,
                blocks |-> blocks, matched |-> matched, matching |-> matching, soft |-> soft,
                closing |-> closing, indent |-> indent, column |-> column, fence |-> fence,
                seen |-> s]
  BY <1>1, <1>2, <1>4, <1>3 DEF Called
<1>7. /\ pos \in Positions /\ blocks \in Seq(Block) /\ matched \in Nat
      /\ matching \in BOOLEAN /\ soft \in BOOLEAN /\ closing \in BOOLEAN
      /\ indent \in 0..Wide - 1 /\ column \in 0..3 /\ fence \in Nat
  BY DEF ScannerInv, BlocksIInv, BlocksTypeOK
<1>8. Called \in State
  BY <1>5, <1>6, <1>7 DEF State
<1> QED
  BY <1>1, <1>2, <1>6, <1>8, <1>3 DEF CallOf

\* What the parser takes when it is not in row 0 has been found by scan.
LEMMA ScannedFinds ==
    ASSUME ScannerInv, NEW z, z = Scanned, z.found # "none"
    PROVE  ScannedTo(Called, z)
<1>1. PICK x : x = Called
  OBVIOUS
<1>2. CallOf(x)
  BY <1>1, CallState
<1>3. PICK v : v = Valid[row]
  OBVIOUS
<1>4. z = scan(x, v)
  <2>1. z = IF row = 0 THEN x ELSE scan(x, Valid[row])
    BY <1>1 DEF Scanned, Called
  <2> QED
    BY <1>2, <1>3, <2>1 DEF CallOf
<1>5. ASSUME x.at <= Len(doc), x.matching PROVE x.matched < Len(x.blocks)
  <2>1. Len(doc) \in Nat /\ pos \in Nat /\ atEnd = (pos > Len(doc))
    BY AtFacts DEF ScannerInv, Positions
  <2>2. /\ x.at = pos /\ x.blocks = blocks /\ x.matched = matched /\ x.matching = matching
        /\ ~ atEnd => (matching => matched < Len(blocks))
    BY <1>2 DEF CallOf, ScannerInv, BlocksIInv, MatchesOpenBlocks
  <2>3. ~ (pos > Len(doc))
    BY <1>5, <2>1, <2>2
  <2>4. ~ atEnd
    BY <2>1, <2>3
  <2> QED
    BY <1>5, <2>2, <2>4
<1> QED
  BY <1>1, <1>2, <1>4, <1>5, ScanFinds DEF CallOf, ScannerInv

\* The parser takes z: the variables of MarkdownBlocks become its fields.
Taken(z) ==
    /\ blocks' = z.blocks /\ matched' = z.matched /\ matching' = z.matching
    /\ soft' = z.soft /\ closing' = z.closing

\* A token that ends a line, from y: what led there from x, the call, matched nothing.
LEMMA LineTaken ==
    ASSUME NEW x, CallOf(x), ~ atEnd, NEW y, Passed(x, y), NEW z, Ended(y, z), Taken(z)
    PROVE  EndLine \/ EndLineSoftly \/ EndTableLine
<1>1. /\ x.blocks = blocks /\ x.matched = matched /\ x.matching = matching
      /\ x.soft = soft /\ x.closing = closing
  BY DEF CallOf
<1>2. /\ matching => soft
      /\ y.blocks = blocks /\ y.soft = soft
      /\ y.closing = (closing /\ ~ (matching /\ Requested))
  <2>1. CASE x.matching
    <3>1. Continued(x, y) /\ y.found = "none"
      BY <2>1 DEF Passed
    <3>2. /\ y.soft = x.soft /\ x.soft /\ y.blocks = x.blocks
          /\ y.closing = (x.closing /\ ~ (x.closing /\ x.matched = Len(x.blocks) - 1))
      BY <3>1 DEF Continued
    <3> QED
      BY <1>1, <2>1, <3>2 DEF Requested
  <2>2. CASE ~ x.matching
    <3>1. Moved(x, y)
      BY <2>2 DEF Passed
    <3>2. x.closing \in BOOLEAN
      BY DEF CallOf, State
    <3> QED
      BY <1>1, <2>2, <3>1, <3>2 DEF Moved, Books
  <2> QED
    BY <2>1, <2>2
<1>3. LineOver
  BY <1>2 DEF LineOver, Ended, Taken
<1>4. z.blocks = blocks /\ z.closing = y.closing
  BY <1>2 DEF Ended
<1>5. CASE z.matching = (y.blocks # << >>) /\ z.soft = FALSE
  BY <1>2, <1>3, <1>5 DEF EndLine, Taken
<1>6. CASE ~ z.closing /\ z.soft = TRUE /\ z.matching \in {FALSE, y.blocks # << >>}
  BY <1>2, <1>3, <1>6 DEF EndLineSoftly, Taken
<1>7. CASE ~ z.closing /\ z.matching = (y.blocks # << >>) /\ z.soft = y.soft
  BY <1>2, <1>3, <1>7 DEF EndTableLine, Taken
<1> QED
  BY <1>5, <1>6, <1>7 DEF Ended

\* A token at the start of a line.
LEMMA StartTaken ==
    ASSUME NEW x, CallOf(x), ~ atEnd, matching, matched < Len(blocks),
           NEW z, Continued(x, z), z.found # "none", Taken(z)
    PROVE  (\E n \in 1..Len(blocks) : MatchBlocks(n)) \/ CloseUnmatched
<1>1. /\ x.blocks = blocks /\ x.matched = matched /\ x.matching = matching
      /\ x.soft = soft /\ x.closing = closing /\ x \in State
  BY DEF CallOf
<1>2. Len(blocks) \in Nat /\ matched \in Nat /\ closing \in BOOLEAN
  BY <1>1 DEF State
<1>3. CASE /\ z.matched \in x.matched + 1..Len(x.blocks)
           /\ z.blocks = x.blocks /\ z.closing = x.closing
           /\ z.matching = (/\ z.matched < Len(x.blocks)
                            /\ x.soft => x.closing /\ z.matched = Len(x.blocks) - 1)
  <2>1. z.soft = soft
    BY <1>1 DEF Continued
  <2>2. PICK n : n = z.matched
    OBVIOUS
  <2>3. n \in matched + 1..Len(blocks) /\ n \in 1..Len(blocks)
    BY <1>1, <1>2, <1>3, <2>2
  <2>4. matching' = (n < Len(blocks) /\ (soft => closing /\ n = Len(blocks) - 1))
    BY <1>1, <1>3, <2>2 DEF Taken
  <2>5. MatchBlocks(n)
    BY <1>1, <1>3, <2>1, <2>2, <2>3, <2>4 DEF MatchBlocks, Taken
  <2> QED
    BY <2>3, <2>5
<1>4. CASE /\ ~ x.soft
           /\ z.matched = x.matched
           /\ z.blocks = SubSeq(x.blocks, 1, Len(x.blocks) - 1)
           /\ z.matching = (z.matched < Len(x.blocks) - 1)
           /\ z.closing = (x.closing /\ ~ (x.closing /\ x.matched = Len(x.blocks) - 1))
  <2>1. z.soft = soft
    BY <1>1 DEF Continued
  <2>2. blocks' = Outer
    BY <1>1, <1>4 DEF Taken, Outer
  <2>3. blocks \in Seq(Block) /\ Len(blocks) # 0
    BY <1>1, <1>2 DEF State
  <2>4. Len(blocks') = Len(blocks) - 1
    BY <2>2, <2>3, OuterBlocks
  <2>5. matching' = (matched < Len(blocks'))
    BY <1>1, <1>4, <2>4 DEF Taken
  <2>6. closing' = (closing /\ ~ Requested)
    BY <1>1, <1>4 DEF Taken, Requested
  <2> QED
    BY <1>1, <1>4, <2>1, <2>2, <2>5, <2>6 DEF CloseUnmatched, Taken
<1> QED
  BY <1>3, <1>4 DEF Continued

\* Every token of the scanner that the parser takes is a step of the blocks.
LEMMA TakenNext ==
    ASSUME ScannerInv, NEW z, z = Scanned, TakeExternal(z), atEnd' = (pos' > Len(doc))
    PROVE  BlocksNext /\ z \in State
<1>1. PICK x : x = Called /\ CallOf(x) /\ ScannedTo(x, z)
  BY CallState, ScannedFinds DEF TakeExternal
<1>2. Taken(z) /\ pos' = IF z.end = 0 THEN z.at ELSE z.end
  BY DEF TakeExternal, Taken
<1>3. atEnd' \in BOOLEAN
  OBVIOUS
<1>4. /\ x.blocks = blocks /\ x.matched = matched /\ x.matching = matching
      /\ x.soft = soft /\ x.closing = closing /\ x.at = pos /\ x.end = 0
  BY <1>1 DEF CallOf
<1>5. z \in State
  BY <1>1 DEF ScannedTo, Rests, Begun, Continued, Ended
<1>6. ASSUME Rests(x, z) PROVE atEnd' = atEnd
  <2>1. pos' = pos
    BY <1>2, <1>4, <1>6 DEF Rests
  <2> QED
    BY <2>1 DEF ScannerInv
<1>7. x.at <= Len(doc) => ~ atEnd
  <2>1. Len(doc) \in Nat /\ pos \in Nat /\ atEnd = (pos > Len(doc))
    BY AtFacts DEF ScannerInv, Positions
  <2>2. pos <= Len(doc) => ~ (pos > Len(doc))
    BY <2>1
  <2> QED
    BY <1>4, <2>1, <2>2
<1>8. x.at > Len(doc) => atEnd
  BY <1>4 DEF ScannerInv
<1>9. CASE Rests(x, z) /\ z.blocks = x.blocks /\ z.closing = x.closing
  BY <1>2, <1>3, <1>4, <1>6, <1>9 DEF BlocksNext, OtherToken, Rests, Taken
<1>10. CASE Rests(x, z) /\ z.blocks = x.blocks /\ z.closing = TRUE
  BY <1>2, <1>3, <1>4, <1>6, <1>10 DEF BlocksNext, RequestClose, Rests, Taken
<1>11. CASE /\ Rests(x, z) /\ x.at > Len(doc) /\ x.blocks # << >>
            /\ z.blocks = SubSeq(x.blocks, 1, Len(x.blocks) - 1) /\ z.closing = x.closing
  <2>1. CloseAtEnd
    BY <1>2, <1>4, <1>6, <1>8, <1>11 DEF CloseAtEnd, Outer, Rests, Taken
  <2> QED
    BY <1>3, <1>5, <2>1 DEF BlocksNext
<1>12. CASE x.at <= Len(doc) /\ ~ x.matching /\ Begun(x, z)
  <2>1. /\ ~ atEnd /\ matched' = matched /\ matching' = matching /\ soft' = soft
        /\ closing' = closing /\ ~ matching
    BY <1>2, <1>4, <1>7, <1>12 DEF Begun, Taken
  <2>2. CASE z.blocks = x.blocks
    <3>1. OtherToken
      BY <1>2, <1>4, <2>1, <2>2 DEF OtherToken, Taken
    <3> QED
      BY <1>3, <1>5, <3>1 DEF BlocksNext
  <2>3. CASE z.blocks # x.blocks
    <3>1. PICK b \in Block : z.blocks = Append(x.blocks, b)
      BY <1>12, <2>3 DEF Begun
    <3>2. OpenBlock(b)
      BY <1>2, <1>4, <2>1, <3>1 DEF OpenBlock, Taken
    <3> QED
      BY <1>3, <1>5, <3>2 DEF BlocksNext
  <2> QED
    BY <2>2, <2>3
<1>13. CASE x.at <= Len(doc) /\ x.matching /\ Continued(x, z) /\ z.found # "none"
  <2>1. ~ atEnd /\ matching /\ matched < Len(blocks)
    BY <1>4, <1>7, <1>13 DEF ScannerInv, BlocksIInv, MatchesOpenBlocks
  <2>2. (\E n \in 1..Len(blocks) : MatchBlocks(n)) \/ CloseUnmatched
    BY <1>1, <1>2, <1>13, <2>1, StartTaken
  <2> QED
    BY <1>3, <1>5, <2>2 DEF BlocksNext
<1>14. CASE x.at <= Len(doc) /\ \E y \in State : Passed(x, y) /\ Ended(y, z)
  <2>1. PICK y \in State : Passed(x, y) /\ Ended(y, z)
    BY <1>14
  <2>2. EndLine \/ EndLineSoftly \/ EndTableLine
    BY <1>1, <1>2, <1>7, <1>14, <2>1, LineTaken
  <2> QED
    BY <1>3, <1>5, <2>2 DEF BlocksNext
<1> QED
  BY <1>1, <1>5, <1>9, <1>10, <1>11, <1>12, <1>13, <1>14 DEF ScannedTo

\* A run of blanks or another character ends in the document.
LEMMA InternalPosition ==
    ASSUME ScannerInv, NEW z, TakeInternal(z)
    PROVE  pos' \in Positions
<1>1. DocOK /\ pos \in Positions /\ Len(doc) \in Nat /\ pos \in Nat /\ pos <= Len(doc)
  <2>1. DocOK /\ pos \in Positions
    BY DEF ScannerInv
  <2>2. At(pos) # "EOF"
    BY DEF TakeInternal
  <2> QED
    BY <2>1, <2>2, AtFacts DEF Positions
<1> DEFINE Ends(j) == \/ At(pos) \notin Blank /\ j = pos + 1
                      \/ At(j) \notin Blank /\ \A i \in pos..j - 1 : At(i) \in Blank
<1>2. \E j \in pos + 1..Len(doc) + 1 : Ends(j)
  <2>1. CASE At(pos) \notin Blank
    <3>1. pos + 1 \in pos + 1..Len(doc) + 1
      BY <1>1
    <3> QED
      BY <2>1, <3>1
  <2>2. CASE At(pos) \in Blank
    <3>1. "EOF" \notin Blank
      BY DEF Blank
    <3>2. PICK j \in pos..Len(doc) + 1 : At(j) \notin Blank /\ \A i \in pos..j - 1 : At(i) \in Blank
      BY <1>1, <3>1, FirstIs
    <3>3. j # pos
      BY <2>2, <3>2
    <3>4. j \in pos + 1..Len(doc) + 1
      BY <1>1, <3>2, <3>3
    <3> QED
      BY <3>2, <3>4
  <2> QED
    BY <2>1, <2>2
<1>3. pos' = CHOOSE j \in pos + 1..Len(doc) + 1 : Ends(j)
  BY DEF TakeInternal
<1> HIDE DEF Ends
<1>4. pos' \in pos + 1..Len(doc) + 1
  BY <1>2, <1>3
<1> QED
  BY <1>1, <1>4 DEF Positions

\* Every step of the parser keeps the invariant, and is a step of the books.
LEMMA ScannerStep == ScannerInv /\ [Next]_vars => ScannerInv' /\ [BlocksNext]_blockVars
<1> SUFFICES ASSUME ScannerInv, [Next]_vars PROVE ScannerInv' /\ [BlocksNext]_blockVars
  OBVIOUS
<1>1. /\ DocOK /\ pos \in Positions /\ indent \in 0..Wide - 1 /\ column \in 0..3 /\ fence \in Nat
      /\ atEnd = (pos > Len(doc)) /\ BlocksIInv
  BY DEF ScannerInv
<1>2. CASE UNCHANGED vars
  <2>1. UNCHANGED blockVars
    BY <1>2 DEF vars
  <2>2. BlocksIInv'
    BY <1>1, <2>1, BlocksStep
  <2>3. doc' = doc /\ pos' = pos /\ UNCHANGED <<indent, column, fence>>
    BY <1>2 DEF vars, textVars
  <2>4. atEnd' = (pos' > Len(doc'))
    BY <1>1, <2>1, <2>3 DEF blockVars
  <2> QED
    BY <1>1, <2>1, <2>2, <2>3, <2>4 DEF ScannerInv, DocOK, Positions
<1>3. CASE Next
  <2>1. doc' = doc /\ atEnd' = (pos' > Len(doc))
    BY <1>3 DEF Next
  <2>2. PICK z : /\ z = Scanned
                 /\ TakeExternal(z) \/ TakeInternal(z) \/ Accept(z) \/ Reject(z)
    BY <1>3 DEF Next
  <2>3. CASE TakeExternal(z)
    <3>1. BlocksNext /\ z \in State
      BY <2>1, <2>2, <2>3, TakenNext
    <3>2. pos' \in Positions
      BY <1>1, <2>3, <3>1, TakenPosition DEF TakeExternal
    <3>3. indent' \in 0..Wide - 1 /\ column' \in 0..3 /\ fence' \in Nat
      BY <2>3, <3>1 DEF TakeExternal, State
    <3>4. BlocksIInv'
      BY <1>1, <3>1, BlocksStep
    <3> QED
      BY <1>1, <2>1, <3>1, <3>2, <3>3, <3>4 DEF ScannerInv, DocOK, Positions
  <2>4. CASE TakeInternal(z) \/ Accept(z) \/ Reject(z)
    <3>1. /\ UNCHANGED <<blocks, matched, matching, soft, closing>>
          /\ UNCHANGED <<indent, column, fence>>
      BY <2>4 DEF TakeInternal, Accept, Reject
    <3>2. pos' \in Positions
      BY <1>1, <2>4, InternalPosition DEF Accept, Reject
    <3>3. atEnd' \in BOOLEAN /\ (atEnd => atEnd')
      <4>1. CASE TakeInternal(z)
        <5>1. At(pos) # "EOF"
          BY <4>1 DEF TakeInternal
        <5>2. ~ (pos > Len(doc))
          BY <1>1, <5>1, AtFacts
        <5>3. ~ atEnd
          BY <1>1, <5>2
        <5>4. atEnd' \in BOOLEAN
          BY <2>1
        <5> QED
          BY <5>3, <5>4
      <4>2. CASE Accept(z) \/ Reject(z)
        <5>1. pos' = pos
          BY <4>2 DEF Accept, Reject
        <5> QED
          BY <1>1, <2>1, <5>1
      <4> QED
        BY <2>4, <4>1, <4>2
    <3>4. BlocksNext
      BY <3>1, <3>3 DEF BlocksNext, OtherToken
    <3>5. BlocksIInv'
      BY <1>1, <3>4, BlocksStep
    <3> QED
      BY <1>1, <2>1, <3>1, <3>2, <3>4, <3>5 DEF ScannerInv, DocOK, Positions
  <2> QED
    BY <2>2, <2>3, <2>4
<1> QED
  BY <1>2, <1>3

LEMMA ScannerInitially == Init => ScannerInv /\ BlocksInit
<1> SUFFICES ASSUME Init PROVE ScannerInv /\ BlocksInit
  OBVIOUS
<1>1. DocOK
  BY DocumentAssumption DEF Init, DocOK
<1>2. Len(doc) \in Nat
  BY <1>1, AtFacts
<1>3. pos \in Positions /\ indent \in 0..Wide - 1 /\ column \in 0..3 /\ fence \in Nat
  BY <1>2, WideAssumption DEF Init, Positions
<1>4. atEnd = (pos > Len(doc))
  <2>1. pos = 1 /\ atEnd = (doc = << >>)
    BY DEF Init
  <2>2. doc = << >> <=> 1 > Len(doc)
    BY <1>1, <1>2 DEF DocOK
  <2> QED
    BY <2>1, <2>2
<1>5. BlocksInit
  BY DEF Init, BlocksInit
<1>6. BlocksIInv
  BY <1>5, BlocksInitially
<1> QED
  BY <1>1, <1>3, <1>4, <1>5, <1>6 DEF ScannerInv

(***************************************************************************)
(* The scanner, reading any document for any choices of the parser, keeps  *)
(* the books that MarkdownBlocks keeps: every call of scan opens, matches  *)
(* and closes blocks and sets the flags as one of its steps does.  In the  *)
(* look-ahead, which uses the same functions, none of it is changed.       *)
(***************************************************************************)
THEOREM ScannerKeepsBlocks == Spec => BlocksSpec
<1> QED
  BY ScannerInitially, ScannerStep, PTL DEF Spec, BlocksSpec

(***************************************************************************)
(* So in the scanner too there is a block left to match whenever scan      *)
(* matches, and one to pop at its BLOCK_CLOSE.                             *)
(***************************************************************************)
THEOREM ScannerMatchesOpen == Spec => []MatchesOpenBlocks
<1> QED
  BY ScannerKeepsBlocks, OpenBlocksMatched, PTL

(***************************************************************************)
(* And it closes no block that the line has matched.                       *)
(***************************************************************************)
THEOREM ScannerClosesUnmatched == Spec => ClosesUnmatched
<1> QED
  BY ScannerKeepsBlocks, UnmatchedClosed, PTL

=============================================================================
