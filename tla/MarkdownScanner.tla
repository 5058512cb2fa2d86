---------------------------- MODULE MarkdownScanner ----------------------------
(***************************************************************************)
(* The external scanner of the Markdown block grammar                      *)
(* (markdown_cgo/scanner.c) and the part of the generated parser that      *)
(* calls it.  Which tokens the parser takes depends on a row of the table  *)
(* of external tokens; which row comes next is taken from the parse tables *)
(* and is a choice here: the model takes every way the parser may try.     *)
(*                                                                         *)
(* A document is a sequence of characters, in which "NL" is a line ending, *)
(* "1" a digit and "a" anything without a meaning of its own.  An opening  *)
(* that parse_html_block knows is one character of Html.                   *)
(***************************************************************************)
EXTENDS MarkdownBlocks, FiniteSets

CONSTANTS
    Documents,   \* the files to parse
    Wide         \* 2^8: indentations are uint8_t

\* The last kind of block is 19.
ASSUME WideAssumption == Wide \in Nat /\ Wide > 19

ASSUME BlockAssumption == 0..Wide + 10 \subseteq Block

VARIABLES
    doc, pos,        \* the file, and its first character not yet in a token
    row,             \* where the parser is: external_lex_state, or "accepted", "rejected"
    indent, column,  \* Scanner.indentation, Scanner.column
    fence,           \* Scanner.fenced_code_block_delimiter_length
    token,           \* the last token
    foreseen         \* what the scanner read ahead of the line: its end, and
                     \* what it took the line to match and to begin with

textVars == <<doc, pos, row, indent, column, fence, token, foreseen>>
vars     == <<textVars, blockVars>>

\* enum Block; a list item whose content is indented by n is LIST_ITEM + n - 2.
BLOCK_QUOTE == 0
INDENTED_CODE_BLOCK == 1
LIST_ITEM == 2
LIST_ITEM_MAX_INDENTATION == 17
FENCED_CODE_BLOCK == 18
ANONYMOUS == 19

list_item_indentation(b) == (b - LIST_ITEM + 2) % Wide

\* The tokens that begin a block, and those of them that the grammar takes for
\* the same: the five list markers, the heading markers, the two fences.
Starts == {"BLOCK_QUOTE_START", "INDENTED_CHUNK_START", "ATX_MARKER", "THEMATIC_BREAK",
           "LIST_MARKER", "LIST_MARKER_DONT_INTERRUPT", "FENCED_CODE_BLOCK_START",
           "BLANK_LINE_START", "HTML_BLOCK_1_START", "HTML_BLOCK_START",
           "HTML_BLOCK_7_START", "PIPE_TABLE_START"}

Html == {"HTML_BLOCK_1_START", "HTML_BLOCK_1_END", "HTML_BLOCK_START", "HTML_BLOCK_7_START"}

\* Mutant: the end of a fence, in the row below its place, interrupts as well.
InterruptingAndEnds == (Starts \cup {"SETEXT_UNDERLINE", "FENCED_CODE_BLOCK_END_TILDE"}) \
    {"INDENTED_CHUNK_START", "LIST_MARKER_DONT_INTERRUPT", "HTML_BLOCK_7_START"}

\* paragraph_interrupt_symbols
Interrupting == (Starts \cup {"SETEXT_UNDERLINE"}) \
    {"INDENTED_CHUNK_START", "LIST_MARKER_DONT_INTERRUPT", "HTML_BLOCK_7_START"}

-----------------------------------------------------------------------------
(***************************************************************************)
(* The parser: from which rows a token leads to which.                     *)
(***************************************************************************)
Beginning == 2..14    \* where a block may begin

Leads(t) ==
    CASE t = "LINE_ENDING" ->
           {<<{15, 26}, {5, 7, 8}>>, <<{16}, {3, 5, 7, 8}>>, <<{17}, {3, 5, 27, 28, 34, 44}>>,
            <<{18, 28}, {28}>>, <<{19, 27}, {27}>>, <<{20, 32}, {30, 31}>>, <<{22, 29}, {29}>>,
            <<{23, 25}, {3, 5}>>, <<{30}, {30}>>, <<{31, 33}, {31}>>, <<{39}, {3, 5, 43}>>}
      [] t = "SOFT_LINE_ENDING" ->
           {<<Beginning \cup {15, 26}, {26}>>, <<{16}, {3, 5, 11, 12, 24, 26}>>,
            <<{21}, {24, 26, 34}>>, <<{24}, {24}>>, <<{36}, {38}>>}
      [] t = "PIPE_TABLE_LINE_ENDING" -> {<<{23, 25}, {25}>>}
      [] t = "BLOCK_CLOSE" ->
           {<<{5, 6, 8, 10, 12, 14, 20, 22, 29, 30, 31, 32, 33}, {3, 5}>>,
            <<{18, 19, 27, 28, 40, 41}, {4, 6}>>, <<{44, 46}, 3..6>>}
      [] t = "BLOCK_CONTINUATION" ->
           {<<{3}, {4}>>, <<{5}, {6}>>, <<{7}, {13}>>, <<{8}, {14}>>, <<{11}, {9}>>, <<{12}, {10}>>,
            <<{24}, {21}>>, <<{25}, {23}>>, <<{26}, {16}>>, <<{27}, {19}>>, <<{28}, {18}>>,
            <<{29}, {22}>>, <<{30}, {20}>>, <<{31}, {33}>>, <<{34}, {0}>>, <<{38}, {37}>>,
            <<{42}, {47}>>, <<{43}, {45}>>, <<{44}, {46}>>}
      [] t = "BLOCK_QUOTE_START" -> {<<Beginning, {5}>>}
      [] t \in {"LIST_MARKER", "LIST_MARKER_DONT_INTERRUPT"} -> {<<Beginning, {3}>>}
      [] t = "INDENTED_CHUNK_START" -> {<<Beginning, {20}>>}
      [] t = "ATX_MARKER" -> {<<Beginning \cup {35}, {17}>>}
      [] t = "SETEXT_UNDERLINE" -> {<<{7, 8, 13, 14}, {39}>>}
      [] t = "THEMATIC_BREAK" -> {<<Beginning, {39}>>}
      [] t = "FENCED_CODE_BLOCK_START" -> {<<Beginning, {17}>>}
      [] t = "FENCED_CODE_BLOCK_END_BACKTICK" -> {<<{19, 27, 40}, {45}>>}
      [] t = "FENCED_CODE_BLOCK_END_TILDE" -> {<<{18, 28, 41}, {45}>>}
      [] t = "BLANK_LINE_START" -> {<<Beginning \cup {31, 33}, {39}>>}
      [] t = "HTML_BLOCK_1_START" -> {<<Beginning \cup {15}, {22}>>}
      [] t = "HTML_BLOCK_1_END" -> {<<{22, 29}, {45}>>}
      [] t \in {"HTML_BLOCK_START", "HTML_BLOCK_7_START"} -> {<<Beginning \cup {15}, {20}>>}
      [] t = "CLOSE_BLOCK" -> {<<{32}, {20}>>, <<{43}, {20, 44}>>, <<{45}, {17, 20, 22, 44}>>}
      [] t = "NO_INDENTED_CHUNK" -> {<<9..12 \cup 36..38, {0}>>}
      [] t = "TRIGGER_ERROR" -> {<<{42, 47}, {21}>>}
      [] t = "EOF" -> {<<{15, 26}, {6, 13, 14}>>, <<{16}, {4, 6, 13, 14}>>, <<{23, 25}, {4, 6}>>,
                       <<{39}, {4, 6, 45}>>}
      [] t = "METADATA" -> {<<{2}, {4}>>}
      [] t = "PIPE_TABLE_START" -> {<<Beginning, {0}>>}
      [] t = "INTERNAL" ->     \* a run of blanks or another character
           {<<{0}, {0, 16, 17, 21, 23}>>, <<2..8 \cup {13, 14}, {15, 16}>>, <<9..12, {15, 16, 21, 37}>>,
            <<{15}, {16, 21}>>, <<{16}, {0, 16, 21, 36}>>, <<{17}, {0, 17}>>, <<{18, 28}, {18}>>,
            <<{19, 27}, {19}>>, <<{20, 30}, {20, 32, 45}>>, <<{21, 24}, {0, 16, 21}>>,
            <<{22, 29}, {22}>>, <<{23, 25}, {0, 23}>>, <<{26}, {16}>>, <<{31, 32, 33}, {20}>>,
            <<{34}, {0, 16}>>, <<{36}, {21}>>, <<{37, 38}, {21, 37}>>}
      [] OTHER -> {}    \* the ERROR token

Tokens == Starts \cup Html \cup
          {"LINE_ENDING", "SOFT_LINE_ENDING", "PIPE_TABLE_LINE_ENDING", "BLOCK_CLOSE",
           "BLOCK_CONTINUATION", "SETEXT_UNDERLINE", "FENCED_CODE_BLOCK_END_BACKTICK",
           "FENCED_CODE_BLOCK_END_TILDE", "CLOSE_BLOCK", "NO_INDENTED_CHUNK", "TRIGGER_ERROR",
           "EOF", "METADATA", "ERROR"}

After(t, r) == UNION {l[2] : l \in {m \in Leads(t) : r \in m[1]}}

\* The rows of ts_external_scanner_states, and the rows in which a file may end.
Valid  == [r \in 0..47 |-> {t \in Tokens : After(t, r) # {}}]
Ending == {0, 2, 3, 4, 7, 9, 11, 13, 35}

-----------------------------------------------------------------------------
(***************************************************************************)
(* The scanner works on a record of its fields and of the lexer's: at, the *)
(* next character; end, that of the token if it was marked; found, the     *)
(* token or "none"; ok, whether the last match matched.                    *)
(***************************************************************************)
At(i)  == IF i <= Len(doc) THEN doc[i] ELSE "EOF"
Cur(x) == At(x.at)

Blank == {" ", "TAB"}
Ink   == {">", "*", "-", "+", "1", ".", "TICK", "~", "#", "=", "_", "|", ":", "a"} \cup Html
Line  == Blank \cup Ink    \* all but the line ending

ASSUME DocumentAssumption == \A d \in Documents : d \in Seq(Line \cup {"NL"})

Size(x) == IF Cur(x) = "TAB" THEN 4 - x.column ELSE 1

advance(x) ==
    [x EXCEPT !.at = IF @ > Len(doc) THEN @ ELSE @ + 1,
              !.column = IF Cur(x) = "TAB" THEN 0 ELSE (@ + 1) % 4]

\* The first place from i on that has none of chars.
First(i, chars) ==
    CHOOSE j \in i..Len(doc) + 1 : At(j) \notin chars /\ \A k \in i..j - 1 : At(k) \in chars

\* advance, up to the place j.
To(x, j) ==
    LET afterTab == Cardinality({k \in x.at..j - 1 : \A l \in k..j - 1 : doc[l] # "TAB"})
    IN  [x EXCEPT !.at = j,
                  !.column = (afterTab + (IF afterTab = j - x.at THEN @ ELSE 0)) % 4]

Over(x, chars) == To(x, First(x.at, chars))

\* x, which has come to the place p.
PutAt(x, p) == [x EXCEPT !.at = p.at, !.column = p.column, !.indent = p.indent]

Places == [at : 1..Len(doc) + 1, column : 0..3, indent : 0..Wide - 1]

\* Over blanks, which are counted, while the indentation is less than enough.
Indented(x, enough) ==
    LET over[p \in Places] ==
            IF Cur(p) \in Blank /\ p.indent < enough
            THEN over[[advance(p) EXCEPT !.indent = (@ + Size(p)) % Wide]]
            ELSE p
    IN  PutAt(x, over[[at |-> x.at, column |-> x.column, indent |-> x.indent]])

Unindented(x) == Indented([x EXCEPT !.indent = 0], Wide)

Skip(x, c) == IF Cur(x) = c THEN advance(x) ELSE x

mark_end(x) == [x EXCEPT !.end = x.at]

Found(x, t)   == [x EXCEPT !.found = t]
Nothing(x)    == Found(x, "none")

\* Mutant: in the look-ahead too.
PushAhead(x, b) == [x EXCEPT !.blocks = Append(@, b)]

push_block(x, b) == IF x.simulate THEN x ELSE [x EXCEPT !.blocks = Append(@, b)]

AllMatched(x) == x.matched = Len(x.blocks)

\* After a ">": the rest of a blank that follows is indentation.
AfterQuote(x) ==
    LET y == [advance(x) EXCEPT !.indent = 0]
    IN  IF Cur(y) \in Blank THEN [advance(y) EXCEPT !.indent = Size(y) - 1] ELSE y

match(x, b) ==
    LET is(ok, y)  == [y EXCEPT !.ok = ok]
        less(y, n) == [y EXCEPT !.indent = @ - n]
        need       == list_item_indentation(b)
        code       == Indented(x, 4)
        item       == Indented(x, need)
        quote      == Indented(x, Wide)
    IN  CASE b = INDENTED_CODE_BLOCK ->
               IF code.indent >= 4 /\ Cur(code) # "NL" THEN is(TRUE, less(code, 4)) ELSE is(FALSE, code)
          [] b \in LIST_ITEM..LIST_ITEM_MAX_INDENTATION ->
               IF item.indent >= need THEN is(TRUE, less(item, need))
               ELSE IF Cur(item) = "NL" THEN is(TRUE, [item EXCEPT !.indent = 0])
               ELSE is(FALSE, item)
          [] b = BLOCK_QUOTE ->
               IF Cur(quote) = ">" THEN is(TRUE, AfterQuote(quote)) ELSE is(FALSE, quote)
          [] b \in {FENCED_CODE_BLOCK, ANONYMOUS} -> is(TRUE, x)
          [] OTHER -> is(FALSE, x)

-----------------------------------------------------------------------------
(***************************************************************************)
(* The tokens, each from its first character.                              *)
(***************************************************************************)
parse_fenced_code_block(x, v) ==
    LET d     == Cur(x)
        y     == mark_end(Over(x, {d}))
        level == (y.at - x.at) % Wide
        End   == IF d = "TICK" THEN "FENCED_CODE_BLOCK_END_BACKTICK" ELSE "FENCED_CODE_BLOCK_END_TILDE"
        closes == End \in v /\ x.indent < 4 /\ level >= x.fence
        z     == IF closes THEN Over(y, Blank) ELSE y
        info  == IF d = "TICK" THEN Over(z, Line \ {d}) ELSE z
    IN  IF closes /\ Cur(z) = "NL" THEN Found([z EXCEPT !.fence = 0], End)
        ELSE IF "FENCED_CODE_BLOCK_START" \in v /\ level >= 3 /\ (d = "TICK" => Cur(info) # d)
        THEN Found(push_block([info EXCEPT !.fence = level, !.indent = 0], FENCED_CODE_BLOCK),
                   "FENCED_CODE_BLOCK_START")
        ELSE Nothing(info)

\* A list item, whose marker was indented by before, and is followed by extra
\* space: all of it but one is indentation of the content, or, if the content is
\* code, of the code.
ListItem(x, before, extra, digits, t) ==
    LET code == extra - 1 > 3
        item == IF code THEN before ELSE (extra - 1 + before) % Wide
    IN  Found(push_block([x EXCEPT !.indent = IF code THEN extra - 1 ELSE 0],
                         LIST_ITEM + item + digits), t)

Marker(dont) == IF dont THEN "LIST_MARKER_DONT_INTERRUPT" ELSE "LIST_MARKER"

\* What "*" and "-" have in common: the first marker and the space after it, then
\* a line of markers and space.  Only the first of them belongs to a list marker.
Markers(x) ==
    LET m     == Cur(x)
        first == Unindented(advance(x))
        last  == Over(first, {m} \cup Blank)
        count == 1 + Cardinality({i \in first.at..last.at - 1 : doc[i] = m})
        empty == count = 1 /\ Cur(last) = "NL"
    IN  [count |-> count, lineEnd |-> Cur(last) = "NL",
         apart |-> \E i \in x.at..last.at - 1 : doc[i] = m /\ \E j \in x.at..i : doc[j] \in Blank,
         extra |-> IF empty THEN 1 ELSE first.indent,
         dont  |-> empty /\ AllMatched(x),
         item  |-> [last EXCEPT !.end = first.at],
         whole |-> mark_end([last EXCEPT !.indent = 0])]

parse_star(x, m, v) ==
    IF "THEMATIC_BREAK" \in v /\ m.count >= 3 /\ m.lineEnd /\ x.indent < 4
    THEN Found(m.whole, "THEMATIC_BREAK")
    ELSE IF Marker(m.dont) \in v /\ m.extra >= 1
    THEN ListItem(m.item, x.indent, m.extra, 0, Marker(m.dont))
    ELSE Nothing(x)

parse_thematic_break_underscore(x, m, v) ==
    IF m.count >= 3 /\ m.lineEnd /\ "THEMATIC_BREAK" \in v
    THEN Found(m.whole, "THEMATIC_BREAK") ELSE Nothing(x)

parse_block_quote(x, v) ==
    IF "BLOCK_QUOTE_START" \in v
    THEN Found(push_block(AfterQuote(x), BLOCK_QUOTE), "BLOCK_QUOTE_START") ELSE Nothing(x)

parse_atx_heading(x, v) ==
    LET y == Over(x, {"#"})
    IN  IF "ATX_MARKER" \in v /\ x.indent <= 3 /\ y.at - x.at <= 6 /\ Cur(y) \in Blank \cup {"NL"}
        THEN Found(mark_end([y EXCEPT !.indent = 0]), "ATX_MARKER") ELSE Nothing(x)

parse_setext_underline(x, v) ==
    LET y == Over(Over(x, {"="}), Blank)
    IN  IF "SETEXT_UNDERLINE" \in v /\ AllMatched(x) /\ Cur(y) = "NL"
        THEN Found(mark_end(y), "SETEXT_UNDERLINE") ELSE Nothing(x)

\* The loop of parse_plus and parse_minus from the end of a line: to the next line
\* that is three markers, which ends the metadata, or nothing up to the end of the
\* file.
Metadata(x, m) ==
    LET last(i) == First(i + 3, Blank)
        starts  == {i \in x.at + 1..Len(doc) :
                       doc[i - 1] = "NL" /\ First(i, {m}) = i + 3 /\ At(last(i)) = "NL"}
        start   == CHOOSE i \in starts : \A k \in starts : i <= k
    IN  IF starts = {} THEN Nothing(x) ELSE Found(mark_end(To(x, last(start) + 1)), "METADATA")

parse_plus(x, v) ==
    LET y     == advance(x)
        z     == Unindented(y)
        empty == Cur(z) = "NL"
        extra == IF empty THEN 1 ELSE z.indent
        t     == Marker(empty /\ AllMatched(x))
        three == Over(y, {"+"})
        open  == Over(three, Blank)
    IN  IF x.indent > 3 \/ v \cap {"LIST_MARKER", "LIST_MARKER_DONT_INTERRUPT", "METADATA"} = {}
        THEN Nothing(x)
        ELSE IF "METADATA" \in v /\ Cur(y) = "+"
        THEN IF three.at - x.at = 3 /\ Cur(open) = "NL" THEN Metadata(open, "+") ELSE Nothing(x)
        ELSE IF extra >= 1 /\ t \in v
        THEN ListItem(mark_end(z), x.indent, extra, 0, t) ELSE Nothing(x)

parse_ordered_list_marker(x, v) ==
    LET y      == Over(x, {"1"})
        digits == y.at - x.at
        z      == Unindented(advance(y))
        empty  == Cur(z) = "NL"
        extra  == IF empty THEN 1 ELSE z.indent
        dont   == (digits > 1 \/ empty) /\ AllMatched(x)
    IN  IF x.indent <= 3 /\ digits <= 9 /\ Cur(y) = "." /\ extra >= 1 /\ Marker(dont) \in v
        THEN ListItem(mark_end(z), x.indent, extra, digits, "LIST_MARKER") ELSE Nothing(x)

parse_minus(x, m, v) ==
    LET rule == IF "SETEXT_UNDERLINE" \in v /\ ~ m.apart /\ m.lineEnd /\ AllMatched(x)
                THEN "SETEXT_UNDERLINE"
                ELSE IF "THEMATIC_BREAK" \in v /\ m.count >= 3 /\ m.lineEnd
                THEN "THEMATIC_BREAK" ELSE "none"
        data == IF "METADATA" \in v /\ m.count = 3 /\ ~ m.apart /\ m.lineEnd
                THEN Metadata(m.whole, "-") ELSE Nothing(m.whole)
        Or(y, z) == IF y.found # "none" THEN y ELSE [z EXCEPT !.column = y.column]
    IN  IF x.indent > 3 \/ v \cap {"LIST_MARKER", "LIST_MARKER_DONT_INTERRUPT",
                                   "SETEXT_UNDERLINE", "THEMATIC_BREAK", "METADATA"} = {}
        THEN Nothing(x)
        ELSE IF rule = "none" /\ Marker(m.dont) \in v /\ m.extra >= 1
        THEN ListItem(m.item, x.indent, m.extra, 0, Marker(m.dont))
        ELSE Or(data, Found(m.whole, rule))

\* By the character that stands for the opening.  Each but the end opens a block.
parse_html_block(x, v) ==
    LET t == Cur(x)
        y == Found(advance(x), t)
    IN  IF t \notin v THEN Nothing(x)
        ELSE IF t = "HTML_BLOCK_1_END" THEN y ELSE push_block(y, ANONYMOUS)

-----------------------------------------------------------------------------
(***************************************************************************)
(* Lines.                                                                  *)
(***************************************************************************)
PutMatched(x, m) == [PutAt(x, m) EXCEPT !.matched = m.matched, !.ok = m.ok]

Matchings ==
    [at : 1..Len(doc) + 1, column : 0..3, indent : 0..Wide - 1, matched : Nat, ok : BOOLEAN]

\* The blocks up to top that the line matches, in order, from the next.
MatchUpTo(x, top) ==
    LET from[m \in Matchings] ==
            LET y == match(m, x.blocks[m.matched + 1])
            IN  IF m.matched >= top THEN [m EXCEPT !.ok = TRUE]
                ELSE IF y.ok THEN from[[y EXCEPT !.matched = @ + 1]] ELSE y
    IN  PutMatched(x, from[[at |-> x.at, column |-> x.column, indent |-> x.indent,
                            matched |-> x.matched, ok |-> x.ok]])

\* From i to end, the end of the line, there are n cells of a delimiter row: dashes,
\* with colons and blanks around, or blanks.  Behind the last "|" blanks are none.
Delimiters(i, end, n) ==
    LET next(b)   == First(b, Line \ {"|"})
        begins    == {i} \cup {k + 1 : k \in {l \in i..end - 1 : doc[l] = "|"}}
        empty(b)  == \A k \in b..next(b) - 1 : doc[k] \in Blank
        dashes(b) == \E c, d \in b..next(b) - 1 :
                        /\ c <= d /\ \A k \in c..d : doc[k] = "-"
                        /\ \A k \in b..c - 1 : doc[k] \in Blank \/ (k = c - 1 /\ doc[k] = ":")
                        /\ \A k \in d + 1..next(b) - 1 : doc[k] \in Blank \/ (k = d + 1 /\ doc[k] = ":")
    IN  /\ At(end) = "NL"
        /\ \A b \in begins : empty(b) \/ dashes(b)
        /\ Cardinality({b \in begins : next(b) # end \/ ~ empty(b)}) = n

\* A line of cells before a line of as many delimiters, in the same blocks.
parse_pipe_table(x) ==
    LET header == Over(x, Line)
        cells  == x.at + (IF Cur(x) = "|" THEN 1 ELSE 0)..header.at - 1
        pipes  == {i \in cells : doc[i] = "|"}
        ending == \E i \in pipes : \A j \in i + 1..header.at - 1 : doc[j] \in Blank
        below  == [advance(header) EXCEPT !.indent = 0, !.column = 0, !.matched = 0]
        row2   == MatchUpTo(Indented(below, Wide), Len(x.blocks))
        first  == Skip(row2, "|").at
        last   == Over(row2, Line)
        count  == Cardinality(pipes) + (IF ending THEN 0 ELSE 1)
    IN  IF pipes # {} /\ Cur(header) = "NL" /\ row2.ok /\ Delimiters(first, last.at, count)
        THEN Found([last EXCEPT !.end = x.at, !.matched = x.matched], "PIPE_TABLE_START")
        ELSE Nothing(x)

\* The block that begins at the first character of a line that is no blank.
BlockAt(x, v) ==
    LET c == Cur(x)
    IN  CASE c = "NL" -> IF "BLANK_LINE_START" \in v THEN Found(x, "BLANK_LINE_START") ELSE Nothing(x)
          [] c \in {"TICK", "~"} -> parse_fenced_code_block(x, v)
          [] c = "*" -> parse_star(x, Markers(x), v)
          [] c = "_" -> parse_thematic_break_underscore(x, Markers(x), v)
          [] c = ">" -> parse_block_quote(x, v)
          [] c = "#" -> parse_atx_heading(x, v)
          [] c = "=" -> parse_setext_underline(x, v)
          [] c = "+" -> parse_plus(x, v)
          [] c = "1" -> parse_ordered_list_marker(x, v)
          [] c = "-" -> parse_minus(x, Markers(x), v)
          [] c \in Html -> parse_html_block(x, v)
          [] OTHER -> IF "PIPE_TABLE_START" \in v THEN parse_pipe_table(x) ELSE Nothing(x)

\* What was found, or x with nothing of it.
OrElse(y, x) == IF y.found = "none" THEN x ELSE y

BeginAfterBlanks(x, v) ==
    IF /\ "INDENTED_CHUNK_START" \in v /\ "NO_INDENTED_CHUNK" \notin v
       /\ x.indent >= 4 /\ Cur(x) # "NL"
    THEN Found(push_block([x EXCEPT !.indent = @ - 4], INDENTED_CODE_BLOCK), "INDENTED_CHUNK_START")
    ELSE OrElse(BlockAt(x, v), x)

\* The part of scan where no block is to be matched: the block that begins here.
Begin(x, v) == BeginAfterBlanks(Indented(x, Wide), v)

\* Mutant: matching goes on when the block that was not matched is closed.
ContinueMatching(x, y) ==
    LET size  == Len(x.blocks)
        some  == y.matched > x.matched
        after == [y EXCEPT !.closing = @ /\ (some \/ ~ y.ok), !.matching = y.ok \/ ~ x.soft]
    IN  IF some THEN Found([after EXCEPT !.matching = @ /\ y.matched # size], "BLOCK_CONTINUATION")
        ELSE IF x.soft THEN after
        ELSE Found([after EXCEPT !.blocks = SubSeq(@, 1, size - 1)], "BLOCK_CLOSE")

\* The part of scan where blocks are to be matched, which leads from x to y: some
\* are, or the innermost is closed.
Continue(x, y) ==
    LET size  == Len(x.blocks)
        some  == y.matched > x.matched
        after == [y EXCEPT !.closing = @ /\ (some \/ ~ y.ok), !.matching = y.ok \/ ~ x.soft]
    IN  IF some THEN Found([after EXCEPT !.matching = @ /\ y.matched # size], "BLOCK_CONTINUATION")
        ELSE IF x.soft THEN after
        ELSE Found([after EXCEPT !.blocks = SubSeq(@, 1, size - 1),
                                 !.matching = y.matched # size - 1], "BLOCK_CLOSE")

\* A block that the parser asked to close is not matched any more.
StartOfLine(x, v) ==
    IF x.matching THEN Continue(x, MatchUpTo(x, Len(x.blocks) - (IF x.closing THEN 1 ELSE 0)))
    ELSE Begin(x, v)

\* Mutant: the token is marked before the line ending is taken.
NextLineMarkedEarly(x) == [advance(mark_end(x)) EXCEPT !.indent = 0, !.column = 0]

\* Over the line ending.
NextLine(x) == mark_end([advance(x) EXCEPT !.indent = 0, !.column = 0])

\* Mutant: matching goes on where the line before stopped.
MatchAheadFrom(x) ==
    MatchUpTo([Indented(x, Wide) EXCEPT !.simulate = TRUE], Len(x.blocks))

\* The blocks that the line at x will match.
MatchAhead(x) ==
    MatchUpTo([Indented(x, Wide) EXCEPT !.simulate = TRUE, !.matched = 0], Len(x.blocks))

\* The token at the end of the line of x.  If the scanner reads ahead, the next
\* line matches what ahead has matched, and start is what begins there.
LineEnding(x, next, ahead, start, v) ==
    LET reads == ~ x.closing /\ v \cap {"SOFT_LINE_ENDING", "PIPE_TABLE_LINE_ENDING"} # {}
        goes  == reads /\ Cur(ahead) # "EOF" /\ start.found = "none"
        y     == IF reads
                 THEN [start EXCEPT !.end = next.end, !.indent = 0, !.column = 0, !.matched = 0,
                                    !.seen = [matched |-> ahead.matched, begin |-> start.found]]
                 ELSE [next EXCEPT !.matched = 0]
    IN  IF goes /\ "PIPE_TABLE_LINE_ENDING" \in v /\ AllMatched(ahead)
        THEN Found([y EXCEPT !.matching = ahead.matched > 0], "PIPE_TABLE_LINE_ENDING")
        ELSE IF goes /\ "PIPE_TABLE_LINE_ENDING" \notin v
        THEN Found([y EXCEPT !.matching = ahead.matched > 0, !.soft = TRUE], "SOFT_LINE_ENDING")
        ELSE IF "LINE_ENDING" \in v
        THEN Found([y EXCEPT !.matching = x.blocks # << >>, !.soft = FALSE], "LINE_ENDING")
        ELSE Nothing(y)

StartAhead(x) == IF Cur(x) = "EOF" THEN x ELSE StartOfLine(x, Interrupting)

\* The end of a line.  In a paragraph or a table the scanner reads ahead, whether
\* the next line goes on with it, which it does unless a block begins there.
EndOfLine(x, v) ==
    LET next  == NextLine(x)
        ahead == MatchAhead(next)
    IN  LineEnding(x, next, ahead, StartAhead(ahead), v)

\* The end of the file: its token, or a block that is still open is closed.
EndOfFile(x, v) ==
    IF "EOF" \in v THEN Found(x, "EOF")
    ELSE IF x.blocks = << >> THEN x
    ELSE Found([x EXCEPT !.blocks = SubSeq(@, 1, Len(@) - 1)], "BLOCK_CLOSE")

\* From the start of the line, which was seen to.
FromStart(x, v) == IF x.found = "none" /\ Cur(x) = "NL" THEN EndOfLine(x, v) ELSE x

scan(x, v) ==
    IF "TRIGGER_ERROR" \in v THEN Found(x, "ERROR")
    ELSE IF "CLOSE_BLOCK" \in v THEN Found([x EXCEPT !.closing = TRUE], "CLOSE_BLOCK")
    ELSE IF Cur(x) = "EOF" THEN EndOfFile(x, v)
    ELSE FromStart(StartOfLine(x, v), v)

-----------------------------------------------------------------------------
Accepted == 48
Rejected == 49
Parsing  == row \notin {Accepted, Rejected}

\* What the scanner, called where the parser is, finds and leaves; it is not
\* called in row 0.
Scanned ==
    LET x == [at |-> pos, end |-> 0, found |-> "none", ok |-> FALSE, simulate |-> FALSE,
              blocks |-> blocks, matched |-> matched, matching |-> matching, soft |-> soft,
              closing |-> closing, indent |-> indent, column |-> column, fence |-> fence,
              seen |-> [matched |-> 0, begin |-> "none"]]
    IN  IF row = 0 THEN x ELSE scan(x, Valid[row])

LineEndings == {"LINE_ENDING", "SOFT_LINE_ENDING", "PIPE_TABLE_LINE_ENDING"}

Foreseen(t, seen) ==
    IF t \in LineEndings THEN [line |-> t, matched |-> seen.matched, begin |-> seen.begin]
    ELSE IF t \in {"BLOCK_CONTINUATION", "BLOCK_CLOSE"} THEN foreseen
    ELSE [foreseen EXCEPT !.begin = "none"]

\* The parser takes the token of the scanner, x, and what the scanner leaves.
TakeExternal(x) ==
    /\ x.found # "none"
    /\ row' \in After(x.found, row)
    /\ token' = x.found
    /\ pos' = IF x.end = 0 THEN x.at ELSE x.end
    /\ blocks' = x.blocks /\ matched' = x.matched /\ matching' = x.matching
    /\ soft' = x.soft /\ closing' = x.closing
    /\ indent' = x.indent /\ column' = x.column /\ fence' = x.fence
    /\ foreseen' = Foreseen(x.found, x.seen)

\* The scanner finds nothing, and loses what it has done; ts_lex takes a run of
\* blanks or another character.
TakeInternal(x) ==
    /\ x.found = "none"
    /\ At(pos) \notin {"NL", "EOF"}
    /\ row' \in After("INTERNAL", row)
    /\ pos' = CHOOSE j \in pos + 1..Len(doc) + 1 :
                  \/ At(pos) \notin Blank /\ j = pos + 1
                  \/ At(j) \notin Blank /\ \A i \in pos..j - 1 : At(i) \in Blank
    /\ token' = "INTERNAL"
    /\ foreseen' = Foreseen("INTERNAL", foreseen)
    /\ UNCHANGED <<blocks, matched, matching, soft, closing, indent, column, fence>>

Accept(x) ==
    /\ row \in Ending /\ At(pos) = "EOF" /\ x.found = "none"
    /\ row' = Accepted
    /\ UNCHANGED <<blocks, matched, matching, soft, closing, indent, column, fence, pos, token, foreseen>>

\* A token that the parser does not expect: this way to parse the file is given up.
Reject(x) ==
    /\ \/ x.found # "none" /\ After(x.found, row) = {}
       \/ x.found = "none" /\ At(pos) = "EOF" /\ row \notin Ending
       \/ x.found = "none" /\ At(pos) # "EOF"
          /\ (At(pos) = "NL" \/ After("INTERNAL", row) = {})
    /\ row' = Rejected
    /\ UNCHANGED <<blocks, matched, matching, soft, closing, indent, column, fence, pos, token, foreseen>>

Init ==
    /\ doc \in Documents
    /\ pos = 1 /\ row = 2 /\ token = "none"
    /\ blocks = << >> /\ matched = 0
    /\ matching = FALSE /\ soft = FALSE /\ closing = FALSE
    /\ indent = 0 /\ column = 0 /\ fence = 0
    /\ atEnd = (doc = << >>)
    /\ foreseen = [line |-> "none", matched |-> 0, begin |-> "none"]

Next ==
    /\ Parsing
    /\ \E x \in {Scanned} : TakeExternal(x) \/ TakeInternal(x) \/ Accept(x) \/ Reject(x)
    /\ atEnd' = (pos' > Len(doc))
    /\ UNCHANGED doc

\* WF_vars(Next): as long as the file is being parsed there is a step to take.
Fairness == <>[](~ Parsing) \/ []<><<TRUE>>_vars

Spec == Init /\ [][Next]_vars /\ Fairness

-----------------------------------------------------------------------------
(***************************************************************************)
(* A line that goes on with a paragraph or a table matches the blocks that *)
(* the look-ahead matched for it.  The two go over the line differently:   *)
(* the look-ahead counts all the space before the first block, the scanner *)
(* what a block needs, token by token.                                     *)
(***************************************************************************)
MatchesAsForeseen ==
    foreseen.line \in {"SOFT_LINE_ENDING", "PIPE_TABLE_LINE_ENDING"} /\ token \notin LineEndings
        => matched = foreseen.matched

(***************************************************************************)
(* A paragraph that ends because the look-ahead saw a block begin on the   *)
(* next line is followed by the beginning of a block, after those that     *)
(* continue or are closed.  (For a table it need not be: its second line   *)
(* is looked at with the blocks that were open before.  An underline makes *)
(* the paragraph a heading, in one of the rows that may follow.)           *)
(***************************************************************************)
BeginsAsForeseen ==
    [][/\ foreseen.begin \notin {"none", "PIPE_TABLE_START", "SETEXT_UNDERLINE"}
       /\ row' \notin {Accepted, Rejected}
       => token' \in Starts \cup {"BLOCK_CONTINUATION", "BLOCK_CLOSE"}]_vars

(***************************************************************************)
(* Every way to parse every file comes to an end: the tokens that have no  *)
(* characters, as those that close a block, do not go on for ever.         *)
(***************************************************************************)
Finishes == <>(~ Parsing)
=============================================================================
