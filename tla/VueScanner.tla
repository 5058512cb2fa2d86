------------------------------ MODULE VueScanner ------------------------------
(***************************************************************************)
(* The external scanner of the Vue grammar (vue_cgo/scanner.c) and the     *)
(* part of the generated parser that calls it.  The parser keeps a stack   *)
(* of the elements it is in; the scanner keeps its own, of their names,    *)
(* which is written to a buffer after every token of the scanner and read  *)
(* back before the next.                                                   *)
(*                                                                         *)
(* A document is a sequence of characters, in which a maximal run of       *)
(* letters is one: a word of Tags.  "." stands for any other character.    *)
(* Attributes, entities, the doctype and error recovery are left out: what *)
(* the grammar does not accept ends the run.                               *)
(***************************************************************************)
EXTENDS Tags, FiniteSets

CONSTANTS
    Documents,    \* the files to parse
    BufferSize,   \* TREE_SITTER_SERIALIZATION_BUFFER_SIZE
    NameMax,      \* UINT8_MAX
    CountMax,     \* UINT16_MAX
    Opens(_, _)   \* Opens(w, d): w begins with d, for words w and d

ASSUME LimitAssumption == BufferSize \in Nat /\ NameMax \in Nat /\ CountMax \in Nat

ASSUME DocumentAssumption == \A d \in Documents : d \in Seq(STRING)

\* strncpy copies as many letters as it is told to.
ASSUME CutAssumption ==
    \A w \in DOMAIN Length : Length[w] > NameMax => Length[CutName[w]] = NameMax

VARIABLES
    doc, pos,   \* the file, and the first character that is not yet in a token
    mode,       \* where in the grammar the parser is
    open,       \* the elements the parser is in, by the rule for them
    tags,       \* Scanner.tags after the last token of the scanner
    saved,      \* the buffer it was written to
    token       \* the last token of the scanner: its symbol, first and last character

vars == <<doc, pos, mode, open, tags, saved, token>>

Positions == 1..Len(doc) + 1

At(i) == IF i \in 1..Len(doc) THEN doc[i] ELSE "EOF"

Space == {" ", "NL", "CR"}

\* iswspace: over the space from i.
SkipSpace == [i \in Positions |->
                 CHOOSE j \in i..Len(doc) + 1 :
                     At(j) \notin Space /\ \A m \in i..j - 1 : At(m) \in Space]

\* A custom name consists of letters.
ASSUME LetterAssumption ==
    DOMAIN Length \cap (Space \cup {"<", ">", "/", "!", "-", "{", "}", "EOF", ""}) = {}

\* scan_tag_name; "" where no name begins.
NameAt(i) == IF At(i) \in Words THEN At(i) ELSE ""

-----------------------------------------------------------------------------
\* The bytes of an entry in the buffer, of which all must fit with one to spare.
Cost(tag) ==
    IF tag.type # "CUSTOM" THEN 1
    ELSE 2 + (IF Length[tag.name] > NameMax THEN NameMax ELSE Length[tag.name])

Used(s) == LET u[n \in 0..Len(s)] == IF n = 0 THEN 4 ELSE u[n - 1] + Cost(s[n])
           IN  u

Shortened(tag) ==
    IF tag.type = "CUSTOM" /\ Length[tag.name] > NameMax
    THEN [type |-> "CUSTOM", name |-> CutName[tag.name]] ELSE tag

\* The tags that fit in the buffer: as many of the outermost as possible.
Fitting(s) == {n \in 1..Len(s) : n <= CountMax /\ Used(s)[n] < BufferSize}

\* Mutant: only the tags that fit are counted.
SerializeFitting(s) ==
    [count |-> Cardinality(Fitting(s)), kept |-> [n \in Fitting(s) |-> Shortened(s[n])]]

\* Mutant: the innermost are kept.
SerializeInnermost(s) ==
    LET inner(n) == SubSeq(s, n, Len(s))
        room     == {n \in 1..Len(s) : Used(inner(n))[Len(s) - n + 1] < BufferSize}
    IN  [count |-> Len(s), kept |-> [n \in room |-> Shortened(s[n])]]

\* serialize: the number of tags, and those that fit.
Serialize(s) ==
    [count |-> IF Len(s) > CountMax THEN CountMax ELSE Len(s),
     kept  |-> [n \in Fitting(s) |-> Shortened(s[n])]]

\* deserialize: blank tags for those that did not fit.
Deserialize(b) ==
    [n \in 1..b.count |-> IF n \in DOMAIN b.kept THEN b.kept[n] ELSE Blank]

\* What the scanner works on.
stack  == Deserialize(saved)
parent == stack[Len(stack)]
Popped == SubSeq(stack, 1, Len(stack) - 1)

-----------------------------------------------------------------------------
InElement == open # << >> /\ open[Len(open)] = "element"
InRaw     == open # << >> /\ open[Len(open)] \in {"script", "style"}

\* ts_external_scanner_states: the symbols the parser takes from the scanner.
Valid ==
    {"COMMENT"} \cup
    CASE mode = "content" -> {"TEXT_FRAGMENT"} \cup (IF InElement THEN {"IMPLICIT_END_TAG"} ELSE {})
      [] mode = "open"    -> {"START_TAG_NAME"}
      [] mode = "tag"     -> IF InRaw THEN {} ELSE {"SELF_CLOSING_TAG_DELIMITER"}
      [] mode = "raw"     -> {"RAW_TEXT"}
      [] mode = "close"   -> (IF open = << >> THEN {} ELSE {"END_TAG_NAME"})
                                 \cup (IF InRaw THEN {} ELSE {"ERRONEOUS_END_TAG_NAME"})
      [] mode = "interpolation" -> {"INTERPOLATION_TEXT"}
      [] OTHER            -> {}

Parsing == mode \notin {"accepted", "rejected"}

\* The loop of scan over text, at character i: what it returns and up to where,
\* or where it leaves the rest of scan to go on; f is what comes of the rest.
TextStep(i, once, f) ==
    LET exit(end, at) == IF once THEN [out |-> "text", at |-> end] ELSE [out |-> "rest", at |-> at]
        j == SkipSpace[i]
    IN  CASE i > Len(doc) -> [out |-> "none", at |-> i]
          [] At(i) = "<" -> IF At(i + 1) \in Words \cup {"!", "?", "/"} THEN exit(i, i + 1)
                            ELSE f[<<i + 1, TRUE>>]
          [] At(i) = "{" -> IF At(i + 1) = "{" THEN exit(i, i + 1) ELSE f[<<i + 1, TRUE>>]
          [] At(i) = "}" /\ mode = "interpolation" ->
                 IF At(i + 1) # "}" THEN f[<<i + 1, once>>]
                 ELSE [out |-> IF once THEN "interpolation" ELSE "none", at |-> i]
          [] At(i) = "CR" -> IF At(i + 1) = "NL" THEN f[<<i + 1, once>>] ELSE f[<<i + 2, TRUE>>]
          [] At(i) = "NL" /\ mode = "content" ->
                 IF At(j) \in {"<", ">"} THEN exit(i, j) ELSE f[<<j, once>>]
          [] At(i) = "NL" /\ mode # "content" -> f[<<i + 1, once>>]
          [] OTHER -> f[<<i + 1, TRUE>>]

\* From each character, with and without one of text before it (once).
TextFrom ==
    LET f[p \in (1..Len(doc) + 2) \X BOOLEAN] == TextStep(p[1], p[2], f)
    IN  f

Text == TextFrom[<<pos, FALSE>>]

TextTried == mode \in {"content", "interpolation"} /\ At(pos) # "<"

\* Where scan goes on after the text, with and without the space there.
Resumed == IF TextTried THEN Text.at ELSE pos
Here    == SkipSpace[Resumed]

Goes == Parsing /\ (TextTried => Text.out = "rest")

-----------------------------------------------------------------------------
\* scan_comment, from i: past the end of the comment, or 0.
CommentEnd(i) ==
    LET ends == {m \in i + 4..Len(doc) : At(m) = ">" /\ At(m - 1) = "-" /\ At(m - 2) = "-"}
    IN  IF At(i) = "-" /\ At(i + 1) = "-" /\ ends # {}
        THEN 1 + (CHOOSE m \in ends : \A k \in ends : m <= k) ELSE 0

\* Mutant: the letters of a false start are looked at again, the rest is not.
RawEndAnywhere ==
    [i \in Positions |-> CHOOSE m \in i..Len(doc) + 1 : m > Len(doc) \/ At(m) = "<"]

\* scan_raw_text, from each character: up to the closing tag of the element.
\* A character that breaks off a false start, of which begun characters came,
\* is not looked at again.
RawEnd ==
    LET name == IF parent.type = "SCRIPT" THEN "SCRIPT" ELSE "STYLE"
        f[m \in Positions] ==
            LET begun == IF At(m) # "<" THEN 0 ELSE IF At(m + 1) # "/" THEN 1
                         ELSE IF Opens(name, At(m + 2)) THEN 3 ELSE 2
            IN  IF (begun >= 2 /\ Opens(At(m + 2), name)) \/ m + begun > Len(doc) THEN m
                ELSE f[m + begun + 1]
    IN  f

\* Mutant: a void element is not ended.
ImplicitEndNotVoid(i) ==
    /\ stack # << >> /\ At(i) # "/" /\ NameAt(i) # ""
    /\ ~ CanContain(parent.type, TagFor(NameAt(i)).type)

\* Mutant: the element that a closing tag names is not looked for.
ImplicitEndOfAny(i) ==
    /\ stack # << >>
    /\ \/ At(i) = "/" /\ NameAt(i + 1) # "" /\ ~ SameTag(parent, TagFor(NameAt(i + 1)))
       \/ At(i) # "/" /\ (IsVoid(parent) \/ ~ CanContain(parent.type, TagFor(NameAt(i)).type))

\* scan_implicit_end_tag, from i: must the innermost element end here?
ImplicitEnd(i) ==
    LET closing == At(i) = "/"
        n       == IF closing THEN i + 1 ELSE i
        next    == TagFor(NameAt(n))
        last    == At(IF NameAt(n) = "" THEN n ELSE n + 1) = "EOF"
        within  == parent.type \in {"HTML", "HEAD", "BODY"}
    IN  /\ stack # << >>
        /\ \/ ~ closing /\ IsVoid(parent)
           \/ /\ NameAt(n) # "" \/ At(n) = "EOF"
              /\ \/ ~ closing /\ (~ CanContain(parent.type, next.type) \/ (within /\ last))
                 \/ /\ closing /\ ~ SameTag(parent, next)
                    /\ \E m \in 1..Len(stack) : stack[m].type = next.type

\* Where an implicit end tag is looked for: after a "<" or at the end.
Tagged == IF At(Here) = "<" THEN Here + 1 ELSE Here

FindsComment == mode # "raw" /\ At(Here) = "<" /\ At(Here + 1) = "!"
FindsImplicitEnd ==
    /\ "IMPLICIT_END_TAG" \in Valid
    /\ At(Here) \in {"<", "EOF"} /\ ~ FindsComment
    /\ ImplicitEnd(Tagged)
FindsDelimiter ==
    "SELF_CLOSING_TAG_DELIMITER" \in Valid /\ At(Here) = "/" /\ At(Here + 1) = ">"
FindsName == Valid \cap {"START_TAG_NAME", "END_TAG_NAME"} # {} /\ NameAt(Here) # ""

\* The closing tag here ends the innermost element.
Closes == stack # << >> /\ SameTag(parent, TagFor(NameAt(Here)))

\* The scanner returns true.
Found ==
    \/ TextTried /\ Text.out \in {"text", "interpolation"}
    \/ /\ Goes
       /\ \/ mode = "raw" /\ stack # << >>
          \/ FindsComment /\ CommentEnd(Here + 2) # 0
          \/ FindsImplicitEnd \/ FindsDelimiter \/ FindsName

\* A token of the scanner up to end, after which its stack is s.
Emit(symbol, end, s) ==
    /\ token' = [symbol |-> symbol, from |-> pos, to |-> end - 1]
    /\ pos' = end
    /\ tags' = s
    /\ saved' = Serialize(s)
    /\ UNCHANGED doc

-----------------------------------------------------------------------------
TextFragment ==
    /\ Parsing /\ TextTried /\ Text.out = "text"
    /\ Emit("TEXT_FRAGMENT", Text.at, stack)
    /\ mode' = IF mode = "content" THEN mode ELSE "rejected"
    /\ UNCHANGED open

InterpolationText ==
    /\ Parsing /\ TextTried /\ Text.out = "interpolation"
    /\ Emit("INTERPOLATION_TEXT", Text.at, stack)
    /\ mode' = "interpolated"
    /\ UNCHANGED open

\* Mutant: raw text is followed by raw text.
RawTextRepeats ==
    /\ Goes /\ mode = "raw" /\ stack # << >>
    /\ Emit("RAW_TEXT", RawEnd[Resumed], stack)
    /\ UNCHANGED <<mode, open>>

RawText ==
    /\ Goes /\ mode = "raw" /\ stack # << >>
    /\ Emit("RAW_TEXT", RawEnd[Resumed], stack)
    /\ mode' = "rawEnd"
    /\ UNCHANGED open

Comment ==
    /\ Goes
    /\ FindsComment /\ CommentEnd(Here + 2) # 0
    /\ Emit("COMMENT", CommentEnd(Here + 2), stack)
    /\ UNCHANGED <<mode, open>>

\* An empty token before the tag that makes it necessary.
ImplicitEndTag ==
    /\ Goes /\ FindsImplicitEnd
    /\ Emit("IMPLICIT_END_TAG", Here, Popped)
    /\ open' = SubSeq(open, 1, Len(open) - 1)
    /\ UNCHANGED mode

Rules == {"template", "script", "style", "element"}

RuleOf(tag) ==
    CASE tag.type = "TEMPLATE" -> "template" [] tag.type = "SCRIPT" -> "script"
      [] tag.type = "STYLE" -> "style" [] OTHER -> "element"

\* Bound: the scanner counts to CountMax elements.
Counted == Len(open) < CountMax

StartTagName ==
    /\ Counted
    /\ Goes /\ FindsName /\ "START_TAG_NAME" \in Valid
    /\ Emit("START_TAG_NAME", Here + 1, Append(stack, TagFor(At(Here))))
    /\ open' = Append(open, RuleOf(TagFor(At(Here))))
    /\ mode' = "tag"

SelfClosingTagDelimiter ==
    /\ Goes /\ FindsDelimiter
    /\ stack # << >>
    /\ Emit("SELF_CLOSING_TAG_DELIMITER", Here + 2, Popped)
    /\ open' = SubSeq(open, 1, Len(open) - 1)
    /\ mode' = "content"

EndTagName ==
    /\ Goes /\ FindsName /\ "END_TAG_NAME" \in Valid
    /\ Closes
    /\ Emit("END_TAG_NAME", Here + 1, Popped)
    /\ open' = SubSeq(open, 1, Len(open) - 1)
    /\ mode' = "named"

\* Where the parser does not take such a tag, it is an error.
ErroneousEndTagName ==
    /\ Goes /\ FindsName /\ "END_TAG_NAME" \in Valid
    /\ ~ Closes
    /\ Emit("ERRONEOUS_END_TAG_NAME", Here + 1, stack)
    /\ mode' = IF "ERRONEOUS_END_TAG_NAME" \in Valid THEN "named" ELSE "rejected"
    /\ UNCHANGED open

-----------------------------------------------------------------------------
\* Where the scanner returns false, ts_lex is asked: it skips space and reads n
\* characters.
Lexed(n, m) ==
    /\ Parsing /\ ~ Found
    /\ pos' = SkipSpace[pos] + n
    /\ mode' = m
    /\ UNCHANGED <<doc, open, tags, saved, token>>

Next1 == At(SkipSpace[pos])
Next2 == At(SkipSpace[pos] + 1)

StartsTag      == mode = "content" /\ Next1 = "<" /\ Next2 \notin {"/", "!"}
StartsEndTag   == mode \in {"content", "rawEnd"} /\ Next1 = "<" /\ Next2 = "/"
StartsBraces   == mode = "content" /\ Next1 = "{" /\ Next2 = "{"
EndsBraces     == mode \in {"interpolation", "interpolated"} /\ Next1 = "}" /\ Next2 = "}"
EndsTag        == mode \in {"tag", "named"} /\ Next1 = ">"
EndsFile       == mode = "content" /\ Next1 = "EOF" /\ open = << >>

LexTag       == StartsTag /\ Lexed(1, "open")
LexEndTag    == StartsEndTag /\ Lexed(2, "close")
LexBraces    == StartsBraces /\ Lexed(2, "interpolation")
LexBracesEnd == EndsBraces /\ Lexed(2, "content")
LexTagEnd    == EndsTag /\ Lexed(1, IF mode = "tag" /\ InRaw THEN "raw" ELSE "content")
Accept       == EndsFile /\ Lexed(0, "accepted")

Reject ==
    /\ ~ (StartsTag \/ StartsEndTag \/ StartsBraces \/ EndsBraces \/ EndsTag \/ EndsFile)
    /\ Lexed(0, "rejected")

Next ==
    \/ TextFragment \/ InterpolationText \/ RawText \/ Comment
    \/ ImplicitEndTag \/ StartTagName \/ SelfClosingTagDelimiter
    \/ EndTagName \/ ErroneousEndTagName
    \/ LexTag \/ LexEndTag \/ LexBraces \/ LexBracesEnd \/ LexTagEnd
    \/ Accept \/ Reject

Init ==
    /\ doc \in Documents
    /\ pos = 1
    /\ mode = "content"
    /\ open = << >>
    /\ tags = << >>
    /\ saved = Serialize(<< >>)
    /\ token = [symbol |-> "none", from |-> 1, to |-> 0]

\* The parser runs in one goroutine: it keeps running.

Spec == Init /\ [][Next]_vars /\ WF_vars(Next)

-----------------------------------------------------------------------------
(***************************************************************************)
(* Two programs count the elements that are open: the parser, by its       *)
(* rules, and the scanner, by their names, of which a buffer carries what  *)
(* fits from one token to the next.  They never disagree on the number of  *)
(* elements, nor on the rule for one whose name the scanner still knows.   *)
(***************************************************************************)
StackInStep ==
    /\ Len(stack) = Len(open)
    /\ \A n \in 1..Len(open) : stack[n] # Blank => open[n] = RuleOf(stack[n])

(***************************************************************************)
(* What the scanner has made of a tag by its first restart it makes of it  *)
(* at every later one: a name below the innermost is not cut again, does   *)
(* not come back once it was lost, and does not move.                      *)
(***************************************************************************)
StableBelow ==
    [][\A n \in DOMAIN stack \cap DOMAIN stack' : stack'[n] = stack[n]]_vars

\* No carriage return alone, and nothing between a "<" and the name.
Plain ==
    \A n \in 1..Len(doc) : /\ At(n) = "CR" => At(n + 1) = "NL"
                           /\ At(n) = "<" => At(n + 1) \notin Space \cup {"<"}

(***************************************************************************)
(* No element is open in one that HTML does not let contain it, as far as  *)
(* the scanner knows them (a name that does not fit in the buffer it does  *)
(* not): the implicit end tags come in time.  This is so for plain         *)
(* documents only.  scan skips space between "<" and a name, but looks for *)
(* implicit end tags before; and a carriage return alone takes the "<"     *)
(* after it for text, so that no tag is seen there.                        *)
(***************************************************************************)
NestingLegal ==
    Plain => \A n \in 1..Len(tags) - 1 :
                 /\ ~ IsVoid(tags[n])
                 /\ tags[n + 1] # Blank => CanContain(tags[n].type, tags[n + 1].type)

(***************************************************************************)
(* Elements are ended for a closing tag only if that tag then ends one,    *)
(* but for two cases: custom elements are looked for by their type alone,  *)
(* and no implicit end tag ends a template.                                *)
(***************************************************************************)
NoWastedClosing ==
    mode = "close" /\ token.symbol = "IMPLICIT_END_TAG" =>
        \/ Closes
        \/ NameAt(Here) \notin TagNames
        \/ open # << >> /\ ~ InElement

Delimits(n) == At(n) = "<" /\ At(n + 1) = "/" /\ \E d \in {"SCRIPT", "STYLE"} : Opens(At(n + 2), d)

\* The characters up to n begin a closing tag that n + 1 breaks off.
FalseStart(n) ==
    \/ At(n) = "<"
    \/ At(n) = "/" /\ At(n - 1) = "<"
    \/ At(n - 1) = "/" /\ At(n - 2) = "<" /\ \E d \in {"SCRIPT", "STYLE"} : Opens(d, At(n))

(***************************************************************************)
(* The text of a script or style ends at a closing tag, or where the file  *)
(* ends or has only the start of one left, and holds no closing tag but    *)
(* directly after the false start of one: the character that breaks off a  *)
(* false start is not taken for the start of another.  (An element whose   *)
(* name no longer fits in the buffer is taken for a style.)                *)
(***************************************************************************)
RawTextStops ==
    token.symbol = "RAW_TEXT" /\ parent # Blank =>
        /\ \/ Delimits(token.to + 1)
           \/ At(token.to + 1) = "EOF"
           \/ At(token.to + 1) = "<" /\ Len(doc) - token.to <= 3 /\ FalseStart(Len(doc))
        /\ \A n \in token.from..token.to :
               /\ At(n) = "<" /\ At(n + 1) = "/"
               /\ Opens(At(n + 2), parent.type)
               => n > token.from /\ FalseStart(n - 1)

(***************************************************************************)
(* Every document is accepted or rejected in the end: the tokens without a *)
(* character (implicit end tags, empty raw text) do not repeat for ever.   *)
(***************************************************************************)
Finishes == <>(mode \in {"accepted", "rejected"})
=============================================================================
