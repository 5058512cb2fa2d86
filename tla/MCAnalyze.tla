------------------------------ MODULE MCAnalyze ------------------------------
(***************************************************************************)
(* Vue files of a template, one or two scripts and perhaps a style, in     *)
(* which each part may be smaller or larger than a chunk; scripts without  *)
(* content, without a lang attribute, in a language without a grammar, and *)
(* inside the template.  A second rule, for styles, has no grammar that    *)
(* finds anything.                                                         *)
(***************************************************************************)
EXTENDS Analyze, MCTrees

MCLanguages == {"vue", "typescript", "css"}
MCTopLevel  == [l \in MCLanguages |->
    CASE l = "vue"        -> {"template_element", "script_element", "style_element"}
      [] l = "typescript" -> {"function", "class"}
      [] OTHER            -> {}]
MCNested    == [l \in MCLanguages |-> IF l = "typescript" THEN {"method"} ELSE {}]

Rule(element, dflt, grammars) ==
    [container |-> element, content |-> "raw_text", attr |-> "lang",
     default |-> dflt, grammars |-> grammars]

MCRules == << Rule("script_element", "ts", [v \in {"ts"} |-> "typescript"]),
              Rule("style_element", "css", [v \in {"css"} |-> "css"]) >>

\* An element below node p, which will be node n: a start tag whose attribute
\* value has width w, and content of width c.
Element(p, n, kd, w, c) ==
    << Own(p, kd, 0), Own(n, "start_tag", 0), Own(n + 1, "attribute_value", w),
       Own(n, "raw_text", c) >>

\* A self-closing element has no content.
Empty(p, n, kd) == << Own(p, kd, 0), Own(n, "start_tag", 1) >>

Widths   == {0, 1, 3, 5, 10}
Scripts(p, n) == {Element(p, n, "script_element", w, c) : w \in {0, 7}, c \in Widths}
                     \cup {Empty(p, n, "script_element")}

Files ==
    LET doc == << Own(0, "document", 0) >>
        tpl(w) == << Own(1, "template_element", w) >>
    IN  {doc \o tpl(w) \o s : w \in {1, 7}, s \in Scripts(1, 3)}
            \cup {doc \o s \o Element(1, 2 + Len(s), "script_element", 0, c) :
                     s \in Scripts(1, 2), c \in {5, 10}}
            \cup {doc \o Element(1, 2, "style_element", 0, c) \o s :
                     c \in {1, 8}, s \in Scripts(1, 6)}
            \cup {doc \o tpl(w) \o s : w \in {0, 7}, s \in Scripts(2, 3)}

\* The attributes of every start tag are those of the first choice of A.
WithAttributes(t, a) == [kind |-> t.kind, parent |-> t.parent, above |-> t.above,
    children |-> t.children, startByte |-> t.startByte, endByte |-> t.endByte,
    startRow |-> t.startRow, endRow |-> t.endRow, named |-> t.named,
    lineEnds |-> t.lineEnds, attributes |-> [n \in NodesOf(t) |-> a]]

Lang(v) == [name |-> "lang", value |-> v]

Attributes == {<< >>, << Lang("ts") >>, << Lang("coffee") >>,
               << [name |-> "setup", value |-> ""], Lang(""), Lang("ts") >>}

MCRoots ==
    {WithAttributes(Build(d, {}), << Lang("ts") >>) : d \in Files}
        \cup {WithAttributes(Build(<< Own(0, "document", 0) >> \o s, {}), a) :
                 s \in Scripts(1, 2), a \in Attributes}

\* What a script may parse to, at most as wide as its text: nothing of interest,
\* one or two functions, a class with a method.
Programs ==
    { << Own(0, "program", 0), Own(1, "comment", 1) >>,
      << Own(0, "program", 0), Own(1, "function", 1) >>,
      << Own(0, "program", 0), Own(1, "function", 2), Own(1, "function", 1) >>,
      << Own(0, "program", 0), Own(1, "class", 1), Own(2, "method", 5) >>,
      << Own(0, "program", 0), Own(1, "function", 8) >> }

MCParsed(l, t, n) ==
    {p \in {BuildAt(d, {"class"}, t.startByte[n]) : d \in Programs} :
        p.endByte[1] <= t.endByte[n]}
=============================================================================
