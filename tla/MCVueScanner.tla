----------------------------- MODULE MCVueScanner -----------------------------
(***************************************************************************)
(* Every document of up to three pieces, where a piece is a tag, a closing *)
(* tag, an interpolation, a comment, a line end or one of the characters   *)
(* that matter alone; every nest of three elements with two closing tags;  *)
(* and longer documents for scripts.  The buffer holds five standard tags  *)
(* or one custom tag, and a name two letters.                              *)
(***************************************************************************)
EXTENDS VueScanner

MCLength  == [w \in {"X", "Y", "LON", "LONG", "SCRIPTS"} |->
                 CASE w \in {"X", "Y"} -> 1 [] w = "LON" -> 3 [] OTHER -> 4]
MCCutName == [w \in DOMAIN MCLength |-> IF MCLength[w] = 4 THEN "LON" ELSE w]

MCOpens(w, d) == w = d \/ (w = "SCRIPTS" /\ d = "SCRIPT") \/ (d = "S" /\ w \in {"SCRIPT", "SCRIPTS", "STYLE"})

Start(w) == <<"<", w, ">">>
End(w)   == <<"<", "/", w, ">">>
Single(w) == <<"<", w, "/", ">">>

Openings == {Start(w) : w \in {"LI", "P", "BR", "DIV", "COLGROUP", "X", "LONG", "TEMPLATE", "BODY"}}
Closings == {End(w) : w \in {"LI", "P", "DIV", "X", "Y", "LONG", "TEMPLATE"}}
Scripts  == {Start("SCRIPT"), Start("STYLE"), End("SCRIPT"), End("STYLE")}

Loose == {<<".">>, <<"NL">>, <<"CR">>, <<"{">>, <<"<", ".">>, <<"{", "{", ".", "}", "}">>,
          <<"{", "{", "}", ".", "}", "}">>, <<"<", "!", "-", "-", "-", ">", "-", "-", ">">>,
          <<"<", " ", "LI", ">">>, Single("X"), Single("P")}

Pieces == Openings \cup Closings \cup Scripts \cup Loose

Pairs == {x \o y : x \in Pieces, y \in Pieces}

Small == Pieces \cup Pairs \cup {x \o y : x \in Pairs, y \in Openings \cup Closings \cup {End("SCRIPT"), <<".">>}}

Nesting == {Start(w) : w \in {"LI", "P", "BR", "DIV", "COLGROUP", "X", "TEMPLATE"}}

Nested == {x1 \o x2 \o x3 \o <<".">> \o y1 \o y2 :
              x1, x2, x3 \in Nesting, y1, y2 \in {End(w) : w \in {"LI", "P", "DIV", "X", "TEMPLATE"}}}

Deep == {Start("DIV") \o Start("LI") \o x1 \o x2 \o x3 \o y1 \o y2 :
            x1 \in {Start("LONG"), Start("X"), Start("DIV")},
            x2, x3 \in {Start("LONG"), Start("X"), Start("P"), Start("TEMPLATE")},
            y1, y2 \in {End("X"), End("P"), End("DIV"), Start("LI")}}

RawBits == {<<"<">>, <<"<", "/">>, <<"<", "/", "S">>, <<".">>, End("SCRIPT"), End("STYLE"), End("SCRIPTS")}
Raw == {Start("SCRIPT") \o x1 \o x2 \o x3 \o y : x1, x2, x3 \in RawBits, y \in {<< >>, End("SCRIPT"), End("STYLE")}}

Lost == {Start("DIV") \o Start("DIV") \o x1 \o Start("COLGROUP") \o Start("COL") \o x2 :
            x1 \in {Start("DIV"), Start("LI"), Start("DIV") \o Start("DIV")},
            x2 \in {Start("P"), Start("COL"), <<".">>, End("COLGROUP"), End("DIV")}}

MCDocuments == Small \cup Nested \cup Deep \cup Lost \cup Raw
===============================================================================
