--------------------------- MODULE MCMarkdownScanner ---------------------------
(***************************************************************************)
(* Every document of three lines out of Lines, the last of them one of     *)
(* Last: each kind of block, alone, inside others, with a tab, and         *)
(* indented like code; the lines that may continue it, and those that may  *)
(* end it.  Nothing is indented by as many columns as a uint8_t has values.*)
(***************************************************************************)
EXTENDS MarkdownScanner

Indent(n) == [i \in 1..n |-> " "]
Three(c)  == <<c, c, c>>

Quotes  == {<<">", " ", "a">>, <<">", "TAB", "a">>, <<">">>}
Items   == {<<"*", " ", "a">>, <<"*", "TAB", "a">>, <<"*">>, <<"1", ".", " ", " ", "a">>,
            Indent(2) \o <<"+", " ", "a">>, <<"TAB", "-", " ", "-">>, <<"*">> \o Indent(6) \o <<"a">>}
Nested  == {<<"*", " ", "*", "TAB", "a">>, <<">", " ", "*", " ", "a">>, <<"*", " ", ">", "a">>,
            <<">", " ", "|", "-", "|">>, <<"-", " ">> \o Three("TICK")}
Code    == {Indent(4) \o <<"a">>, Indent(4) \o <<"*">>, Three("TICK"), Three("~"), <<"~">>}
Rules   == {Three("-"), Three("_"), <<"#", " ", "a">>, <<"=">>, Three("+")}
Tables  == {<<"|", "a", "|">>, <<"|", ":", "-", "|">>, <<"a", "|", "a">>}
HtmlOnly == {<<h>> : h \in Html}

Lines == Quotes \cup Items \cup Nested \cup Code \cup Rules \cup Tables \cup HtmlOnly
             \cup {<<"a">>, Indent(2) \o <<"a">>, << >>}

Last == {<<"a">>, <<"~">>, <<">", " ", "a">>, Three("TICK"), <<"|", ":", "-", "|">>}

MCDocuments == {l \o <<"NL">> \o m \o <<"NL">> \o n \o end :
                   l, m \in Lines, n \in Last, end \in {<< >>, <<"NL">>}}

MCBlock == 0..Wide + 10
=============================================================================
