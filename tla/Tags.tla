--------------------------------- MODULE Tags ---------------------------------
(***************************************************************************)
(* tag.h of the Vue grammar: the elements of HTML that the scanner knows,  *)
(* which of them are void, and which may contain which.  A name stands for *)
(* itself in capitals, as scan_tag_name makes it; every name that is not   *)
(* in the table is a custom element.                                       *)
(***************************************************************************)
EXTENDS Integers, Sequences

CONSTANTS
    Length,    \* the number of letters of a custom name: a function
    CutName    \* a custom name without the letters past the 255th: a function

ASSUME NameAssumption ==
    /\ DOMAIN CutName = DOMAIN Length
    /\ \A w \in DOMAIN Length :
          /\ Length[w] \in Nat /\ CutName[w] \in DOMAIN Length

-----------------------------------------------------------------------------
\* The types below END_OF_VOID_TAGS.
VoidTypes ==
    {"AREA", "BASE", "BASEFONT", "BGSOUND", "BR", "COL", "COMMAND", "EMBED", "FRAME", "HR",
     "IMAGE", "IMG", "INPUT", "ISINDEX", "KEYGEN", "LINK", "MENUITEM", "META", "NEXTID",
     "PARAM", "SOURCE", "TRACK", "WBR"}

\* TAG_TYPES_NOT_ALLOWED_IN_PARAGRAPHS
NotInParagraphs ==
    {"ADDRESS", "ARTICLE", "ASIDE", "BLOCKQUOTE", "DETAILS", "DIV", "DL", "FIELDSET",
     "FIGCAPTION", "FIGURE", "FOOTER", "FORM", "H1", "H2", "H3", "H4", "H5", "H6", "HEADER",
     "HR", "MAIN", "NAV", "OL", "P", "PRE", "SECTION"}

\* TAG_TYPES_BY_TAG_NAME, the void ones and those of paragraphs included.
TagNames ==
    VoidTypes \cup NotInParagraphs \cup
    {"A", "ABBR", "AUDIO", "B", "BDI", "BDO", "BODY", "BUTTON", "CANVAS", "CAPTION", "CITE",
     "CODE", "COLGROUP", "DATA", "DATALIST", "DD", "DEL", "DFN", "DIALOG", "DT", "EM", "HEAD",
     "HGROUP", "HTML", "I", "IFRAME", "INS", "KBD", "LABEL", "LEGEND", "LI", "MAP", "MARK",
     "MATH", "MENU", "METER", "NOSCRIPT", "OBJECT", "OPTGROUP", "OPTION", "OUTPUT", "PICTURE",
     "PROGRESS", "Q", "RB", "RP", "RT", "RTC", "RUBY", "S", "SAMP", "SCRIPT", "SELECT", "SLOT",
     "SMALL", "SPAN", "STRONG", "STYLE", "SUB", "SUMMARY", "SUP", "SVG", "TABLE", "TBODY",
     "TD", "TEMPLATE", "TEXTAREA", "TFOOT", "TH", "THEAD", "TIME", "TITLE", "TR", "U", "UL",
     "VAR", "VIDEO"}

ASSUME CustomAssumption == DOMAIN Length \cap TagNames = {}

Words == TagNames \cup DOMAIN Length

\* tag_new
Blank == [type |-> "END_", name |-> ""]

\* tag_for_name; the name "" is read at the end of the file only.
TagFor(w) ==
    IF w \in TagNames THEN [type |-> w, name |-> ""] ELSE [type |-> "CUSTOM", name |-> w]

Tag == {TagFor(w) : w \in Words} \cup {Blank}

IsVoid(tag) == tag.type \in VoidTypes

\* tag_eq: the name tells custom elements apart.
SameTag(x, y) == x.type = y.type /\ (x.type = "CUSTOM" => x.name = y.name)

\* tag_can_contain, of types.
CanContain(parent, child) ==
    CASE parent = "LI"                -> child # "LI"
      [] parent \in {"DT", "DD"}      -> child \notin {"DT", "DD"}
      [] parent = "P"                 -> child \notin NotInParagraphs
      [] parent = "COLGROUP"          -> child = "COL"
      [] parent \in {"RB", "RT", "RP"} -> child \notin {"RB", "RT", "RP"}
      [] parent = "OPTGROUP"          -> child # "OPTGROUP"
      [] parent = "TR"                -> child # "TR"
      [] parent \in {"TD", "TH"}      -> child \notin {"TD", "TH", "TR"}
      [] OTHER                        -> TRUE
=============================================================================
