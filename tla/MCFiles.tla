------------------------------- MODULE MCFiles -------------------------------
(***************************************************************************)
(* Files in five languages, with the edge rules of langs/: Python's scoped *)
(* supertypes and aliased imports, Ruby's structural calls, Bash's source, *)
(* Go's selectors, type references and import names, and JSON, which has   *)
(* no rules.  Calls are nested in calls, definitions in definitions.       *)
(***************************************************************************)
EXTENDS MCTrees

\* A syntax tree as a term: a node, the field of its parent it is, its children.
Term(kind, text, field, kids) == [kind |-> kind, text |-> text, field |-> field, kids |-> kids]
Leaf(kind, text, field)       == Term(kind, text, field, << >>)

\* The description of the tree of a term below node p, which will be node n.
RECURSIVE Flat(_, _, _), FlatAll(_, _, _)
Flat(x, p, n) ==
    << [parent |-> p, kind |-> x.kind, width |-> 1, text |-> x.text, field |-> x.field] >>
        \o FlatAll(x.kids, n, n + 1)
FlatAll(s, p, n) ==
    IF s = << >> THEN << >>
    ELSE LET d == Flat(Head(s), p, n)
         IN  d \o FlatAll(Tail(s), p, n + Len(d))

TreeOf(x) ==
    LET d == Flat(x, 0, 1)
        t == Build(d, {})
        below(n) == {c \in 1..Len(d) : d[c].parent = n /\ d[c].field # ""}
        fields(n) == [f \in {d[c].field : c \in below(n)} |->
                         CHOOSE c \in below(n) : d[c].field = f]
    IN  [kind |-> t.kind, parent |-> t.parent, above |-> t.above, children |-> t.children,
         startByte |-> t.startByte, endByte |-> t.endByte,
         startRow |-> t.startRow, endRow |-> t.endRow, named |-> t.named, lineEnds |-> t.lineEnds,
         text |-> [n \in 1..Len(d) |-> d[n].text], fields |-> [n \in 1..Len(d) |-> fields(n)]]

File(items) == TreeOf(Term("file", "file", "", items))

\* Pairs of items, and single ones.
Files(I) == {File(<< x >>) : x \in I} \cup {File(<< x, y >>) : x \in I, y \in I}

NoFields == [k \in {} |-> ""]
Splits(k, q, n) == [x \in {k} |-> [qualifier |-> q, name |-> n]]

EdgeRule(kind, edge, field, qfield, descend) ==
    [kind |-> kind, edge |-> edge, target |-> field, qualifier |-> qfield, descend |-> descend]

-----------------------------------------------------------------------------
Python ==
    [language |-> "python", topLevel |-> {"function_definition", "class_definition", "decorated_definition"},
     nested |-> {"function_definition"}, nameField |-> "name",
     rules |-> << EdgeRule("call", "call", "function", "", FALSE),
                  EdgeRule("import_statement", "import", "", "", FALSE),
                  EdgeRule("class_definition", "inherit", "superclasses", "", TRUE) >>,
     qualified |-> Splits("attribute", "object", "attribute"),
     nameKinds |-> {"identifier"}, moduleKinds |-> {"dotted_name"},
     aliasKinds |-> {"identifier"}, callNames |-> NoFields]

PyCall(f, args) ==
    Term("call", "call", "", << f, Term("argument_list", "()", "arguments", args) >>)
PyF == PyCall(Leaf("identifier", "f", "function"), << >>)
PyExprs ==
    { PyF, PyCall(Leaf("identifier", "", "function"), << PyF >>),
      PyCall(Leaf("identifier", "g", "function"), << PyF, Leaf("identifier", "x", "") >>),
      PyCall(Term("attribute", "a.f", "function",
                 << Leaf("identifier", "a", "object"), Leaf("identifier", "f", "attribute") >>),
             << >>) }
PyDef(name, body) ==
    Term("function_definition", "def", "", << Leaf("identifier", name, "name"), body >>)
PyClass(name, supers, body) ==
    Term("class_definition", "class", "", << Leaf("identifier", name, "name"),
        Term("argument_list", "()", "superclasses", supers), Term("block", "body", "", << body >>) >>)
PyImport(name) == Leaf("dotted_name", name, "name")
PyImportAs == Term("aliased_import", "as", "name",
    << PyImport("os"), Leaf("identifier", "o", "alias") >>)
PyItems ==
    PyExprs \cup {PyDef(name, b) : name \in {"f", ""}, b \in PyExprs}
        \cup {PyClass("C", s, PyDef("m", PyF)) :
                 s \in {<< >>, << Leaf("identifier", "B", "") >>,
                        << Leaf("identifier", "B", ""), PyF >>}}
        \cup { PyClass("C", << >>, PyClass("D", << >>, PyF)),
               Term("decorated_definition", "@", "", << PyDef("f", PyDef("g", PyF)) >>),
               PyClass("C", << >>, Term("decorated_definition", "@", "", << PyDef("m", PyF) >>)),
               Term("import_statement", "import", "", << PyImport("os") >>),
               Term("import_statement", "import", "", << PyImport("") >>),
               Term("import_statement", "import", "", << PyImportAs >>) }

-----------------------------------------------------------------------------
Ruby ==
    [language |-> "ruby", topLevel |-> {"class", "module", "method"}, nested |-> {"method"}, nameField |-> "name",
     rules |-> << EdgeRule("call", "call", "method", "receiver", FALSE),
                  EdgeRule("superclass", "inherit", "", "", TRUE),
                  EdgeRule("constant", "reference", "", "", FALSE) >>,
     qualified |-> NoFields, nameKinds |-> {"constant", "scope_resolution"},
     moduleKinds |-> {"string_content"}, aliasKinds |-> {},
     callNames |-> [c \in {"require", "include"} |->
                       IF c = "require" THEN "import" ELSE "inherit"]]

RbCall(receiver, name, args) ==
    Term("call", "call", "", receiver \o << Leaf("identifier", name, "method") >> \o args)
RbArgs(x) == << Term("argument_list", "args", "arguments", x) >>
RbString  == Term("string", "'x'", "", << Leaf("string_content", "x", "") >>)
RbCalls ==
    {RbCall(r, name, a) :
        r \in {<< >>, << Leaf("constant", "K", "receiver") >>},
        name \in {"require", "include", "run"},
        a \in {<< >>, RbArgs(<< RbString >>), RbArgs(<< Leaf("constant", "M", "") >>)}}
RbClass(name, body) ==
    Term("class", "class", "", << Leaf("constant", name, "name"),
        Term("superclass", "< B", "superclass", << Leaf("constant", "B", "") >>), body >>)
RbMethod(c) == Term("method", "def", "", << Leaf("identifier", "run", "name"), c >>)
RbItems == RbCalls \cup {RbClass("K", c) : c \in RbCalls}
               \cup {RbClass("K", RbMethod(c)) : c \in RbCalls}


-----------------------------------------------------------------------------
Bash ==
    [language |-> "bash", topLevel |-> {"function_definition"}, nested |-> {}, nameField |-> "name",
     rules |-> << EdgeRule("command", "call", "name", "", FALSE) >>,
     qualified |-> NoFields, nameKinds |-> {}, moduleKinds |-> {"word"}, aliasKinds |-> {},
     callNames |-> [c \in {"source"} |-> "import"]]

ShCommand(name, args) ==
    Term("command", "command", "", << Term("command_name", name, "name",
        << Leaf("word", name, "") >>) >> \o args)
ShItems ==
    {ShCommand(c, a) : c \in {"source", "ls"},
                       a \in {<< >>, << Leaf("word", "./lib.sh", "argument") >>,
                              << Term("substitution", "$()", "", << ShCommand("ls", << >>) >>) >>}}

-----------------------------------------------------------------------------
Go ==
    [language |-> "go", topLevel |-> {"function_declaration", "method_declaration", "type_declaration", "type_spec"},
     nested |-> {"field_declaration"}, nameField |-> "name",
     rules |-> << EdgeRule("call_expression", "call", "function", "", FALSE),
                  EdgeRule("import_spec", "import", "", "", FALSE),
                  EdgeRule("type_identifier", "reference", "", "", FALSE) >>,
     qualified |-> Splits("selector_expression", "operand", "field"),
     nameKinds |-> {}, moduleKinds |-> {"interpreted_string_literal"},
     aliasKinds |-> {"package_identifier"}, callNames |-> NoFields]

GoType(name, field) == Leaf("type_identifier", name, field)
GoMethod(name, body) ==
    Term("method_declaration", "func", "", << GoType("T", "receiver"),
        Leaf("field_identifier", name, "name"), GoType("P", "result") >> \o body)
GoStruct(name, field) ==
    Term("type_declaration", "type", "", << Term("type_spec", "struct", "",
        << GoType(name, "name"), Term("field_declaration", "field", "", field) >>) >>)
GoSelect == Term("call_expression", "fmt.P()", "", << Term("selector_expression", "fmt.P", "function",
    << Leaf("identifier", "fmt", "operand"), Leaf("field_identifier", "P", "field") >>) >>)
GoLiteral == Leaf("interpreted_string_literal", "fmt", "path")
GoItems ==
    { GoMethod("M", << >>), GoMethod("P", << >>), GoMethod("M", << GoSelect >>),
      GoStruct("T", << GoType("P", "type") >>),
      GoStruct("T", << Leaf("field_identifier", "p", "name"), GoType("T", "type") >>),
      Term("import_spec", "import", "", << GoLiteral >>),
      Term("import_spec", "import", "", << Leaf("package_identifier", "f", "name"), GoLiteral >>),
      Term("import_spec", "import", "", << >>) }

Json == [Bash EXCEPT !.language = "json", !.rules = << >>]

\* Two classes with a method of one name, in one line.
OneLine(t) == [t EXCEPT !.startRow = [n \in DOMAIN t.startRow |-> 0]]
RbRun      == RbCall(<< >>, "run", << >>)
RbClasses  == OneLine(File(<< RbClass("K", RbMethod(RbRun)), RbClass("L", RbMethod(RbRun)) >>))

-----------------------------------------------------------------------------
Of(language, items) == {[tree |-> t, es |-> language] : t \in Files(items)}

Cases == Of(Python, PyItems) \cup Of(Ruby, RbItems) \cup Of(Bash, ShItems)
             \cup Of(Go, GoItems) \cup {[tree |-> RbClasses, es |-> Ruby]}
NoRules == Of(Json, {Leaf("pair", "pair", "")})
=============================================================================
