------------------------------ MODULE MCRegistry ------------------------------
(***************************************************************************)
(* Up to three configs, in any order: Go, TypeScript, Vue with its own     *)
(* variants of JavaScript and TypeScript, a language that embeds Vue and   *)
(* CSS, one without a grammar, one that claims what Go claims but spells   *)
(* it in another case, and one that has the name of the language that      *)
(* embeds CSS and embeds nothing.                                          *)
(***************************************************************************)
EXTENDS Registry

MCConfigs == {"go", "ts", "vue", "vue-ts", "vue-js", "mdx", "mdx-plain", "css", "nil", "golang"}

MCName == [c \in MCConfigs |-> CASE c \in {"ts", "vue-ts"} -> "typescript"
                                 [] c = "vue-js" -> "javascript"
                                 [] c = "mdx-plain" -> "mdx"
                                 [] OTHER -> c]

MCExtensions == [c \in MCConfigs |->
    CASE c = "ts" -> << ".ts", ".mts" >>
      [] c = "go" -> << ".go" >>
      [] c = "vue" -> << ".Vue" >>
      [] c = "golang" -> << ".gox", ".Go" >>
      [] OTHER -> << >>]

MCToLower == [e \in {".go", ".Go", ".gox", ".ts", ".mts", ".Vue"} |->
    CASE e = ".Go"  -> ".go"
      [] e = ".Vue" -> ".vue"
      [] OTHER -> e]

MCHasGrammar == [c \in MCConfigs |-> c # "nil"]
MCTables     == [c \in MCConfigs |-> c]

MCInjected == [c \in MCConfigs |->
    CASE c = "vue" -> << {"vue-ts", "vue-js"} >>
      [] c = "mdx" -> << {"vue"}, {"css"} >>
      [] OTHER -> << >>]

Sizes == {<<1500, 50>>, <<0, 50>>, <<1500, 0>>, <<-1, -1>>}

MCCalls ==
    {[langs |-> s, max |-> z[1], min |-> z[2]] :
        s \in UNION {[1..l -> {"go", "ts", "vue", "mdx", "mdx-plain", "nil", "golang"}] : l \in 0..3},
        z \in Sizes}
=============================================================================
