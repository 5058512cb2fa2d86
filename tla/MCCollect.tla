------------------------------ MODULE MCCollect ------------------------------
(***************************************************************************)
(* The walk over every tree of up to four nodes, whose kinds are those of  *)
(* a language such as Python or Go: a named top-level kind (class), a kind *)
(* both top-level and nested (function), a nameless top-level wrapper      *)
(* (decorated), a nested kind (field), and no boundary at all (block).     *)
(* Two larger trees put methods two levels inside an oversized class.      *)
(***************************************************************************)
EXTENDS Collect, MCTrees

MCLanguages == {"python"}
MCTopLevel  == [l \in MCLanguages |-> {"class", "function", "decorated"}]
MCNested    == [l \in MCLanguages |-> {"function", "field"}]

MCKinds == {"class", "function", "decorated", "field", "block"}
Named   == {"class", "function"}

Generated ==
    {Build(d, Named) : d \in Descriptions(4, "module", MCKinds, {1, 4})}

\* class C { function m1; @decorated function m2 }, with m1 and m2 of width w.
Class(w) ==
    << Own(0, "module", 0), Own(1, "class", 1), Own(2, "block", 0),
       Own(3, "function", w), Own(3, "decorated", 1), Own(5, "function", w) >>

Handmade ==
    {Build(Class(w), Named) : w \in {0, 1, 2, 4}}
        \cup {Invert(Build(Class(1), Named), n) : n \in {2, 4, 5}}

MCCollectTrees == Generated \cup Handmade
=============================================================================
