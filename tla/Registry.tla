------------------------------- MODULE Registry -------------------------------
(***************************************************************************)
(* NewChunker of chunker.go: it checks the configs and the sizes, claims   *)
(* the file extensions, and builds the tables of node kinds and edge rules *)
(* by language name, for the configs passed and for those that their       *)
(* injection rules name.  A name that has its tables already keeps them.   *)
(***************************************************************************)
EXTENDS Integers, Sequences

CONSTANTS
    Configs,    \* the LanguageConfigs, those of injection rules included
    Name,       \* Name[c]
    Extensions, \* Extensions[c]: a sequence, as the config spells them
    ToLower,    \* ToLower[e]: strings.ToLower of the spelling e
    HasGrammar, \* HasGrammar[c]: Grammar is not nil
    Tables,     \* Tables[c]: what NodeKinds and Edges of c say
    Injected,   \* Injected[c]: for each injection rule of c, the configs of Grammars
    Calls       \* the arguments: records of langs, max and min

\* The types, and nothing else: configs of one name may differ in all the rest.
ASSUME RegistryAssumption ==
    /\ \A c \in Configs : Extensions[c] \in Seq(DOMAIN ToLower)
    /\ \A c \in Calls : c.langs \in Seq(Configs) /\ c.max \in Int /\ c.min \in Int
    /\ \A c \in Configs : Injected[c] \in Seq(SUBSET Configs)

VARIABLES
    langs, max, min,   \* the parameters
    i, x,              \* the config and the extension looked at
    byExt,             \* a function from extensions to configs
    kindMap,           \* a function from names to tables; edgeMap goes along with it
    pending,           \* the loops of buildKindSets, innermost first: the configs
                       \*    that each has still to come to
    np,                \* "sizes", "claim", "build" or "returned"
    err                \* the error returned, or "none"

args == <<langs, max, min>>
vars == <<args, i, x, byExt, kindMap, pending, np, err>>

lang == langs[i]

\* Mutant: the key is the extension as it is spelled.
AsSpelled == Extensions[lang][x]

ext == ToLower[Extensions[lang][x]]

Fail(e) ==
    /\ err' = e
    /\ np' = "returned"
    /\ UNCHANGED <<args, i, x, byExt, kindMap, pending>>

Extend(f, k, v) == [y \in DOMAIN f \cup {k} |-> IF y = k THEN v ELSE f[y]]

-----------------------------------------------------------------------------
NoLanguages  == np = "sizes" /\ langs = << >> /\ Fail("langs must not be empty")

SizeNotPositive ==
    /\ np = "sizes" /\ langs # << >>
    /\ max <= 0 \/ min <= 0
    /\ Fail("size must be positive")

SizesFine ==
    /\ np = "sizes" /\ langs # << >>
    /\ max > 0 /\ min > 0
    /\ np' = "claim"
    /\ UNCHANGED <<args, i, x, byExt, kindMap, pending, err>>

NilGrammar ==
    /\ np = "claim" /\ i <= Len(langs) /\ x = 1
    /\ ~ HasGrammar[lang]
    /\ Fail("nil Grammar")

Claiming ==
    np = "claim" /\ i <= Len(langs) /\ HasGrammar[lang] /\ x <= Len(Extensions[lang])

Claim ==
    /\ Claiming
    /\ ext \notin DOMAIN byExt
    /\ byExt' = Extend(byExt, ext, lang)
    /\ x' = x + 1
    /\ UNCHANGED <<args, i, kindMap, pending, np, err>>

ClaimedByBoth == Claiming /\ ext \in DOMAIN byExt /\ Fail("extension claimed by both")

NextLanguage ==
    /\ np = "claim" /\ i <= Len(langs)
    /\ HasGrammar[lang] /\ x > Len(Extensions[lang])
    /\ i' = i + 1
    /\ x' = 1
    /\ UNCHANGED <<args, byExt, kindMap, pending, np, err>>

Claimed ==
    /\ np = "claim" /\ i > Len(langs)
    /\ i' = 1
    /\ np' = "build"
    /\ UNCHANGED <<args, x, byExt, kindMap, pending, err>>

-----------------------------------------------------------------------------
\* buildKindSets(lang) for the next of langs.
BuildLanguage ==
    /\ np = "build" /\ pending = << >> /\ i <= Len(langs)
    /\ pending' = << {lang} >>
    /\ i' = i + 1
    /\ UNCHANGED <<args, x, byExt, kindMap, np, err>>

\* Go ranges over a map in any order.
Building(c) == np = "build" /\ pending # << >> /\ c \in Head(pending)

AlreadyBuilt ==
    \E c \in Configs :
        /\ Building(c)
        /\ Name[c] \in DOMAIN kindMap
        /\ pending' = << Head(pending) \ {c} >> \o Tail(pending)
        /\ UNCHANGED <<args, i, x, byExt, kindMap, np, err>>

\* Mutant: the injected configs are left out.
BuildWithoutInjected ==
    \E c \in Configs :
        /\ Building(c) /\ Name[c] \notin DOMAIN kindMap
        /\ kindMap' = Extend(kindMap, Name[c], Tables[c])
        /\ pending' = << Head(pending) \ {c} >> \o Tail(pending)
        /\ UNCHANGED <<args, i, x, byExt, np, err>>

\* The tables of a config, and then those of each injection rule of it.
Build ==
    \E c \in Configs :
        /\ Building(c)
        /\ Name[c] \notin DOMAIN kindMap
        /\ kindMap' = Extend(kindMap, Name[c], Tables[c])
        /\ pending' = Injected[c] \o << Head(pending) \ {c} >> \o Tail(pending)
        /\ UNCHANGED <<args, i, x, byExt, np, err>>

LoopDone ==
    /\ np = "build" /\ pending # << >> /\ Head(pending) = {}
    /\ pending' = Tail(pending)
    /\ UNCHANGED <<args, i, x, byExt, kindMap, np, err>>

Built ==
    /\ np = "build" /\ pending = << >> /\ i > Len(langs)
    /\ np' = "returned"
    /\ UNCHANGED <<args, i, x, byExt, kindMap, pending, err>>

Next ==
    \/ NoLanguages \/ SizeNotPositive \/ SizesFine
    \/ NilGrammar \/ Claim \/ ClaimedByBoth \/ NextLanguage \/ Claimed
    \/ BuildLanguage \/ AlreadyBuilt \/ Build \/ LoopDone \/ Built

-----------------------------------------------------------------------------
Init ==
    /\ \E c \in Calls : langs = c.langs /\ max = c.max /\ min = c.min
    /\ i = 1 /\ x = 1
    /\ byExt = << >>
    /\ kindMap = << >>
    /\ pending = << >>
    /\ np = "sizes"
    /\ err = "none"

\* NewChunker runs in one goroutine: it keeps running.
Spec == Init /\ [][Next]_vars /\ WF_vars(Next)

-----------------------------------------------------------------------------
Passed == {langs[m] : m \in 1..Len(langs)}

InjectedBy(c) == UNION {Injected[c][m] : m \in 1..Len(Injected[c])}

\* The configs that injection rules lead to from S, S included: the least set
\* that has S and, of each of its configs, the injected ones.
Reachable(S) ==
    {c \in Configs :
        \A T \in SUBSET Configs :
            S \subseteq T /\ (\A d \in T : InjectedBy(d) \subseteq T) => c \in T}

\* The documented errors, and no others: no configs, a size that is not positive,
\* a nil Grammar, or an extension that occurs twice, whatever the case of its letters.
Claims == UNION {{m} \X DOMAIN Extensions[langs[m]] : m \in 1..Len(langs)}

Key(a) == ToLower[Extensions[langs[a[1]]][a[2]]]

Acceptable ==
    /\ langs # << >> /\ max > 0 /\ min > 0
    /\ \A c \in Passed : HasGrammar[c]
    /\ \A a, b \in Claims : a # b => Key(a) # Key(b)

AcceptedIffAcceptable == np = "returned" => (err = "none" <=> Acceptable)

Tabled(c) == Name[c] \in DOMAIN kindMap

\* What the tables of a name are: those of one reachable config, and what that
\* config injects has tables as well.
TablesFrom(n, d) ==
    /\ Name[d] = n
    /\ kindMap[n] = Tables[d]
    /\ \A g \in InjectedBy(d) : Tabled(g)

\* Reachable configs of one name inject the same configs.  NewChunker does not
\* check it: of the second one it does not look at the rules.
NamesakesAlike ==
    \A c, d \in Reachable(Passed) : Name[c] = Name[d] => InjectedBy(c) = InjectedBy(d)

\* A Chunker finds the config that claimed an extension.  The configs passed have
\* tables; every table is that of a config that can be reached, of the same name,
\* and never without the tables of the languages that this config injects.  So if
\* namesakes inject alike, every language that can be parsed has its tables.
ReadyToChunk ==
    np = "returned" /\ err = "none" =>
        /\ \A a \in Claims : byExt[Key(a)] = langs[a[1]]
        /\ \A c \in Passed : Tabled(c)
        /\ \A n \in DOMAIN kindMap : \E d \in Reachable(Passed) : TablesFrom(n, d)
        /\ NamesakesAlike => \A c \in Reachable(Passed) : Tabled(c)

\* "so the chunker descends into exported declarations and produces ... chunks
\* with resolvable names": an injected config is walked with its own tables.
InjectedWithOwnTables ==
    np = "returned" /\ err = "none" =>
        \A c \in Passed : \A g \in InjectedBy(c) : Tabled(g) => kindMap[Name[g]] = Tables[g]
=============================================================================
