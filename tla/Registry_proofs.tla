---------------------------- MODULE Registry_proofs ----------------------------
(***************************************************************************)
(* For any number of configs and extensions, NewChunker refuses exactly    *)
(* what its documentation says it refuses.                                 *)
(***************************************************************************)
EXTENDS Registry, TLAPS

Exts(m) == Extensions[langs[m]]

KeyAt(m, p) == ToLower[Extensions[langs[m]][p]]

\* The two loops have come past extension p of config m.
Past(m, p) == m < i \/ (m = i /\ p < x)

ArgsOK == langs \in Seq(Configs) /\ max \in Int /\ min \in Int

SizesPositive == langs # << >> /\ max > 0 /\ min > 0

\* Where the loops are.
Position ==
    /\ i \in 1..Len(langs) + 1
    /\ x \in Nat \ {0}
    /\ i <= Len(langs) => x <= Len(Exts(i)) + 1
    /\ i > Len(langs) => x = 1
    /\ i <= Len(langs) /\ x > 1 => HasGrammar[langs[i]]
    /\ \A m \in 1..i - 1 : HasGrammar[langs[m]]

\* byExt has the extensions past and no others, each of them once.
Recorded ==
    /\ \A m \in 1..Len(langs) : \A p \in 1..Len(Exts(m)) :
          Past(m, p) => KeyAt(m, p) \in DOMAIN byExt
    /\ \A k \in DOMAIN byExt : \E m \in 1..Len(langs) : \E p \in 1..Len(Exts(m)) :
          Past(m, p) /\ KeyAt(m, p) = k

Once ==
    \A m, n \in 1..Len(langs) : \A p \in 1..Len(Exts(m)), q \in 1..Len(Exts(n)) :
        Past(m, p) /\ Past(n, q) /\ KeyAt(m, p) = KeyAt(n, q) => m = n /\ p = q

IInv ==
    /\ ArgsOK
    /\ np \in {"sizes", "claim", "build", "returned"}
    /\ np = "sizes" => i = 1 /\ x = 1 /\ DOMAIN byExt = {}
    /\ np = "claim" => SizesPositive /\ Position /\ Recorded /\ Once
    /\ np = "build" => Acceptable
    /\ np # "returned" => err = "none"
    /\ AcceptedIffAcceptable

-----------------------------------------------------------------------------
\* Acceptable without pairs: sizes, grammars, and extensions that occur once.
AllGrammars == \A m \in 1..Len(langs) : HasGrammar[langs[m]]

AllOnce ==
    \A m, n \in 1..Len(langs) : \A p \in 1..Len(Exts(m)), q \in 1..Len(Exts(n)) :
        KeyAt(m, p) = KeyAt(n, q) => m = n /\ p = q

LEMMA ClaimPairs ==
    ASSUME ArgsOK
    PROVE  /\ \A m \in 1..Len(langs) : \A p \in 1..Len(Exts(m)) : <<m, p>> \in Claims
           /\ \A a \in Claims : \E m \in 1..Len(langs) : \E p \in 1..Len(Exts(m)) : a = <<m, p>>
  <1>1. \A m \in 1..Len(langs) : DOMAIN Extensions[langs[m]] = 1..Len(Exts(m))
    BY RegistryAssumption DEF ArgsOK, Exts, KeyAt
  <1>2. \A a : a \in Claims <=>
                  \E m \in 1..Len(langs) : a \in {m} \X (1..Len(Exts(m)))
    BY <1>1 DEF Claims
  <1> QED
    BY <1>2

LEMMA AcceptableSpelled ==
    ASSUME ArgsOK
    PROVE  Acceptable <=> SizesPositive /\ AllGrammars /\ AllOnce
  <1>1. (\A c \in Passed : HasGrammar[c]) <=> AllGrammars
    BY DEF Passed, AllGrammars
  <1>2. (\A a, b \in Claims :
            a # b => Key(a) # Key(b))
          <=> AllOnce
    <2>1. ASSUME \A a, b \in Claims :
                    a # b => Key(a) # Key(b),
                 NEW m \in 1..Len(langs), NEW n \in 1..Len(langs),
                 NEW p \in 1..Len(Exts(m)), NEW q \in 1..Len(Exts(n)),
                 KeyAt(m, p) = KeyAt(n, q)
          PROVE  m = n /\ p = q
      <3>1. <<m, p>> \in Claims /\ <<n, q>> \in Claims
        BY ClaimPairs
      <3>2. <<m, p>> = <<n, q>>
        BY <2>1, <3>1 DEF KeyAt, Key
      <3> QED
        BY <3>2
    <2>2. ASSUME AllOnce, NEW a \in Claims, NEW b \in Claims, a # b
          PROVE  Key(a) # Key(b)
      <3>1. PICK m \in 1..Len(langs) : \E p \in 1..Len(Exts(m)) : a = <<m, p>>
        BY ClaimPairs
      <3>2. PICK p \in 1..Len(Exts(m)) : a = <<m, p>>
        BY <3>1
      <3>3. PICK n \in 1..Len(langs) : \E q \in 1..Len(Exts(n)) : b = <<n, q>>
        BY ClaimPairs
      <3>4. PICK q \in 1..Len(Exts(n)) : b = <<n, q>>
        BY <3>3
      <3>5. KeyAt(m, p) # KeyAt(n, q)
        BY <2>2, <3>2, <3>4 DEF AllOnce
      <3> QED
        BY <3>2, <3>4, <3>5 DEF KeyAt, Key
    <2> QED
      BY <2>1, <2>2 DEF AllOnce
  <1> QED
    BY <1>1, <1>2 DEF Acceptable, SizesPositive

-----------------------------------------------------------------------------
LEMMA Initially == Init => IInv
  <1> SUFFICES ASSUME Init PROVE IInv
    OBVIOUS
  <1>1. ArgsOK
    BY RegistryAssumption DEF Init, ArgsOK
  <1> QED
    BY <1>1 DEF Init, IInv, AcceptedIffAcceptable

\* A config that has no grammar, and an extension that is recorded already, are
\* what makes the arguments unacceptable.
LEMMA Refused ==
    ASSUME ArgsOK, Position, Recorded, i <= Len(langs),
           \/ ~ HasGrammar[lang]
           \/ x <= Len(Exts(i)) /\ ext \in DOMAIN byExt
    PROVE  ~ Acceptable
  <1>1. CASE ~ HasGrammar[lang]
    BY <1>1, AcceptableSpelled DEF Position, AllGrammars, lang
  <1>2. CASE x <= Len(Exts(i)) /\ ext \in DOMAIN byExt
    <2>a. PICK m \in 1..Len(langs) : \E p \in 1..Len(Exts(m)) : Past(m, p) /\ KeyAt(m, p) = ext
      BY <1>2 DEF Recorded
    <2>1. PICK p \in 1..Len(Exts(m)) : Past(m, p) /\ KeyAt(m, p) = ext
      BY <2>a
    <2>2. i \in 1..Len(langs) /\ x \in 1..Len(Exts(i)) /\ ext = KeyAt(i, x)
      BY <1>2 DEF Position, ext, lang, Exts, KeyAt
    <2>3. ~ (m = i /\ p = x)
      BY <2>1 DEF Past, Position
    <2>4. ~ AllOnce
      BY <2>1, <2>2, <2>3 DEF AllOnce
    <2> QED
      BY <2>4, AcceptableSpelled
  <1> QED
    BY <1>1, <1>2

LEMMA Step == IInv /\ [Next]_vars => IInv'
  <1> SUFFICES ASSUME IInv, [Next]_vars PROVE IInv'
    OBVIOUS
  <1>0. ArgsOK
    BY DEF IInv
  <1> USE <1>0
  <1>1. args' = args
    BY DEF Next, NoLanguages, SizeNotPositive, SizesFine, NilGrammar, Claim, ClaimedByBoth,
           NextLanguage, Claimed, BuildLanguage, AlreadyBuilt, Build, LoopDone, Built, Fail, vars
  <1>2. ArgsOK' /\ langs' = langs /\ (Acceptable' <=> Acceptable) /\ (SizesPositive' <=> SizesPositive)
    BY <1>1 DEF args, ArgsOK, Acceptable, SizesPositive, Passed, Claims, Key
  <1>a. ASSUME NEW e \in {"langs must not be empty", "size must be positive", "nil Grammar",
                          "extension claimed by both"},
               Fail(e), ~ Acceptable
        PROVE  IInv'
    BY <1>a, <1>2 DEF Fail, IInv, AcceptedIffAcceptable
  <1>3. CASE NoLanguages
    BY <1>3, <1>a, AcceptableSpelled DEF NoLanguages, SizesPositive
  <1>4. CASE SizeNotPositive
    <2>a. max <= 0 \/ min <= 0
      BY <1>4 DEF SizeNotPositive
    <2>b. max \in Int /\ min \in Int
      BY DEF ArgsOK
    <2>1. ~ SizesPositive
      BY <2>a, <2>b DEF SizesPositive
    <2>2. ~ Acceptable
      BY <2>1, AcceptableSpelled
    <2> QED
      BY <1>4, <1>a, <2>2 DEF SizeNotPositive
  <1>5. CASE SizesFine
    <2>1. i' = 1 /\ x' = 1 /\ DOMAIN byExt' = {} /\ np' = "claim" /\ err' = "none" /\ SizesPositive
      BY <1>5 DEF SizesFine, IInv, SizesPositive
    <2>2. Position'
      BY <1>2, <2>1, RegistryAssumption DEF Position, ArgsOK, Exts, KeyAt
    <2>3. Recorded' /\ Once'
      BY <1>2, <2>1 DEF Recorded, Once, Past
    <2> QED
      BY <1>2, <2>1, <2>2, <2>3 DEF IInv, AcceptedIffAcceptable
  <1>6. CASE NilGrammar
    BY <1>6, <1>a, Refused DEF NilGrammar, IInv
  <1>7. CASE Claim
    <2>1. /\ np = "claim" /\ i <= Len(langs) /\ HasGrammar[lang] /\ x <= Len(Exts(i))
          /\ ext \notin DOMAIN byExt
          /\ DOMAIN byExt' = DOMAIN byExt \cup {ext}
          /\ i' = i /\ x' = x + 1 /\ np' = np /\ err' = err
      BY <1>7 DEF Claim, Claiming, Extend, Exts, KeyAt, lang
    <2>2. Position /\ Recorded /\ Once /\ SizesPositive
      BY <2>1 DEF IInv
    <2>3. i \in 1..Len(langs) /\ x \in 1..Len(Exts(i)) /\ ext = KeyAt(i, x)
      BY <2>1, <2>2 DEF Position, ext, lang, Exts, KeyAt
    <2>4. ASSUME NEW m \in 1..Len(langs), NEW p \in 1..Len(Exts(m))
          PROVE  Past(m, p)' <=> Past(m, p) \/ (m = i /\ p = x)
      BY <2>1, <2>3 DEF Past
    <2>5. Position'
      BY <1>2, <2>1, <2>2, <2>3 DEF Position, lang, Exts, KeyAt
    <2>6. Recorded'
      BY <1>2, <2>1, <2>2, <2>3, <2>4 DEF Recorded, Exts, KeyAt
    <2>7. Once'
      BY <1>2, <2>1, <2>2, <2>3, <2>4 DEF Once, Recorded, Exts, KeyAt
    <2> QED
      BY <1>2, <2>1, <2>2, <2>5, <2>6, <2>7 DEF IInv, AcceptedIffAcceptable
  <1>8. CASE ClaimedByBoth
    BY <1>8, <1>a, Refused DEF ClaimedByBoth, Claiming, IInv, lang, Exts, KeyAt
  <1>9. CASE NextLanguage
    <2>1. /\ np = "claim" /\ i <= Len(langs) /\ HasGrammar[langs[i]] /\ x > Len(Exts(i))
          /\ i' = i + 1 /\ x' = 1 /\ byExt' = byExt /\ np' = np /\ err' = err
      BY <1>9 DEF NextLanguage, Exts, KeyAt, lang
    <2>2. Position /\ Recorded /\ Once /\ SizesPositive
      BY <2>1 DEF IInv
    <2>3. ASSUME NEW m \in 1..Len(langs), NEW p \in 1..Len(Exts(m))
          PROVE  Past(m, p)' <=> Past(m, p)
      BY <2>1, <2>2 DEF Past, Position
    <2>4. Position'
      BY <1>2, <2>1, <2>2, RegistryAssumption DEF Position, Exts, KeyAt, ArgsOK
    <2>5. Recorded' /\ Once'
      BY <1>2, <2>1, <2>2, <2>3 DEF Recorded, Once, Exts, KeyAt
    <2> QED
      BY <1>2, <2>1, <2>2, <2>4, <2>5 DEF IInv, AcceptedIffAcceptable
  <1>10. CASE Claimed
    <2>1. np = "claim" /\ i > Len(langs) /\ np' = "build" /\ err' = err
      BY <1>10 DEF Claimed
    <2>2. Position /\ Once /\ SizesPositive
      BY <2>1 DEF IInv
    <2>3. i = Len(langs) + 1
      BY <2>1, <2>2 DEF Position, ArgsOK
    <2>4. AllGrammars
      BY <2>2, <2>3 DEF Position, AllGrammars, ArgsOK
    <2>5. AllOnce
      BY <2>2, <2>3 DEF Once, AllOnce, Past, ArgsOK
    <2>6. Acceptable
      BY <2>2, <2>4, <2>5, AcceptableSpelled
    <2> QED
      BY <1>2, <2>1, <2>6 DEF IInv, AcceptedIffAcceptable
  <1>11. CASE BuildLanguage \/ AlreadyBuilt \/ Build \/ LoopDone \/ Built
    <2>1. np = "build" /\ np' \in {"build", "returned"} /\ err' = err
      BY <1>11 DEF BuildLanguage, AlreadyBuilt, Build, LoopDone, Built, Building
    <2> QED
      BY <1>2, <2>1 DEF IInv, AcceptedIffAcceptable
  <1>12. CASE UNCHANGED vars
    <2>1. <<i, x, byExt, np, err>>' = <<i, x, byExt, np, err>>
      BY <1>12 DEF vars
    <2> QED
      BY <1>1, <1>2, <2>1 DEF IInv, AcceptedIffAcceptable, Position, Recorded, Once, Past, Exts, KeyAt
  <1> QED
    BY <1>3, <1>4, <1>5, <1>6, <1>7, <1>8, <1>9, <1>10, <1>11, <1>12 DEF Next

THEOREM Invariance == Spec => []IInv
  BY Initially, Step, PTL DEF Spec

\* NewChunker returns an error exactly for no configs, a size that is not
\* positive, a nil Grammar, or an extension that occurs twice, in whatever order
\* and number configs and extensions come.
THEOREM AcceptedExactly == Spec => []AcceptedIffAcceptable
  <1>1. IInv => AcceptedIffAcceptable
    BY DEF IInv
  <1> QED
    BY <1>1, Invariance, PTL

-----------------------------------------------------------------------------
(***************************************************************************)
(* The tables.  While they are built, every config passed that was come to *)
(* has tables or is waited for by one of the loops that buildKindSets is   *)
(* in, and so is all that the config injects whose tables a name has.      *)
(***************************************************************************)
Reach == Reachable(Passed)

Awaited(c) == \E j \in 1..Len(pending) : c \in pending[j]

\* The extensions come past belong to the configs that claimed them.
OwnExtensions ==
    \A m \in 1..Len(langs) : \A p \in 1..Len(Exts(m)) :
        Past(m, p) => byExt[KeyAt(m, p)] = langs[m]

AllOwn == \A m \in 1..Len(langs) : \A p \in 1..Len(Exts(m)) : byExt[KeyAt(m, p)] = langs[m]

LangsMet == \A m \in 1..i - 1 : Tabled(langs[m]) \/ Awaited(langs[m])

\* The tables of n are those of d, and what d injects has its own or is waited for.
Made(n, d) ==
    /\ Name[d] = n
    /\ kindMap[n] = Tables[d]
    /\ \A g \in InjectedBy(d) : Tabled(g) \/ Awaited(g)

TablesMade == \A n \in DOMAIN kindMap : \E d \in Reach : Made(n, d)

BuildInv ==
    /\ np \in {"sizes", "claim"} => pending = << >> /\ DOMAIN kindMap = {}
    /\ np = "claim" => OwnExtensions
    /\ np = "build" =>
          /\ pending \in Seq(SUBSET Reach)
          /\ i \in 1..Len(langs) + 1
          /\ AllOwn /\ LangsMet /\ TablesMade
    /\ ReadyToChunk

\* What can be reached contains what is passed and is closed under injection.
LEMMA ReachClosed ==
    ASSUME ArgsOK
    PROVE  /\ Passed \subseteq Reach
           /\ Reach \subseteq Configs
           /\ \A d \in Reach : InjectedBy(d) \subseteq Reach /\ Injected[d] \in Seq(SUBSET Reach)
  <1>1. Reach \subseteq Configs
    BY DEF Reach, Reachable
  <1>2. Passed \subseteq Reach
    <2>1. Passed \subseteq Configs
      BY DEF Passed, ArgsOK
    <2> QED
      BY <2>1 DEF Reach, Reachable
  <1>3. ASSUME NEW d \in Reach
        PROVE  InjectedBy(d) \subseteq Reach /\ Injected[d] \in Seq(SUBSET Reach)
    <2>1. Injected[d] \in Seq(SUBSET Configs)
      BY <1>1, RegistryAssumption
    <2>2. InjectedBy(d) \subseteq Configs
      BY <2>1 DEF InjectedBy
    <2>3. InjectedBy(d) \subseteq Reach
      BY <2>2 DEF Reach, Reachable
    <2>4. \A m \in 1..Len(Injected[d]) : Injected[d][m] \in SUBSET Reach
      BY <2>3 DEF InjectedBy
    <2>5. Injected[d] \in Seq(SUBSET Reach)
      BY <2>1, <2>4
    <2> QED
      BY <2>3, <2>5
  <1> QED
    BY <1>1, <1>2, <1>3

LEMMA Joined ==
    ASSUME NEW S, NEW s \in Seq(S), NEW r \in Seq(S), NEW t, t = s \o r
    PROVE  /\ t \in Seq(S) /\ Len(t) = Len(s) + Len(r)
           /\ \A j \in 1..Len(s) : t[j] = s[j]
           /\ \A j \in 1..Len(r) : t[Len(s) + j] = r[j]
  OBVIOUS

\* What a loop still waits for after one of its configs c is dealt with, with the
\* loops s of that config in front.
LEMMA Waiting ==
    ASSUME NEW S, pending \in Seq(SUBSET S), pending # << >>,
           NEW c, NEW s \in Seq(SUBSET S),
           pending' = s \o << Head(pending) \ {c} >> \o Tail(pending)
    PROVE  /\ pending' \in Seq(SUBSET S)
           /\ \A d : Awaited(d) => d = c \/ Awaited(d)'
           /\ \A j \in 1..Len(s) : \A d \in s[j] : Awaited(d)'
  <1> DEFINE h == Head(pending) \ {c}
             t == Tail(pending)
             r == << h >> \o t
  <1>1. h \in SUBSET S /\ t \in Seq(SUBSET S) /\ Head(pending) = pending[1]
    OBVIOUS
  <1>2. Len(pending) \in Nat \ {0} /\ Len(t) = Len(pending) - 1 /\ Len(s) \in Nat
    OBVIOUS
  <1>3. \A j \in 1..Len(t) : t[j] = pending[j + 1]
    OBVIOUS
  <1> HIDE DEF h, t
  <1>4. /\ r \in Seq(SUBSET S) /\ Len(r) = Len(t) + 1 /\ r[1] = h
        /\ \A j \in 1..Len(t) : r[j + 1] = t[j]
    BY <1>1, <1>2
  <1>5. pending' = s \o r
    <2>1. (s \o << h >>) \o t = s \o (<< h >> \o t)
      BY <1>1
    <2> QED
      BY <2>1 DEF h, t
  <1> HIDE DEF r
  <1>6. /\ pending' \in Seq(SUBSET S) /\ Len(pending') = Len(s) + Len(r)
        /\ \A j \in 1..Len(s) : pending'[j] = s[j]
        /\ \A j \in 1..Len(r) : pending'[Len(s) + j] = r[j]
    BY ONLY <1>4, <1>5, s \in Seq(SUBSET S), Joined
  <1>7. ASSUME NEW d, Awaited(d), d # c
        PROVE  Awaited(d)'
    <2>1. PICK j \in 1..Len(pending) : d \in pending[j]
      BY <1>7 DEF Awaited
    <2>2. CASE j = 1
      <3>1. d \in r[1] /\ 1 \in 1..Len(r)
        BY <1>1, <1>2, <1>4, <1>7, <2>1, <2>2 DEF h
      <3>2. d \in pending'[Len(s) + 1] /\ Len(s) + 1 \in 1..Len(pending')
        BY <1>2, <1>4, <1>6, <3>1
      <3> QED
        BY <3>2 DEF Awaited
    <2>3. CASE j # 1
      <3>1. j - 1 \in 1..Len(t) /\ t[j - 1] = pending[j]
        BY <1>2, <1>3, <2>1, <2>3
      <3>2. j \in 1..Len(r) /\ r[j] = pending[j]
        BY <1>2, <1>4, <2>1, <3>1
      <3>3. d \in pending'[Len(s) + j] /\ Len(s) + j \in 1..Len(pending')
        BY <1>2, <1>4, <1>6, <2>1, <3>2
      <3> QED
        BY <3>3 DEF Awaited
    <2> QED
      BY <2>2, <2>3
  <1>8. ASSUME NEW j \in 1..Len(s), NEW d \in s[j]
        PROVE  Awaited(d)'
    <2>1. j \in 1..Len(pending') /\ d \in pending'[j]
      BY <1>2, <1>4, <1>6, <1>8
    <2> QED
      BY <2>1 DEF Awaited
  <1> QED
    BY <1>6, <1>7, <1>8

LEMMA BuildInitially == Init => BuildInv
  BY DEF Init, BuildInv, ReadyToChunk

\* Where namesakes inject alike, whose tables those of a name are makes no
\* difference to what has tables.
LEMMA AllReached ==
    ASSUME ArgsOK, NamesakesAlike,
           \A c \in Passed : Tabled(c),
           \A n \in DOMAIN kindMap : \E d \in Reach : TablesFrom(n, d)
    PROVE  \A c \in Reach : Tabled(c)
  <1> DEFINE T == {c \in Reach : Tabled(c)}
  <1>1. Passed \subseteq T /\ T \in SUBSET Configs
    BY ReachClosed
  <1>2. ASSUME NEW c \in T, NEW g \in InjectedBy(c) PROVE g \in T
    <2>1. PICK d \in Reach : TablesFrom(Name[c], d)
      BY DEF Tabled
    <2>2. InjectedBy(c) = InjectedBy(d)
      BY <2>1 DEF TablesFrom, NamesakesAlike, Reach
    <2>3. Tabled(g)
      BY <2>1, <2>2 DEF TablesFrom
    <2> QED
      BY <2>3, ReachClosed
  <1>3. \A c \in Reach : c \in T
    BY <1>1, <1>2 DEF Reach, Reachable
  <1> QED
    BY <1>3

\* Tables stay.
LEMMA TablesStay ==
    ASSUME NEW c, DOMAIN kindMap \subseteq DOMAIN kindMap', Tabled(c)
    PROVE  Tabled(c)'
  BY DEF Tabled

LEMMA BuildStep == IInv /\ BuildInv /\ [Next]_vars => BuildInv'
  <1> SUFFICES ASSUME IInv, BuildInv, [Next]_vars PROVE BuildInv'
    OBVIOUS
  <1>0. ArgsOK
    BY DEF IInv
  <1>1. args' = args
    BY DEF Next, NoLanguages, SizeNotPositive, SizesFine, NilGrammar, Claim, ClaimedByBoth,
           NextLanguage, Claimed, BuildLanguage, AlreadyBuilt, Build, LoopDone, Built, Fail, vars
  <1>2. langs' = langs /\ Passed' = Passed /\ Claims' = Claims
    BY <1>1 DEF args, Passed, Claims
  <1>r. Reach' = Reach /\ (NamesakesAlike' <=> NamesakesAlike)
    BY <1>2 DEF Reach, Reachable, NamesakesAlike
  <1>a. ASSUME NEW e \in {"langs must not be empty", "size must be positive", "nil Grammar",
                          "extension claimed by both"},
               Fail(e)
        PROVE  BuildInv'
    BY <1>a DEF Fail, BuildInv, ReadyToChunk
  <1>3. CASE NoLanguages \/ SizeNotPositive \/ NilGrammar \/ ClaimedByBoth
    BY <1>3, <1>a DEF NoLanguages, SizeNotPositive, NilGrammar, ClaimedByBoth
  <1>4. CASE SizesFine
    <2>1. /\ np = "sizes" /\ np' = "claim" /\ i = 1 /\ x = 1
          /\ UNCHANGED <<i, x, byExt, kindMap, pending>>
      BY <1>4 DEF SizesFine, IInv
    <2>2. OwnExtensions'
      BY <1>2, <2>1 DEF OwnExtensions, Past
    <2> QED
      BY <2>1, <2>2 DEF BuildInv, ReadyToChunk
  <1>5. CASE Claim
    <2>1. /\ np = "claim" /\ i <= Len(langs) /\ x <= Len(Exts(i))
          /\ ext \notin DOMAIN byExt
          /\ byExt' = Extend(byExt, ext, lang)
          /\ i' = i /\ x' = x + 1 /\ np' = np
          /\ UNCHANGED <<kindMap, pending>>
      BY <1>5 DEF Claim, Claiming, Exts, KeyAt, lang
    <2>2. Position /\ Recorded /\ OwnExtensions
      BY <2>1 DEF IInv, BuildInv
    <2>3. i \in 1..Len(langs) /\ x \in 1..Len(Exts(i)) /\ ext = KeyAt(i, x) /\ lang = langs[i]
      BY <2>1, <2>2 DEF Position, ext, lang, Exts, KeyAt
    <2>4. OwnExtensions'
      <3> SUFFICES ASSUME NEW m \in 1..Len(langs), NEW p \in 1..Len(Exts(m)), Past(m, p)'
                   PROVE  byExt'[KeyAt(m, p)] = langs[m]
        BY <1>2 DEF OwnExtensions, Exts, KeyAt
      <3>1. Past(m, p) \/ (m = i /\ p = x)
        BY <2>1, <2>3 DEF Past
      <3>2. CASE Past(m, p)
        <4>1. KeyAt(m, p) \in DOMAIN byExt /\ byExt[KeyAt(m, p)] = langs[m]
          BY <2>2, <3>2 DEF Recorded, OwnExtensions
        <4>2. KeyAt(m, p) # ext
          BY <2>1, <4>1
        <4> QED
          BY <2>1, <4>1, <4>2 DEF Extend
      <3>3. CASE m = i /\ p = x
        BY <2>1, <2>3, <3>3 DEF Extend
      <3> QED
        BY <3>1, <3>2, <3>3
    <2> QED
      BY <2>1, <2>4 DEF BuildInv, ReadyToChunk
  <1>6. CASE NextLanguage
    <2>1. /\ np = "claim" /\ i <= Len(langs) /\ x > Len(Exts(i))
          /\ i' = i + 1 /\ x' = 1 /\ np' = np
          /\ UNCHANGED <<byExt, kindMap, pending>>
      BY <1>6 DEF NextLanguage, Exts, KeyAt, lang
    <2>2. Position /\ OwnExtensions
      BY <2>1 DEF IInv, BuildInv
    <2>3. ASSUME NEW m \in 1..Len(langs), NEW p \in 1..Len(Exts(m))
          PROVE  Past(m, p)' <=> Past(m, p)
      BY <2>1, <2>2 DEF Past, Position
    <2>4. OwnExtensions'
      BY <1>2, <2>1, <2>2, <2>3 DEF OwnExtensions, Exts, KeyAt
    <2> QED
      BY <2>1, <2>4 DEF BuildInv, ReadyToChunk
  <1>7. CASE Claimed
    <2>1. /\ np = "claim" /\ i > Len(langs) /\ i' = 1 /\ np' = "build"
          /\ UNCHANGED <<byExt, kindMap, pending>>
      BY <1>7 DEF Claimed
    <2>2. Position /\ OwnExtensions /\ pending = << >> /\ DOMAIN kindMap = {}
      BY <2>1 DEF IInv, BuildInv
    <2>3. Len(langs) \in Nat
      BY <1>0 DEF ArgsOK
    <2>4. AllOwn'
      <3>1. \A m \in 1..Len(langs) : m < i
        BY <2>1, <2>2, <2>3 DEF Position
      <3>2. \A m \in 1..Len(langs) : \A p \in 1..Len(Exts(m)) : Past(m, p)
        BY <3>1 DEF Past
      <3> QED
        BY <1>2, <2>1, <2>2, <3>2 DEF OwnExtensions, AllOwn, Exts, KeyAt
    <2>5. pending' \in Seq(SUBSET Reach) /\ i' \in 1..Len(langs') + 1
      BY <1>2, <1>r, <2>1, <2>2, <2>3
    <2>6. LangsMet' /\ TablesMade'
      BY <2>1, <2>2 DEF LangsMet, TablesMade, Tabled
    <2> QED
      BY <2>1, <2>4, <2>5, <2>6 DEF BuildInv, ReadyToChunk
  <1>8. CASE BuildLanguage
    <2>1. /\ np = "build" /\ np' = "build" /\ pending = << >> /\ i <= Len(langs)
          /\ pending' = << {lang} >> /\ i' = i + 1
          /\ UNCHANGED <<byExt, kindMap>>
      BY <1>8 DEF BuildLanguage
    <2>2. i \in 1..Len(langs) + 1 /\ AllOwn /\ LangsMet /\ TablesMade
      BY <2>1 DEF BuildInv
    <2>3. Len(langs) \in Nat /\ i \in 1..Len(langs) /\ lang = langs[i] /\ lang \in Reach
      BY <1>0, <2>1, <2>2, ReachClosed DEF ArgsOK, lang, Passed
    <2>4. pending' \in Seq(SUBSET Reach)
      BY <1>r, <2>1, <2>3
    <2>5. \A c : ~ Awaited(c)
      BY <2>1 DEF Awaited
    <2>6. \A c : c = lang => Awaited(c)'
      BY <2>1 DEF Awaited
    <2>7. \A c : Tabled(c) => Tabled(c)'
      BY <2>1 DEF Tabled
    <2>8. LangsMet'
      <3> SUFFICES ASSUME NEW m \in 1..i' - 1, NEW c, c = langs[m]
                   PROVE  Tabled(c)' \/ Awaited(c)'
        BY <1>2 DEF LangsMet, Tabled, Awaited
      <3>1. m = i \/ m \in 1..i - 1
        BY <2>1, <2>3
      <3> QED
        BY <2>2, <2>3, <2>5, <2>6, <2>7, <3>1 DEF LangsMet
    <2>9. TablesMade'
      BY <1>r, <2>1, <2>2, <2>5 DEF TablesMade, Made, Tabled
    <2>10. AllOwn' /\ i' \in 1..Len(langs') + 1
      BY <1>2, <2>1, <2>2, <2>3 DEF AllOwn, Exts, KeyAt
    <2> QED
      BY <1>r, <2>1, <2>4, <2>8, <2>9, <2>10 DEF BuildInv, ReadyToChunk
  <1>b. ASSUME np = "build", np' = "build", i' = i, byExt' = byExt,
               pending' \in Seq(SUBSET Reach),
               \A d \in Configs : Tabled(d) \/ Awaited(d) => Tabled(d)' \/ Awaited(d)',
               TablesMade'
        PROVE  BuildInv'
    <2>1. i \in 1..Len(langs) + 1 /\ AllOwn /\ LangsMet /\ Len(langs) \in Nat
      BY <1>0, <1>b DEF BuildInv, ArgsOK
    <2>2. \A m \in 1..i - 1 : langs[m] \in Configs
      BY <1>0, <2>1 DEF ArgsOK
    <2>3. LangsMet'
      BY <1>2, <1>b, <2>1, <2>2 DEF LangsMet, Tabled, Awaited
    <2>4. AllOwn'
      BY <1>2, <1>b, <2>1 DEF AllOwn, Exts, KeyAt
    <2> QED
      BY <1>2, <1>r, <1>b, <2>1, <2>3, <2>4 DEF BuildInv, ReadyToChunk
  <1>k. ASSUME TablesMade, kindMap' = kindMap,
               \A d : Tabled(d) \/ Awaited(d) => Tabled(d)' \/ Awaited(d)'
        PROVE  TablesMade'
    BY <1>r, <1>k DEF TablesMade, Made
  <1>9. CASE AlreadyBuilt
    <2>1. PICK c \in Configs :
            /\ Building(c) /\ Tabled(c)
            /\ pending' = << Head(pending) \ {c} >> \o Tail(pending)
            /\ UNCHANGED <<args, i, x, byExt, kindMap, np, err>>
      BY <1>9 DEF AlreadyBuilt, Tabled
    <2>2. np = "build" /\ pending # << >> /\ pending \in Seq(SUBSET Reach) /\ TablesMade
      BY <2>1 DEF Building, BuildInv
    <2>3. pending' = << >> \o << Head(pending) \ {c} >> \o Tail(pending)
      BY <2>1, <2>2
    <2>4. /\ pending' \in Seq(SUBSET Reach)
          /\ \A d : Awaited(d) => d = c \/ Awaited(d)'
      <3>1. << >> \in Seq(SUBSET Reach)
        OBVIOUS
      <3> QED
        BY <2>2, <2>3, <3>1, Waiting
    <2>5. \A d : Tabled(d)' <=> Tabled(d)
      BY <2>1 DEF Tabled
    <2>6. \A d : Tabled(d) \/ Awaited(d) => Tabled(d)' \/ Awaited(d)'
      BY <2>1, <2>4, <2>5
    <2>7. TablesMade'
      BY <1>k, <2>1, <2>2, <2>6
    <2> QED
      BY <1>b, <2>1, <2>2, <2>4, <2>6, <2>7
  <1>10. CASE Build
    <2>1. PICK c \in Configs :
            /\ Building(c) /\ ~ Tabled(c)
            /\ kindMap' = Extend(kindMap, Name[c], Tables[c])
            /\ pending' = Injected[c] \o << Head(pending) \ {c} >> \o Tail(pending)
            /\ UNCHANGED <<args, i, x, byExt, np, err>>
      BY <1>10 DEF Build, Tabled
    <2>2. np = "build" /\ pending # << >> /\ pending \in Seq(SUBSET Reach) /\ TablesMade
      BY <2>1 DEF Building, BuildInv
    <2>c. c \in Reach
      BY <2>1, <2>2 DEF Building
    <2>3. /\ pending' \in Seq(SUBSET Reach)
          /\ \A d : Awaited(d) => d = c \/ Awaited(d)'
          /\ \A j \in 1..Len(Injected[c]) : \A d \in Injected[c][j] : Awaited(d)'
      BY <2>1, <2>2, <2>c, <1>0, ReachClosed, Waiting
    <2>4. \A d : Tabled(d)' <=> Tabled(d) \/ Name[d] = Name[c]
      BY <2>1 DEF Tabled, Extend
    <2>5. \A d : Tabled(d) \/ Awaited(d) => Tabled(d)' \/ Awaited(d)'
      BY <2>3, <2>4
    <2>6. \A d \in InjectedBy(c) : Awaited(d)'
      BY <2>3 DEF InjectedBy
    <2>7. TablesMade'
      <3> SUFFICES ASSUME NEW n \in DOMAIN kindMap'
                   PROVE  \E d \in Reach : Made(n, d)'
        BY <1>r DEF TablesMade
      <3>1. CASE n = Name[c]
        <4>1. kindMap'[n] = Tables[c]
          BY <2>1, <3>1 DEF Extend
        <4>2. Made(n, c)'
          BY <2>6, <3>1, <4>1 DEF Made
        <4> QED
          BY <2>c, <4>2
      <3>2. CASE n # Name[c]
        <4>1. n \in DOMAIN kindMap /\ kindMap'[n] = kindMap[n]
          BY <2>1, <3>2 DEF Extend
        <4>2. PICK d \in Reach : Made(n, d)
          BY <2>2, <4>1 DEF TablesMade
        <4>3. Made(n, d)'
          BY <2>5, <4>1, <4>2 DEF Made
        <4> QED
          BY <4>3
      <3> QED
        BY <3>1, <3>2
    <2> QED
      BY <1>b, <2>1, <2>2, <2>3, <2>5, <2>7
  <1>11. CASE LoopDone
    <2>1. /\ np = "build" /\ pending # << >> /\ Head(pending) = {} /\ pending' = Tail(pending)
          /\ UNCHANGED <<args, i, x, byExt, kindMap, np, err>>
      BY <1>11 DEF LoopDone
    <2>2. pending \in Seq(SUBSET Reach) /\ TablesMade
      BY <2>1 DEF BuildInv
    <2>3. /\ pending' \in Seq(SUBSET Reach)
          /\ pending[1] = {}
          /\ Len(pending) \in Nat
          /\ Len(pending') = Len(pending) - 1
          /\ \A j \in 1..Len(pending) - 1 : pending'[j] = pending[j + 1]
      BY <2>1, <2>2
    <2>4. ASSUME NEW d, Awaited(d) PROVE Awaited(d)'
      <3>1. PICK j \in 1..Len(pending) : d \in pending[j]
        BY <2>4 DEF Awaited
      <3>2. j # 1
        BY <2>3, <3>1
      <3>3. j - 1 \in 1..Len(pending') /\ d \in pending'[j - 1]
        BY <2>3, <3>1, <3>2
      <3> QED
        BY <3>3 DEF Awaited
    <2>5. \A d : Tabled(d)' <=> Tabled(d)
      BY <2>1 DEF Tabled
    <2>6. \A d : Tabled(d) \/ Awaited(d) => Tabled(d)' \/ Awaited(d)'
      BY <2>4, <2>5
    <2>7. TablesMade'
      BY <1>k, <2>1, <2>2, <2>6
    <2> QED
      BY <1>b, <2>1, <2>3, <2>6, <2>7
  <1>12. CASE Built
    <2>1. /\ np = "build" /\ pending = << >> /\ i > Len(langs) /\ np' = "returned"
          /\ UNCHANGED <<byExt, kindMap>>
      BY <1>12 DEF Built
    <2>2. i \in 1..Len(langs) + 1 /\ AllOwn /\ LangsMet /\ TablesMade /\ Len(langs) \in Nat
      BY <1>0, <2>1 DEF BuildInv, ArgsOK
    <2>3. \A c : ~ Awaited(c)
      BY <2>1 DEF Awaited
    <2>4. i - 1 = Len(langs)
      BY <2>1, <2>2
    <2>5. \A c \in Passed : Tabled(c)
      BY <2>2, <2>3, <2>4 DEF LangsMet, Passed
    <2>6. \A n \in DOMAIN kindMap : \E d \in Reach : TablesFrom(n, d)
      BY <2>2, <2>3 DEF TablesMade, Made, TablesFrom
    <2>a. NamesakesAlike => \A c \in Reach : Tabled(c)
      BY <1>0, <2>5, <2>6, AllReached
    <2>7. \A a \in Claims : byExt[Key(a)] = langs[a[1]]
      <3> SUFFICES ASSUME NEW a \in Claims
                   PROVE  byExt[Key(a)] = langs[a[1]]
        OBVIOUS
      <3>1. PICK m \in 1..Len(langs) : \E p \in 1..Len(Exts(m)) : a = <<m, p>>
        BY <1>0, ClaimPairs
      <3>2. PICK p \in 1..Len(Exts(m)) : a = <<m, p>>
        BY <3>1
      <3> QED
        BY <2>2, <3>2 DEF AllOwn, KeyAt, Key
    <2>8. ReadyToChunk'
      BY <1>2, <1>r, <2>1, <2>5, <2>6, <2>7, <2>a DEF ReadyToChunk, Reach, Tabled, TablesFrom, Key
    <2> QED
      BY <2>1, <2>8 DEF BuildInv
  <1>13. CASE UNCHANGED vars
    <2>1. <<i, x, byExt, np, err, kindMap, pending>>' = <<i, x, byExt, np, err, kindMap, pending>>
      BY <1>13 DEF vars
    <2>2. (OwnExtensions <=> OwnExtensions') /\ (AllOwn <=> AllOwn') /\ (LangsMet <=> LangsMet')
      BY <1>2, <2>1 DEF OwnExtensions, AllOwn, LangsMet, Tabled, Awaited, Past, Exts, KeyAt
    <2>3. TablesMade <=> TablesMade'
      BY <1>r, <2>1 DEF TablesMade, Made, Tabled, Awaited
    <2>4. /\ \A d : Tabled(d) <=> Tabled(d)'
          /\ \A n, d : TablesFrom(n, d) <=> TablesFrom(n, d)'
          /\ \A a : Key(a)' = Key(a)
      BY <1>2, <2>1 DEF Tabled, TablesFrom, Key
    <2>5. ReadyToChunk => ReadyToChunk'
      BY <1>2, <1>r, <2>1, <2>4 DEF ReadyToChunk, Reach
    <2> QED
      BY <1>2, <1>r, <2>1, <2>2, <2>3, <2>5 DEF BuildInv
  <1> QED
    BY <1>3, <1>4, <1>5, <1>6, <1>7, <1>8, <1>9, <1>10, <1>11, <1>12, <1>13 DEF Next

\* A Chunker that NewChunker returns finds, for every extension claimed, in
\* whatever case, the config that claimed it.  Every config passed has tables, and
\* each table is that of one reachable config of its name, whose injected languages
\* have tables as well, however rules are nested, and also if they lead back.  So
\* every language that can be reached has its tables where configs of one name
\* inject the same, which is a hypothesis of the property and not of the module.
THEOREM ReadyForEveryLanguage == Spec => []ReadyToChunk
  <1>1. Spec => []BuildInv
    BY BuildInitially, BuildStep, Invariance, PTL DEF Spec
  <1>2. BuildInv => ReadyToChunk
    BY DEF BuildInv
  <1> QED
    BY <1>1, <1>2, PTL
=============================================================================
