--------------------------- MODULE VueScanner_proofs ---------------------------
(***************************************************************************)
(* What is proved of the Vue scanner: its stack and the stack of the       *)
(* parser stay in step, and no entry of the former shifts, for every       *)
(* document, every table of names and every size of the buffer that        *)
(* carries it from one token to the next.  An implicit end tag ends an     *)
(* element in time and not in vain, and raw text stops at its closing tag. *)
(***************************************************************************)
EXTENDS VueScanner, WellFoundedInduction, TLAPS

\* Entries of names that were cut or lost still obey the rule of the element.
IInv ==
    /\ stack \in Seq(Tag)
    /\ open \in Seq(Rules)
    /\ Len(open) <= CountMax
    /\ StackInStep

-----------------------------------------------------------------------------
\* A name that is cut stays the name of a custom element.
LEMMA ShortenedTag ==
    ASSUME NEW t \in Tag
    PROVE  /\ Shortened(t) \in Tag
           /\ t = Blank => Shortened(t) = Blank
           /\ RuleOf(Shortened(t)) = RuleOf(t)
<1>1. Blank.type # "CUSTOM"
  BY DEF Blank
<1>2. CASE t.type = "CUSTOM" /\ Length[t.name] > NameMax
  <2>1. PICK w \in Words : t = TagFor(w)
    BY <1>1, <1>2 DEF Tag
  <2>2. "CUSTOM" \notin TagNames
    BY DEF TagNames, VoidTypes, NotInParagraphs
  <2>3. w \in DOMAIN Length /\ t.name = w
    BY <1>2, <2>1, <2>2 DEF TagFor, Words
  <2>4. CutName[w] \in DOMAIN Length /\ CutName[w] \notin TagNames
    BY <2>3, NameAssumption, CustomAssumption
  <2>5. Shortened(t) = TagFor(CutName[w])
    BY <1>2, <2>3, <2>4 DEF Shortened, TagFor
  <2>6. Shortened(t) \in Tag
    BY <2>4, <2>5 DEF Tag, Words
  <2>7. Shortened(t).type = "CUSTOM" /\ t # Blank
    BY <1>1, <1>2 DEF Shortened
  <2> QED
    BY <1>2, <2>6, <2>7 DEF RuleOf
<1>3. CASE ~ (t.type = "CUSTOM" /\ Length[t.name] > NameMax)
  BY <1>3 DEF Shortened
<1> QED
  BY <1>2, <1>3

\* What is read back has the number of entries that was written, each with the
\* rule of the one it was, or blank.
LEMMA RoundTrip ==
    ASSUME NEW s \in Seq(Tag), Len(s) <= CountMax,
           NEW r, r = Deserialize(Serialize(s))
    PROVE  /\ r \in Seq(Tag)
           /\ Len(r) = Len(s)
           /\ \A n \in 1..Len(s) :
                 r[n] # Blank => s[n] # Blank /\ RuleOf(r[n]) = RuleOf(s[n])
<1>1. Serialize(s).count = Len(s) /\ Serialize(s).kept = [n \in Fitting(s) |-> Shortened(s[n])]
  BY LimitAssumption DEF Serialize
<1>2. r = [n \in 1..Len(s) |-> IF n \in Fitting(s) THEN Shortened(s[n]) ELSE Blank]
  BY <1>1 DEF Deserialize
<1>3. \A n \in 1..Len(s) : /\ r[n] \in Tag
                           /\ r[n] # Blank => s[n] # Blank /\ RuleOf(r[n]) = RuleOf(s[n])
  <2> SUFFICES ASSUME NEW n \in 1..Len(s)
               PROVE  /\ r[n] \in Tag
                      /\ r[n] # Blank => s[n] # Blank /\ RuleOf(r[n]) = RuleOf(s[n])
    OBVIOUS
  <2>1. s[n] \in Tag
    OBVIOUS
  <2>2. Blank \in Tag
    BY DEF Tag
  <2>3. r[n] = IF n \in Fitting(s) THEN Shortened(s[n]) ELSE Blank
    BY <1>2
  <2> QED
    BY <2>1, <2>2, <2>3, ShortenedTag
<1>4. Len(s) \in Nat
  OBVIOUS
<1>5. r \in [1..Len(s) -> Tag]
  BY <1>2, <1>3
<1>6. r \in Seq(Tag) /\ Len(r) = Len(s)
  BY <1>4, <1>5
<1> QED
  BY <1>3, <1>6

\* A token keeps the invariant if the scanner's stack after it fits the
\* parser's.
LEMMA EmitKeeps ==
    ASSUME NEW s \in Seq(Tag), saved' = Serialize(s),
           open' \in Seq(Rules), Len(open') <= CountMax, Len(s) = Len(open'),
           \A n \in 1..Len(s) : s[n] # Blank => open'[n] = RuleOf(s[n])
    PROVE  IInv'
<1>1. stack' = Deserialize(Serialize(s))
  BY DEF stack
<1>2. /\ stack' \in Seq(Tag)
      /\ Len(stack') = Len(s)
      /\ \A n \in 1..Len(s) :
            stack'[n] # Blank => s[n] # Blank /\ RuleOf(stack'[n]) = RuleOf(s[n])
  BY <1>1, RoundTrip
<1>3. StackInStep'
  BY <1>2 DEF StackInStep
<1> QED
  BY <1>2, <1>3 DEF IInv

\* The tokens that leave both stacks as they are.
LEMMA EmitSame ==
    ASSUME IInv, saved' = Serialize(stack), open' = open
    PROVE  IInv'
BY EmitKeeps DEF IInv, StackInStep

\* The tokens that end the innermost element.
LEMMA EmitPopped ==
    ASSUME IInv, stack # << >>, saved' = Serialize(Popped),
           open' = SubSeq(open, 1, Len(open) - 1)
    PROVE  IInv'
<1>1. stack \in Seq(Tag) /\ open \in Seq(Rules) /\ Len(stack) = Len(open) /\ Len(open) \in Nat \ {0}
  BY DEF IInv, StackInStep
<1>2. Popped \in Seq(Tag) /\ Len(Popped) = Len(open) - 1 /\ \A n \in 1..Len(open) - 1 : Popped[n] = stack[n]
  BY <1>1 DEF Popped
<1>3. open' \in Seq(Rules) /\ Len(open') = Len(open) - 1 /\ \A n \in 1..Len(open) - 1 : open'[n] = open[n]
  BY <1>1
<1>4. \A n \in 1..Len(open) - 1 : stack[n] # Blank => open[n] = RuleOf(stack[n])
  BY <1>1 DEF IInv, StackInStep
<1>5. Len(open') <= CountMax
  BY <1>1, <1>3, LimitAssumption DEF IInv
<1> QED
  BY <1>2, <1>3, <1>4, <1>5, EmitKeeps

\* The token that opens an element.
LEMMA EmitOpened ==
    ASSUME IInv, Len(open) < CountMax, NEW t \in Tag,
           saved' = Serialize(Append(stack, t)), open' = Append(open, RuleOf(t))
    PROVE  IInv'
<1>1. stack \in Seq(Tag) /\ open \in Seq(Rules) /\ Len(stack) = Len(open) /\ Len(open) \in Nat
  BY DEF IInv, StackInStep
<1>2. RuleOf(t) \in Rules
  BY DEF RuleOf, Rules
<1>3. Append(stack, t) \in Seq(Tag) /\ Len(Append(stack, t)) = Len(open) + 1
  BY <1>1
<1>4. open' \in Seq(Rules) /\ Len(open') = Len(open) + 1
  BY <1>1, <1>2
<1>5. \A n \in 1..Len(open) + 1 : Append(stack, t)[n] # Blank => open'[n] = RuleOf(Append(stack, t)[n])
  BY <1>1, <1>2 DEF IInv, StackInStep
<1>6. Len(open') <= CountMax
  BY <1>1, <1>4, LimitAssumption
<1> QED
  BY <1>3, <1>4, <1>5, <1>6, EmitKeeps

-----------------------------------------------------------------------------
LEMMA InitIInv == Init => IInv
<1> SUFFICES ASSUME Init PROVE IInv
  OBVIOUS
<1>1. stack = Deserialize(Serialize(<< >>)) /\ open = << >>
  BY DEF Init, stack
<1>2. << >> \in Seq(Tag) /\ Len(<< >>) = 0
  OBVIOUS
<1>3. Len(<< >>) <= CountMax
  BY <1>2, LimitAssumption
<1>4. stack \in Seq(Tag) /\ Len(stack) = 0
  BY <1>1, <1>2, <1>3, RoundTrip
<1> QED
  BY <1>1, <1>4, LimitAssumption DEF IInv, StackInStep

LEMMA NextIInv == IInv /\ [Next]_vars => IInv'
<1> SUFFICES ASSUME IInv, [Next]_vars PROVE IInv'
  OBVIOUS
<1>1. CASE TextFragment
  BY <1>1, EmitSame DEF TextFragment, Emit
<1>2. CASE InterpolationText
  BY <1>2, EmitSame DEF InterpolationText, Emit
<1>3. CASE RawText
  BY <1>3, EmitSame DEF RawText, Emit
<1>4. CASE Comment
  BY <1>4, EmitSame DEF Comment, Emit
<1>5. CASE ImplicitEndTag
  <2>1. stack # << >>
    BY <1>5 DEF ImplicitEndTag, FindsImplicitEnd, ImplicitEnd
  <2> QED
    BY <1>5, <2>1, EmitPopped DEF ImplicitEndTag, Emit
<1>6. CASE StartTagName
  <2>1. At(Here) \in Words
    BY <1>6 DEF StartTagName, FindsName, NameAt
  <2>2. TagFor(At(Here)) \in Tag
    BY <2>1 DEF Tag
  <2> QED
    BY <1>6, <2>2, EmitOpened DEF StartTagName, Counted, Emit
<1>7. CASE SelfClosingTagDelimiter
  BY <1>7, EmitPopped DEF SelfClosingTagDelimiter, Emit
<1>8. CASE EndTagName
  BY <1>8, EmitPopped DEF EndTagName, Closes, Emit
<1>9. CASE ErroneousEndTagName
  BY <1>9, EmitSame DEF ErroneousEndTagName, Emit
<1>10. ASSUME UNCHANGED <<open, saved>> PROVE IInv'
  BY <1>10 DEF IInv, StackInStep, stack
<1>11. CASE LexTag \/ LexEndTag \/ LexBraces \/ LexBracesEnd \/ LexTagEnd \/ Accept \/ Reject
  BY <1>10, <1>11 DEF LexTag, LexEndTag, LexBraces, LexBracesEnd, LexTagEnd, Accept, Reject, Lexed
<1>12. CASE UNCHANGED vars
  BY <1>10, <1>12 DEF vars
<1> QED
  BY <1>1, <1>2, <1>3, <1>4, <1>5, <1>6, <1>7, <1>8, <1>9, <1>11, <1>12 DEF Next

(***************************************************************************)
(* The parser and the scanner agree on the number of the open elements and *)
(* on the rules of those whose names the scanner still knows, whatever of  *)
(* its stack fits in the buffer that scan's caller keeps it in.            *)
(***************************************************************************)
THEOREM StacksInStep == Spec => []StackInStep
<1>1. IInv => StackInStep
  BY DEF IInv
<1> QED
  BY <1>1, InitIInv, NextIInv, PTL DEF Spec

-----------------------------------------------------------------------------
(***************************************************************************)
(* What the buffer holds.  The cost of a stack is a recursive function,    *)
(* and what is true of all its values is shown for the least number for    *)
(* which it is not.                                                        *)
(***************************************************************************)
Less == {ss \in Nat \X Nat : ss[1] < ss[2]}

\* A set of naturals that is not empty has a least element.
LEMMA LeastNumber ==
    ASSUME NEW T, T \subseteq Nat, T # {}
    PROVE  \E m \in T : \A k \in T : m <= k
<1>1. IsWellFoundedOn(Less, Nat)
  BY NatLessThanWellFounded DEF OpToRel, Less
<1>2. PICK m \in T : \A k \in T : ~ (<<k, m>> \in Less)
  BY ONLY <1>1, T \subseteq Nat, T # {}, WFMin
<1>3. \A k \in T : ~ (k < m)
  BY <1>2 DEF Less
<1> QED
  BY <1>3

LEMMA CostBounds ==
    ASSUME NEW t \in Tag
    PROVE  /\ Cost(t) \in Nat \ {0}
           /\ Cost(Blank) = 1
           /\ Cost(Shortened(t)) <= Cost(t)
           /\ Shortened(Shortened(t)) = Shortened(t)
<1>1. Blank.type # "CUSTOM" /\ Cost(Blank) = 1
  BY DEF Blank, Cost
<1>2. CASE t.type = "CUSTOM"
  <2>1. PICK w \in Words : t = TagFor(w)
    BY <1>1, <1>2 DEF Tag
  <2>2. "CUSTOM" \notin TagNames
    BY DEF TagNames, VoidTypes, NotInParagraphs
  <2>3. w \in DOMAIN Length /\ t.name = w /\ t = [type |-> "CUSTOM", name |-> w]
    BY <1>2, <2>1, <2>2 DEF TagFor, Words
  <2>4. Length[w] \in Nat /\ CutName[w] \in DOMAIN Length /\ Length[CutName[w]] \in Nat
    BY <2>3, NameAssumption
  <2>5. CASE Length[w] > NameMax
    <3>1. Shortened(t) = [type |-> "CUSTOM", name |-> CutName[w]]
      BY <2>3, <2>5 DEF Shortened
    <3>2. Length[CutName[w]] = NameMax
      BY <2>3, <2>5, CutAssumption
    <3>3. Shortened(Shortened(t)) = Shortened(t)
      BY <3>1, <3>2, LimitAssumption DEF Shortened
    <3>4. Cost(t) = 2 + NameMax /\ Cost(Shortened(t)) = 2 + NameMax
      BY <2>3, <2>4, <2>5, <3>1, <3>2, LimitAssumption DEF Cost
    <3> QED
      BY <1>1, <3>3, <3>4, LimitAssumption
  <2>6. CASE ~ (Length[w] > NameMax)
    <3>1. Shortened(t) = t
      BY <2>3, <2>6 DEF Shortened
    <3>2. Cost(t) = 2 + Length[w]
      BY <2>3, <2>4, <2>6, LimitAssumption DEF Cost
    <3> QED
      BY <1>1, <2>4, <3>1, <3>2
  <2> QED
    BY <2>5, <2>6
<1>3. CASE t.type # "CUSTOM"
  BY <1>1, <1>3 DEF Shortened, Cost
<1> QED
  BY <1>2, <1>3

\* Used(s) counts the bytes: 4 for the two numbers, and the cost of each entry.
LEMMA UsedCounts ==
    ASSUME NEW s \in Seq(Tag)
    PROVE  /\ Used(s) \in [0..Len(s) -> Nat]
           /\ Used(s)[0] = 4
           /\ \A n \in 1..Len(s) : Used(s)[n] = Used(s)[n - 1] + Cost(s[n])
<1> DEFINE Counts(u, k) == /\ u \in [0..k -> Nat]
                           /\ u[0] = 4
                           /\ \A n \in 1..k : u[n] = u[n - 1] + Cost(s[n])
           T == {k \in 0..Len(s) : ~ \E u : Counts(u, k)}
<1>1. Len(s) \in Nat /\ \A n \in 1..Len(s) : s[n] \in Tag /\ Cost(s[n]) \in Nat
  BY CostBounds
<1>2. T = {}
  <2> SUFFICES ASSUME T # {} PROVE FALSE
    OBVIOUS
  <2> T \subseteq Nat
    BY <1>1
  <2> HIDE DEF T
  <2>1. PICK k \in T : \A j \in T : k <= j
    BY LeastNumber
  <2> USE DEF T
  <2>2. k # 0
    <3>1. Counts([n \in 0..0 |-> 4], 0)
      OBVIOUS
    <3> HIDE DEF Counts
    <3>2. 0 \notin T
      BY <3>1
    <3> QED
      BY <2>1, <3>2
  <2>3. k \in 0..Len(s) /\ k - 1 \in 0..Len(s)
    BY <1>1, <2>2
  <2>4. PICK u : Counts(u, k - 1)
    <3> HIDE DEF Counts
    <3>1. k - 1 \notin T
      <4> HIDE DEF T
      <4> QED
        BY <2>1, <2>3
    <3> QED
      BY <2>3, <3>1
  <2> DEFINE w == [n \in 0..k |-> IF n = k THEN u[k - 1] + Cost(s[k]) ELSE u[n]]
  <2>5. Counts(w, k)
    <3>1. u[k - 1] \in Nat /\ Cost(s[k]) \in Nat /\ k \in 1..Len(s)
      BY <1>1, <2>2, <2>3, <2>4
    <3>2. \A n \in 0..k : n # k => n \in 0..k - 1
      BY <2>3
    <3>3. w \in [0..k -> Nat] /\ w[0] = 4
      BY <2>2, <2>3, <2>4, <3>1, <3>2
    <3>4. \A n \in 0..k - 1 : w[n] = u[n]
      BY <2>3, <3>1
    <3>5. w[k] = w[k - 1] + Cost(s[k])
      BY <2>3, <3>1, <3>4
    <3>6. ASSUME NEW n \in 1..k, n # k PROVE w[n] = w[n - 1] + Cost(s[n])
      <4>1. n \in 0..k - 1 /\ n - 1 \in 0..k - 1 /\ n \in 1..k - 1
        BY <3>1, <3>6
      <4> HIDE DEF w
      <4> QED
        BY <2>4, <3>4, <4>1
    <3> HIDE DEF w
    <3> QED
      BY <3>3, <3>5, <3>6
  <2> QED
    BY <2>1, <2>5
<1>3. PICK u : Counts(u, Len(s))
  <2> HIDE DEF Counts
  <2>1. Len(s) \notin T /\ Len(s) \in 0..Len(s)
    BY <1>1, <1>2
  <2> QED
    BY <2>1
<1>4. u = [n \in 0..Len(s) |-> IF n = 0 THEN 4 ELSE u[n - 1] + Cost(s[n])]
  BY <1>1, <1>3
<1> DEFINE U == Used(s)
<1>5. U = [n \in 0..Len(s) |-> IF n = 0 THEN 4 ELSE U[n - 1] + Cost(s[n])]
  BY <1>4 DEF Used
<1>6. /\ U[0] = 4
      /\ \A n \in 1..Len(s) : U[n] = U[n - 1] + Cost(s[n])
      /\ DOMAIN U = 0..Len(s)
  BY <1>1, <1>5
<1>7. \A n \in 0..Len(s) : U[n] \in Nat
  <2> DEFINE V == {n \in 0..Len(s) : U[n] \notin Nat}
  <2> SUFFICES ASSUME V # {} PROVE FALSE
    OBVIOUS
  <2> V \subseteq Nat
    BY <1>1
  <2> HIDE DEF V
  <2>1. PICK k \in V : \A j \in V : k <= j
    BY LeastNumber
  <2> USE DEF V
  <2>2. k \in 1..Len(s) /\ k - 1 \in 0..Len(s) /\ k - 1 \notin V
    BY <1>1, <1>6, <2>1
  <2> QED
    BY <1>1, <1>6, <2>1, <2>2
<1> QED
  BY <1>5, <1>6, <1>7

\* Of stacks with the same outermost entries, the same fit.
LEMMA SamePrefix ==
    ASSUME NEW s \in Seq(Tag), NEW p \in Seq(Tag), NEW l \in Nat,
           l <= Len(s), l <= Len(p), \A n \in 1..l : p[n] = s[n]
    PROVE  \A n \in 0..l : Used(p)[n] = Used(s)[n]
<1> DEFINE T == {n \in 0..l : Used(p)[n] # Used(s)[n]}
<1>1. Len(s) \in Nat /\ Len(p) \in Nat /\ T \subseteq Nat
  OBVIOUS
<1> SUFFICES ASSUME T # {} PROVE FALSE
  OBVIOUS
<1> HIDE DEF T
<1>2. PICK k \in T : \A j \in T : k <= j
  BY <1>1, LeastNumber
<1>3. k \in 0..l /\ Used(p)[k] # Used(s)[k]
  BY <1>2 DEF T
<1>4. k # 0
  BY <1>3, UsedCounts
<1>5. k \in 1..Len(s) /\ k \in 1..Len(p) /\ k - 1 \in 0..l /\ p[k] = s[k]
  BY <1>1, <1>3, <1>4
<1>6. k - 1 \notin T
  BY <1>2, <1>3, <1>5
<1>7. Used(p)[k - 1] = Used(s)[k - 1]
  BY <1>5, <1>6 DEF T
<1>8. Used(p)[k] = Used(p)[k - 1] + Cost(p[k]) /\ Used(s)[k] = Used(s)[k - 1] + Cost(s[k])
  BY ONLY <1>5, UsedCounts, s \in Seq(Tag), p \in Seq(Tag)
<1> QED
  BY <1>3, <1>5, <1>7, <1>8

\* Where no entry costs more, no more is used.
LEMMA NoMoreUsed ==
    ASSUME NEW s \in Seq(Tag), NEW p \in Seq(Tag), Len(p) = Len(s),
           \A n \in 1..Len(s) : Cost(p[n]) <= Cost(s[n])
    PROVE  \A n \in 0..Len(s) : Used(p)[n] <= Used(s)[n]
<1> DEFINE T == {n \in 0..Len(s) : ~ (Used(p)[n] <= Used(s)[n])}
<1>1. Len(s) \in Nat /\ T \subseteq Nat
  OBVIOUS
<1> SUFFICES ASSUME T # {} PROVE FALSE
  OBVIOUS
<1> HIDE DEF T
<1>2. PICK k \in T : \A j \in T : k <= j
  BY <1>1, LeastNumber
<1>3. k \in 0..Len(s) /\ ~ (Used(p)[k] <= Used(s)[k])
  BY <1>2 DEF T
<1>4. k # 0
  BY <1>3, UsedCounts
<1>5. k \in 1..Len(s) /\ k - 1 \in 0..Len(s)
  BY <1>1, <1>3, <1>4
<1>6. k - 1 \notin T
  BY <1>2, <1>3, <1>5
<1>7. Used(p)[k - 1] <= Used(s)[k - 1]
  BY <1>5, <1>6 DEF T
<1>8. Used(p)[k] = Used(p)[k - 1] + Cost(p[k]) /\ Used(s)[k] = Used(s)[k - 1] + Cost(s[k])
  BY ONLY <1>5, UsedCounts, s \in Seq(Tag), p \in Seq(Tag), Len(p) = Len(s)
<1>9. Used(p)[k - 1] \in Nat /\ Used(s)[k - 1] \in Nat
  BY ONLY <1>5, UsedCounts, s \in Seq(Tag), p \in Seq(Tag), Len(p) = Len(s)
<1>10. p[k] \in Tag /\ s[k] \in Tag /\ Cost(p[k]) <= Cost(s[k])
  BY <1>5
<1>11. Cost(p[k]) \in Nat /\ Cost(s[k]) \in Nat
  BY <1>10, CostBounds
<1> QED
  BY <1>3, <1>7, <1>8, <1>9, <1>10, <1>11

\* A stack that goes through the buffer unchanged.
Settled(s) ==
    \A n \in 1..Len(s) : /\ Shortened(s[n]) = s[n]
                         /\ s[n] = Blank \/ Used(s)[n] < BufferSize

\* What is read back is settled: names are cut and lost once.
LEMMA ReadBackSettled ==
    ASSUME NEW s \in Seq(Tag), Len(s) <= CountMax,
           NEW r, r = Deserialize(Serialize(s))
    PROVE  Settled(r)
<1>1. /\ r \in Seq(Tag)
      /\ Len(r) = Len(s)
      /\ Serialize(s).count = Len(s)
      /\ Serialize(s).kept = [n \in Fitting(s) |-> Shortened(s[n])]
  BY RoundTrip, LimitAssumption DEF Serialize
<1>2. r = [n \in 1..Len(s) |-> IF n \in Fitting(s) THEN Shortened(s[n]) ELSE Blank]
  BY <1>1 DEF Deserialize
<1>3. \A n \in 1..Len(s) : /\ s[n] \in Tag
                           /\ r[n] = IF n \in Fitting(s) THEN Shortened(s[n]) ELSE Blank
  BY <1>2
<1>4. Blank \in Tag
  BY DEF Tag
<1>5. \A n \in 1..Len(s) : Cost(r[n]) <= Cost(s[n]) /\ Shortened(r[n]) = r[n]
  <2> SUFFICES ASSUME NEW n \in 1..Len(s)
               PROVE  Cost(r[n]) <= Cost(s[n]) /\ Shortened(r[n]) = r[n]
    OBVIOUS
  <2>1. Shortened(Blank) = Blank /\ Cost(Blank) = 1
    BY <1>4, CostBounds, ShortenedTag
  <2>2. /\ Cost(s[n]) \in Nat \ {0}
        /\ Cost(Shortened(s[n])) <= Cost(s[n])
        /\ Shortened(Shortened(s[n])) = Shortened(s[n])
    BY <1>3, CostBounds
  <2> QED
    BY <1>3, <2>1, <2>2
<1>6. \A n \in 0..Len(s) : Used(r)[n] <= Used(s)[n]
  BY <1>1, <1>5, NoMoreUsed
<1>7. \A n \in 1..Len(s) : r[n] = Blank \/ Used(r)[n] < BufferSize
  <2> SUFFICES ASSUME NEW n \in 1..Len(s), n \in Fitting(s)
               PROVE  Used(r)[n] < BufferSize
    BY <1>3
  <2>1. Used(s)[n] < BufferSize
    BY DEF Fitting
  <2>2. n \in 0..Len(s) /\ n \in 0..Len(r)
    BY <1>1
  <2>3. Used(r)[n] \in Nat /\ Used(s)[n] \in Nat
    BY ONLY <1>1, <2>2, UsedCounts, s \in Seq(Tag)
  <2> QED
    BY <1>6, <2>1, <2>2, <2>3, LimitAssumption
<1> QED
  BY <1>1, <1>5, <1>7 DEF Settled

\* A stack that agrees with a settled one as far as both go keeps what it has
\* in common with it.
LEMMA CommonKept ==
    ASSUME NEW s \in Seq(Tag), Settled(s), NEW p \in Seq(Tag), Len(p) <= CountMax,
           \A n \in 1..Len(s) : n <= Len(p) => p[n] = s[n],
           NEW r, r = Deserialize(Serialize(p))
    PROVE  \A n \in 1..Len(s) : n <= Len(p) => r[n] = s[n]
<1> SUFFICES ASSUME NEW n \in 1..Len(s), n <= Len(p)
             PROVE  r[n] = s[n]
  OBVIOUS
<1>1. Serialize(p).count = Len(p) /\ Serialize(p).kept = [m \in Fitting(p) |-> Shortened(p[m])]
  BY LimitAssumption DEF Serialize
<1>2. r = [m \in 1..Len(p) |-> IF m \in Fitting(p) THEN Shortened(p[m]) ELSE Blank]
  BY <1>1 DEF Deserialize
<1>3. Len(s) \in Nat /\ Len(p) \in Nat /\ n \in 1..Len(p)
  OBVIOUS
<1>4. p[n] = s[n] /\ Shortened(s[n]) = s[n]
  BY DEF Settled
<1>5. CASE s[n] = Blank
  BY <1>2, <1>3, <1>4, <1>5
<1>6. CASE Used(s)[n] < BufferSize
  <2>1. n \in Nat /\ n <= Len(s) /\ n \in 0..n /\ \A m \in 1..n : p[m] = s[m]
    BY <1>3
  <2>2. Used(p)[n] = Used(s)[n]
    BY <2>1, SamePrefix
  <2>3. n \in Fitting(p)
    BY <1>3, <1>6, <2>2, LimitAssumption DEF Fitting
  <2> QED
    BY <1>2, <1>3, <1>4, <2>3
<1> QED
  BY <1>5, <1>6 DEF Settled

Common == \A n \in DOMAIN stack \cap DOMAIN stack' : stack'[n] = stack[n]

StableInv == IInv /\ Settled(stack)

\* A token keeps the entries that its stack has in common with the one before.
LEMMA EmitStable ==
    ASSUME StableInv, NEW p \in Seq(Tag), saved' = Serialize(p), Len(p) <= CountMax,
           \A n \in 1..Len(stack) : n <= Len(p) => p[n] = stack[n]
    PROVE  Settled(stack') /\ Common
<1>1. stack' = Deserialize(Serialize(p))
  BY DEF stack
<1>2. stack \in Seq(Tag) /\ Settled(stack)
  BY DEF StableInv, IInv
<1>3. stack' \in Seq(Tag) /\ Len(stack') = Len(p)
  BY <1>1, RoundTrip
<1>4. \A n \in 1..Len(stack) : n <= Len(p) => stack'[n] = stack[n]
  <2> DEFINE r == stack'
             q == stack
  <2>1. r = Deserialize(Serialize(p)) /\ q \in Seq(Tag) /\ Settled(q)
    BY <1>1, <1>2
  <2>2. \A n \in 1..Len(q) : n <= Len(p) => p[n] = q[n]
    OBVIOUS
  <2> HIDE DEF r, q
  <2>3. \A n \in 1..Len(q) : n <= Len(p) => r[n] = q[n]
    BY <2>1, <2>2, CommonKept
  <2> QED
    BY <2>3 DEF r, q
<1>5. Settled(stack')
  BY <1>1, ReadBackSettled
<1> QED
  BY <1>2, <1>3, <1>4, <1>5 DEF Common

\* One entry less, one entry more.
LEMMA OneLess ==
    ASSUME NEW s \in Seq(Tag), s # << >>, NEW p, p = SubSeq(s, 1, Len(s) - 1)
    PROVE  p \in Seq(Tag) /\ Len(p) = Len(s) - 1 /\ \A n \in 1..Len(s) - 1 : p[n] = s[n]
<1>1. Len(s) \in Nat \ {0}
  OBVIOUS
<1>2. \A n \in 1..Len(s) - 1 : n \in 1..Len(s) /\ s[n] \in Tag
  BY <1>1
<1>3. Len(p) = Len(s) - 1 /\ p \in Seq(Tag)
  <2>1. Len(s) - 1 \in Nat
    BY <1>1
  <2>2. p = [n \in 1..Len(s) - 1 |-> s[n]]
    BY <1>1
  <2>3. p \in [1..Len(s) - 1 -> Tag]
    BY <1>2, <2>2
  <2> QED
    BY ONLY <2>1, <2>3
<1>4. \A n \in 1..Len(s) - 1 : p[n] = s[n]
  BY <1>1
<1> QED
  BY <1>3, <1>4

LEMMA OneMore ==
    ASSUME NEW s \in Seq(Tag), NEW t \in Tag, NEW p, p = Append(s, t)
    PROVE  p \in Seq(Tag) /\ Len(p) = Len(s) + 1 /\ \A n \in 1..Len(s) : p[n] = s[n]
OBVIOUS

\* The tokens that leave the scanner's stack as it is.
LEMMA StableSame ==
    ASSUME StableInv, saved' = Serialize(stack)
    PROVE  Settled(stack') /\ Common
BY EmitStable DEF StableInv, IInv, StackInStep

\* The tokens that end the innermost element.
LEMMA StablePopped ==
    ASSUME StableInv, stack # << >>, saved' = Serialize(Popped)
    PROVE  Settled(stack') /\ Common
<1>1. stack \in Seq(Tag) /\ Len(stack) \in Nat \ {0} /\ Len(stack) <= CountMax
  BY DEF StableInv, IInv, StackInStep
<1>2. Popped \in Seq(Tag) /\ Len(Popped) = Len(stack) - 1 /\ \A n \in 1..Len(stack) - 1 : Popped[n] = stack[n]
  BY ONLY <1>1, stack # << >>, OneLess DEF Popped
<1> QED
  BY <1>1, <1>2, EmitStable, LimitAssumption

\* The token that opens an element.
LEMMA StableOpened ==
    ASSUME StableInv, Len(open) < CountMax, NEW t \in Tag, saved' = Serialize(Append(stack, t))
    PROVE  Settled(stack') /\ Common
<1>1. stack \in Seq(Tag) /\ Len(stack) \in Nat /\ Len(stack) < CountMax
  BY DEF StableInv, IInv, StackInStep
<1> DEFINE p == Append(stack, t)
<1>2. p \in Seq(Tag) /\ Len(p) = Len(stack) + 1 /\ \A n \in 1..Len(stack) : p[n] = stack[n]
  BY ONLY <1>1, t \in Tag, OneMore
<1>3. saved' = Serialize(p) /\ Len(p) <= CountMax
  BY <1>1, <1>2, LimitAssumption
<1> HIDE DEF p
<1> QED
  BY <1>1, <1>2, <1>3, EmitStable

LEMMA StableStep ==
    ASSUME StableInv, [Next]_vars
    PROVE  Settled(stack') /\ Common
<1>1. CASE TextFragment
  BY <1>1, StableSame DEF TextFragment, Emit
<1>2. CASE InterpolationText
  BY <1>2, StableSame DEF InterpolationText, Emit
<1>3. CASE RawText
  BY <1>3, StableSame DEF RawText, Emit
<1>4. CASE Comment
  BY <1>4, StableSame DEF Comment, Emit
<1>5. CASE ImplicitEndTag
  <2>1. stack # << >>
    BY <1>5 DEF ImplicitEndTag, FindsImplicitEnd, ImplicitEnd
  <2> QED
    BY <1>5, <2>1, StablePopped DEF ImplicitEndTag, Emit
<1>6. CASE StartTagName
  <2>1. At(Here) \in Words
    BY <1>6 DEF StartTagName, FindsName, NameAt
  <2>2. TagFor(At(Here)) \in Tag
    BY <2>1 DEF Tag
  <2> QED
    BY <1>6, <2>2, StableOpened DEF StartTagName, Counted, Emit
<1>7. CASE SelfClosingTagDelimiter
  BY <1>7, StablePopped DEF SelfClosingTagDelimiter, Emit
<1>8. CASE EndTagName
  BY <1>8, StablePopped DEF EndTagName, Closes, Emit
<1>9. CASE ErroneousEndTagName
  BY <1>9, StableSame DEF ErroneousEndTagName, Emit
<1>10. ASSUME UNCHANGED saved PROVE Settled(stack') /\ Common
  <2>1. stack' = stack
    BY <1>10 DEF stack
  <2> QED
    BY <2>1 DEF StableInv, Common
<1>11. CASE LexTag \/ LexEndTag \/ LexBraces \/ LexBracesEnd \/ LexTagEnd \/ Accept \/ Reject
  BY <1>10, <1>11 DEF LexTag, LexEndTag, LexBraces, LexBracesEnd, LexTagEnd, Accept, Reject, Lexed
<1>12. CASE UNCHANGED vars
  BY <1>10, <1>12 DEF vars
<1> QED
  BY <1>1, <1>2, <1>3, <1>4, <1>5, <1>6, <1>7, <1>8, <1>9, <1>11, <1>12 DEF Next

LEMMA StableInvariance == Spec => []StableInv
<1>1. Init => StableInv
  <2> SUFFICES ASSUME Init PROVE Settled(stack)
    BY InitIInv DEF StableInv
  <2>1. stack = Deserialize(Serialize(<< >>)) /\ << >> \in Seq(Tag) /\ Len(<< >>) <= CountMax
    BY LimitAssumption DEF Init, stack
  <2> QED
    BY <2>1, ReadBackSettled
<1>2. StableInv /\ [Next]_vars => StableInv'
  <2> SUFFICES ASSUME StableInv, [Next]_vars PROVE StableInv'
    OBVIOUS
  <2>1. IInv'
    BY NextIInv DEF StableInv
  <2>2. Settled(stack')
    BY StableStep
  <2> QED
    BY <2>1, <2>2 DEF StableInv
<1> QED
  BY <1>1, <1>2, PTL DEF Spec

(***************************************************************************)
(* No token changes an entry that the scanner's stack keeps: serialize     *)
(* cuts a name and drops the ones that do not fit once, not at each token, *)
(* whatever the names and the size of the buffer.                          *)
(***************************************************************************)
THEOREM NothingShifts == Spec => StableBelow
<1>1. StableInv /\ [Next]_vars =>
          [\A n \in DOMAIN stack \cap DOMAIN stack' : stack'[n] = stack[n]]_vars
  BY StableStep DEF Common
<1> QED
  BY <1>1, StableInvariance, PTL DEF Spec, StableBelow

-----------------------------------------------------------------------------
(***************************************************************************)
(* Functions that are defined by recursion over arguments of a rank.       *)
(***************************************************************************)
\* A function that is defined in terms of its values at arguments of a lower
\* rank exists.
RecursiveIn(F, S, V, rank, N) ==
    /\ N \in Nat /\ V # {}
    /\ rank \in [S -> 0..N]
    /\ F \in [S \X [S -> V] -> V]
    /\ \A x \in S : \A g, h \in [S -> V] :
          (\A y \in S : rank[y] < rank[x] => g[y] = h[y]) => F[<<x, g>>] = F[<<x, h>>]

LEMMA RecursionByRank ==
    ASSUME NEW F, NEW S, NEW V, NEW rank, NEW N, RecursiveIn(F, S, V, rank, N)
    PROVE  \E f \in [S -> V] : \A x \in S : f[x] = F[<<x, f>>]
<1> USE DEF RecursiveIn
<1> DEFINE Defined(f, d) == \A x \in S : rank[x] < d => f[x] = F[<<x, f>>]
           T == {d \in 0..N + 1 : ~ \E f \in [S -> V] : Defined(f, d)}
<1>1. \A x \in S : rank[x] \in 0..N
  OBVIOUS
<1>2. T = {}
  <2> SUFFICES ASSUME T # {} PROVE FALSE
    OBVIOUS
  <2> T \subseteq Nat
    OBVIOUS
  <2> HIDE DEF T
  <2>1. PICK d \in T : \A e \in T : d <= e
    BY LeastNumber
  <2> USE DEF T
  <2>2. d # 0
    <3>1. PICK v \in V : TRUE
      OBVIOUS
    <3> DEFINE g == [x \in S |-> v]
    <3>2. g \in [S -> V]
      BY <3>1
    <3>3. Defined(g, 0)
      BY <1>1
    <3> HIDE DEF Defined, g
    <3>4. 0 \notin T
      BY <3>2, <3>3
    <3> QED
      BY <2>1, <3>4
  <2>3. d \in 1..N + 1 /\ d - 1 \in 0..N + 1
    BY <2>1, <2>2
  <2>4. PICK f \in [S -> V] : Defined(f, d - 1)
    <3> HIDE DEF Defined
    <3>1. d - 1 \notin T
      <4> HIDE DEF T
      <4> QED
        BY <2>1, <2>3
    <3> QED
      BY <2>3, <3>1
  <2> DEFINE g == [x \in S |-> IF rank[x] = d - 1 THEN F[<<x, f>>] ELSE f[x]]
  <2>5. \A x \in S : F[<<x, f>>] \in V /\ f[x] \in V
    OBVIOUS
  <2>6. g \in [S -> V]
    BY <2>5
  <2>7. \A x \in S : rank[x] < d - 1 => g[x] = f[x]
    BY <1>1, <2>3
  <2>8. \A x \in S : rank[x] = d - 1 => g[x] = F[<<x, f>>]
    BY <1>1, <2>3
  <2>9. ASSUME NEW x \in S, rank[x] < d PROVE F[<<x, g>>] = F[<<x, f>>]
    <3>1. \A y \in S : rank[y] < rank[x] => g[y] = f[y]
      BY <1>1, <2>3, <2>7, <2>9
    <3> HIDE DEF g
    <3> QED
      BY <2>6, <3>1
  <2>10. Defined(g, d)
    <3> SUFFICES ASSUME NEW x \in S, rank[x] < d PROVE g[x] = F[<<x, g>>]
      OBVIOUS
    <3>1. CASE rank[x] = d - 1
      <4> HIDE DEF g
      <4> QED
        BY <3>1, <2>8, <2>9
    <3>2. CASE rank[x] # d - 1
      <4>1. rank[x] < d - 1
        BY <1>1, <2>3, <3>2
      <4>2. f[x] = F[<<x, f>>]
        BY <2>4, <4>1
      <4> HIDE DEF g
      <4> QED
        BY <4>1, <4>2, <2>7, <2>9
    <3> QED
      BY <3>1, <3>2
  <2> QED
    <3> HIDE DEF g, Defined
    <3> QED
      BY <2>1, <2>6, <2>10
<1>3. PICK f \in [S -> V] : Defined(f, N + 1)
  <2>1. N + 1 \notin T /\ N + 1 \in 0..N + 1
    <3> HIDE DEF T
    <3> QED
      BY <1>2
  <2> HIDE DEF Defined
  <2> QED
    BY <2>1
<1>4. \A x \in S : rank[x] < N + 1
  BY <1>1
<1> QED
  BY <1>3, <1>4

\* What is true of an argument if it is of those of a lower rank is true of all.
LEMMA InductionByRank ==
    ASSUME NEW N \in Nat, NEW S, NEW T, NEW rank \in [S -> 0..N],
           \A x \in S : (\A y \in S : rank[y] < rank[x] => y \in T) => x \in T
    PROVE  \A x \in S : x \in T
<1> DEFINE D == {d \in 0..N : \E x \in S : rank[x] = d /\ x \notin T}
<1>1. \A x \in S : rank[x] \in 0..N
  OBVIOUS
<1> SUFFICES ASSUME D # {} PROVE FALSE
  BY <1>1
<1> D \subseteq Nat
  OBVIOUS
<1> HIDE DEF D
<1>2. PICK d \in D : \A e \in D : d <= e
  BY LeastNumber
<1>3. PICK x \in S : rank[x] = d /\ x \notin T
  BY <1>2 DEF D
<1>4. ASSUME NEW y \in S, rank[y] < rank[x] PROVE y \in T
  <2>1. rank[y] \notin D
    BY <1>1, <1>2, <1>3, <1>4
  <2> QED
    BY <1>1, <2>1 DEF D
<1> QED
  BY <1>3, <1>4

-----------------------------------------------------------------------------
(***************************************************************************)
(* The characters.                                                         *)
(***************************************************************************)
DocOK == Len(doc) \in Nat

\* A character other than "EOF" is in the file, and a word is no punctuation.
LEMMA AtFacts ==
    /\ \A n : At(n) # "EOF" => n \in 1..Len(doc)
    /\ \A n : At(n) \in Words => n \in 1..Len(doc)
    /\ \A n : NameAt(n) # "" => At(n) \in Words /\ NameAt(n) = At(n)
    /\ Words \cap (Space \cup {"<", ">", "/", "!", "-", "{", "}", "EOF", ""}) = {}
<1>1. TagNames \cap (Space \cup {"<", ">", "/", "!", "-", "{", "}", "EOF", ""}) = {}
  BY DEF TagNames, VoidTypes, NotInParagraphs, Space
<1>2. Words \cap (Space \cup {"<", ">", "/", "!", "-", "{", "}", "EOF", ""}) = {}
  BY <1>1, LetterAssumption DEF Words
<1>3. "EOF" \notin Words
  BY <1>2
<1> QED
  BY <1>2, <1>3 DEF At, NameAt

\* Where space ends.
LEMMA SpaceEnds ==
    ASSUME DocOK, NEW i \in Positions
    PROVE  /\ SkipSpace[i] \in i..Len(doc) + 1
           /\ SkipSpace[i] \in Positions
           /\ At(SkipSpace[i]) \notin Space
           /\ \A m \in i..SkipSpace[i] - 1 : At(m) \in Space
<1> DEFINE T == {j \in i..Len(doc) + 1 : At(j) \notin Space}
<1>1. Len(doc) \in Nat /\ i \in 1..Len(doc) + 1
  BY DEF DocOK, Positions
<1>2. At(Len(doc) + 1) \notin Space
  <2>1. At(Len(doc) + 1) = "EOF"
    BY <1>1 DEF At
  <2> QED
    BY <2>1 DEF Space
<1>3. T \subseteq Nat /\ Len(doc) + 1 \in T
  BY <1>1, <1>2
<1> HIDE DEF T
<1>4. PICK j \in T : \A m \in T : j <= m
  BY <1>3, LeastNumber
<1>5. j \in i..Len(doc) + 1 /\ At(j) \notin Space
  BY <1>4 DEF T
<1>6. \A m \in i..j - 1 : At(m) \in Space
  BY <1>1, <1>4, <1>5 DEF T
<1>7. SkipSpace[i] = CHOOSE q \in i..Len(doc) + 1 :
                         At(q) \notin Space /\ \A m \in i..q - 1 : At(m) \in Space
  BY DEF SkipSpace
<1>8. /\ SkipSpace[i] \in i..Len(doc) + 1
      /\ At(SkipSpace[i]) \notin Space /\ \A m \in i..SkipSpace[i] - 1 : At(m) \in Space
  BY <1>5, <1>6, <1>7
<1> QED
  BY <1>1, <1>8 DEF Positions

\* There is one place where it ends.
LEMMA SpaceEndsThere ==
    ASSUME DocOK, NEW i \in Positions, NEW q \in i..Len(doc) + 1,
           At(q) \notin Space, \A m \in i..q - 1 : At(m) \in Space
    PROVE  SkipSpace[i] = q
<1>1. Len(doc) \in Nat /\ i \in 1..Len(doc) + 1
  BY DEF DocOK, Positions
<1> DEFINE k == SkipSpace[i]
<1>2. /\ k \in i..Len(doc) + 1 /\ At(k) \notin Space
      /\ \A m \in i..k - 1 : At(m) \in Space
  BY SpaceEnds
<1> HIDE DEF k
<1>3. ~ (k < q) /\ ~ (q < k)
  BY <1>1, <1>2
<1>4. k = q
  BY <1>1, <1>2, <1>3
<1> QED
  BY <1>4 DEF k

\* There is none to skip.
LEMMA NoSpace ==
    ASSUME DocOK, NEW i \in Positions, At(i) \notin Space
    PROVE  SkipSpace[i] = i
<1>1. Len(doc) \in Nat /\ i \in 1..Len(doc) + 1
  BY DEF DocOK, Positions
<1>2. i \in i..Len(doc) + 1 /\ \A m \in i..i - 1 : At(m) \in Space
  BY <1>1
<1> QED
  BY <1>2, SpaceEndsThere

-----------------------------------------------------------------------------
(***************************************************************************)
(* The text that scan reads before a tag.                                  *)
(***************************************************************************)
\* What comes of the text.
TextOut  == {v \in [out : {"none", "text", "rest", "interpolation"}, at : Nat] :
                v.out # "none" => v.at \in Positions}
TextArgs == (1..Len(doc) + 2) \X BOOLEAN

\* A step comes to an end or goes on at a later character.
LEMMA TextStepForm ==
    ASSUME DocOK, NEW i \in 1..Len(doc) + 2, NEW once \in BOOLEAN
    PROVE  \/ \E v \in TextOut : \A f : TextStep(i, once, f) = v
           \/ \E y \in TextArgs : y[1] > i /\ \A f : TextStep(i, once, f) = f[y]
<1> DEFINE j == SkipSpace[i]
           Ends == \E v \in TextOut : \A f : TextStep(i, once, f) = v
           Goes_on == \E y \in TextArgs : y[1] > i /\ \A f : TextStep(i, once, f) = f[y]
<1> SUFFICES Ends \/ Goes_on
  OBVIOUS
<1>1. Len(doc) \in Nat
  BY DEF DocOK
<1>2. CASE i > Len(doc)
  <2>0. At(i) = "EOF"
    BY <1>1, <1>2 DEF At
  <2>1. \A f : TextStep(i, once, f) = [out |-> "none", at |-> i]
    BY <1>2, <2>0 DEF TextStep
  <2>2. [out |-> "none", at |-> i] \in TextOut
    BY <1>1 DEF TextOut
  <2> QED
    BY <2>1, <2>2
<1>3. CASE ~ (i > Len(doc))
  <2>1. i \in 1..Len(doc) /\ i \in Positions /\ i \in Nat
    BY <1>1, <1>3 DEF Positions
  <2>2. j \in Positions /\ j \in i..Len(doc) + 1 /\ At(j) \notin Space
    BY <2>1, SpaceEnds
  <2>3. j \in Nat /\ i + 1 \in Nat
    BY <1>1, <2>1, <2>2
  <2>4. ASSUME NEW m \in 1..Len(doc) + 2, NEW b \in BOOLEAN, m > i,
               \A f : TextStep(i, once, f) = f[<<m, b>>]
        PROVE  Goes_on
    <3>1. <<m, b>> \in TextArgs /\ <<m, b>>[1] = m
      BY DEF TextArgs
    <3> DEFINE y == <<m, b>>
    <3>2. y \in TextArgs /\ y[1] > i /\ \A f : TextStep(i, once, f) = f[y]
      BY <2>4, <3>1
    <3> HIDE DEF y
    <3> QED
      BY <3>2
  <2>14. /\ i + 1 \in 1..Len(doc) + 2 /\ i + 1 > i
         /\ i + 2 \in 1..Len(doc) + 2 /\ i + 2 > i
         /\ j \in 1..Len(doc) + 2
    BY <1>1, <2>1, <2>2
  <2>5. /\ [out |-> "text", at |-> i] \in TextOut
        /\ [out |-> "rest", at |-> i + 1] \in TextOut
        /\ [out |-> "rest", at |-> j] \in TextOut
        /\ [out |-> IF once THEN "interpolation" ELSE "none", at |-> i] \in TextOut
    BY <1>1, <2>1, <2>2, <2>3 DEF TextOut, Positions
  <2>15. ASSUME NEW v \in TextOut, \A f : TextStep(i, once, f) = v PROVE Ends
    BY <2>15
  <2>6. At(i) = "NL" => j > i
    <3>1. "NL" \in Space
      BY DEF Space
    <3> QED
      BY <1>1, <2>1, <2>2, <3>1
  <2> HIDE DEF j, Ends, Goes_on
  <2>7. CASE At(i) = "<"
    <3>1. \/ \A f : TextStep(i, once, f) = [out |-> "text", at |-> i]
          \/ \A f : TextStep(i, once, f) = [out |-> "rest", at |-> i + 1]
          \/ \A f : TextStep(i, once, f) = f[<<i + 1, TRUE>>]
      BY <1>3, <2>7 DEF TextStep
    <3> QED
      BY <2>4, <2>5, <2>14, <2>15, <3>1
  <2>8. CASE At(i) = "{"
    <3>1. \/ \A f : TextStep(i, once, f) = [out |-> "text", at |-> i]
          \/ \A f : TextStep(i, once, f) = [out |-> "rest", at |-> i + 1]
          \/ \A f : TextStep(i, once, f) = f[<<i + 1, TRUE>>]
      BY <1>3, <2>8 DEF TextStep
    <3> QED
      BY <2>4, <2>5, <2>14, <2>15, <3>1
  <2>9. CASE At(i) = "}" /\ mode = "interpolation"
    <3>1. \/ \A f : TextStep(i, once, f) = [out |-> IF once THEN "interpolation" ELSE "none", at |-> i]
          \/ \A f : TextStep(i, once, f) = f[<<i + 1, once>>]
      BY <1>3, <2>9 DEF TextStep
    <3> QED
      BY <2>4, <2>5, <2>14, <2>15, <3>1
  <2>10. CASE At(i) = "CR"
    <3>1. \/ \A f : TextStep(i, once, f) = f[<<i + 1, once>>]
          \/ \A f : TextStep(i, once, f) = f[<<i + 2, TRUE>>]
      BY <1>3, <2>10 DEF TextStep
    <3> QED
      BY <2>4, <2>5, <2>14, <2>15, <3>1
  <2>11. CASE At(i) = "NL" /\ mode = "content"
    <3>1. \/ \A f : TextStep(i, once, f) = [out |-> "text", at |-> i]
          \/ \A f : TextStep(i, once, f) = [out |-> "rest", at |-> j]
          \/ \A f : TextStep(i, once, f) = f[<<j, once>>]
      BY <1>3, <2>11 DEF TextStep, j
    <3> QED
      BY <2>4, <2>5, <2>6, <2>11, <2>14, <2>15, <3>1
  <2>12. CASE At(i) = "NL" /\ mode # "content"
    <3>1. \A f : TextStep(i, once, f) = f[<<i + 1, once>>]
      BY <1>3, <2>12 DEF TextStep
    <3> QED
      BY <2>4, <2>14, <3>1
  <2>13. CASE ~ (At(i) \in {"<", "{", "CR", "NL"} \/ (At(i) = "}" /\ mode = "interpolation"))
    <3>1. \A f : TextStep(i, once, f) = f[<<i + 1, TRUE>>]
      BY <1>3, <2>13 DEF TextStep
    <3> QED
      BY <2>4, <2>14, <3>1
  <2> QED
    BY <2>7, <2>8, <2>9, <2>10, <2>11, <2>12, <2>13
<1> QED
  BY <1>2, <1>3

\* The function over the text is what its definition says.
LEMMA TextUnfolds ==
    ASSUME DocOK
    PROVE  \A i \in 1..Len(doc) + 2, once \in BOOLEAN :
               TextFrom[<<i, once>>] = TextStep(i, once, TextFrom)
<1> DEFINE S == TextArgs
           V == TextOut
           rank == [x \in S |-> Len(doc) + 2 - x[1]]
           F == [q \in S \X [S -> V] |-> TextStep(q[1][1], q[1][2], q[2])]
<1>1. Len(doc) \in Nat
  BY DEF DocOK
<1>2. \A x \in S : x[1] \in 1..Len(doc) + 2 /\ x[2] \in BOOLEAN /\ x = <<x[1], x[2]>>
  BY DEF TextArgs
<1>3. rank \in [S -> 0..Len(doc) + 2]
  BY <1>1, <1>2
<1>4. V # {}
  <2>1. [out |-> "none", at |-> 0] \in V
    BY DEF TextOut
  <2> QED
    BY <2>1
<1>5. \A x \in S : \A f \in [S -> V] : F[<<x, f>>] = TextStep(x[1], x[2], f)
  OBVIOUS
<1>6. \A x \in S :
          \/ \E v \in V : \A f : TextStep(x[1], x[2], f) = v
          \/ \E y \in S : y[1] > x[1] /\ \A f : TextStep(x[1], x[2], f) = f[y]
  BY <1>2, TextStepForm
<1>7. \A x \in S : \A f \in [S -> V] : TextStep(x[1], x[2], f) \in V
  <2> HIDE DEF V, S, rank, F
  <2> QED
    BY <1>6
<1>8. F \in [S \X [S -> V] -> V]
  <2> HIDE DEF S, V
  <2> QED
    BY <1>7
<1>9. ASSUME NEW x \in S, NEW g \in [S -> V], NEW h \in [S -> V],
             \A y \in S : rank[y] < rank[x] => g[y] = h[y]
      PROVE  F[<<x, g>>] = F[<<x, h>>]
  <2>1. \A y \in S : y[1] > x[1] => g[y] = h[y]
    BY <1>1, <1>2, <1>9
  <2> HIDE DEF V, S, rank, F
  <2>2. TextStep(x[1], x[2], g) = TextStep(x[1], x[2], h)
    <3>1. CASE \E v \in V : \A f : TextStep(x[1], x[2], f) = v
      <4>1. PICK v \in V : \A f : TextStep(x[1], x[2], f) = v
        BY <3>1
      <4> QED
        BY <4>1
    <3>2. CASE \E y \in S : y[1] > x[1] /\ \A f : TextStep(x[1], x[2], f) = f[y]
      <4>1. PICK y \in S : y[1] > x[1] /\ \A f : TextStep(x[1], x[2], f) = f[y]
        BY <3>2
      <4> QED
        BY <2>1, <4>1
    <3> QED
      BY <1>6, <3>1, <3>2
  <2> QED
    BY <1>5, <2>2
<1>10. \E f \in [S -> V] : \A x \in S : f[x] = F[<<x, f>>]
  <2>1. Len(doc) + 2 \in Nat
    BY <1>1
  <2> HIDE DEF F, S, V, rank
  <2>2. \A x \in S : \A g, h \in [S -> V] :
            (\A y \in S : rank[y] < rank[x] => g[y] = h[y]) => F[<<x, g>>] = F[<<x, h>>]
    BY <1>9
  <2>3. RecursiveIn(F, S, V, rank, Len(doc) + 2)
    BY <1>3, <1>4, <1>8, <2>1, <2>2 DEF RecursiveIn
  <2> QED
    BY <2>3, RecursionByRank
<1>11. PICK f \in [S -> V] : \A x \in S : f[x] = TextStep(x[1], x[2], f)
  <2> HIDE DEF F, S, V
  <2> QED
    BY <1>5, <1>10
<1>12. f = [x \in S |-> TextStep(x[1], x[2], f)]
  <2> HIDE DEF S, V
  <2> QED
    BY <1>11
<1>13. TextFrom = CHOOSE g : g = [x \in S |-> TextStep(x[1], x[2], g)]
  BY DEF TextFrom, TextArgs
<1>14. TextFrom = [x \in S |-> TextStep(x[1], x[2], TextFrom)]
  <2> HIDE DEF S
  <2> QED
    BY <1>12, <1>13
<1>15. ASSUME NEW i \in 1..Len(doc) + 2, NEW once \in BOOLEAN
       PROVE  TextFrom[<<i, once>>] = TextStep(i, once, TextFrom)
  <2>1. <<i, once>> \in S
    BY DEF TextArgs
  <2> DEFINE x == <<i, once>>
  <2>2. TextFrom[x] = TextStep(x[1], x[2], TextFrom)
    <3> HIDE DEF S, x
    <3>1. x \in S
      BY <2>1 DEF x
    <3> QED
      BY <1>14, <3>1
  <2>3. x[1] = i /\ x[2] = once
    OBVIOUS
  <2> QED
    BY <2>2, <2>3
<1> QED
  BY <1>15

\* An argument of it.
LEMMA TextArg ==
    ASSUME NEW i \in 1..Len(doc) + 2, NEW once \in BOOLEAN
    PROVE  <<i, once>> \in TextArgs /\ <<i, once>>[1] = i
  BY DEF TextArgs

\* So every value of it is an outcome.
LEMMA TextSound ==
    ASSUME DocOK
    PROVE  \A x \in TextArgs : TextFrom[x] \in TextOut
<1> DEFINE rank == [x \in TextArgs |-> Len(doc) + 2 - x[1]]
           T == {x \in TextArgs : TextFrom[x] \in TextOut}
<1>1. Len(doc) + 2 \in Nat /\ Len(doc) \in Nat
  BY DEF DocOK
<1>2. \A x \in TextArgs : x[1] \in 1..Len(doc) + 2 /\ x[2] \in BOOLEAN /\ x = <<x[1], x[2]>>
  BY DEF TextArgs
<1>3. rank \in [TextArgs -> 0..Len(doc) + 2]
  BY <1>1, <1>2
<1>4. ASSUME NEW x \in TextArgs, \A y \in TextArgs : rank[y] < rank[x] => y \in T
      PROVE  x \in T
  <2>1. \A y \in TextArgs : y[1] > x[1] => TextFrom[y] \in TextOut
    BY <1>1, <1>2, <1>4
  <2>2. TextFrom[x] = TextStep(x[1], x[2], TextFrom)
    BY <1>2, TextUnfolds
  <2>3. TextFrom[x] \in TextOut
    <3>1. CASE \E v \in TextOut : \A f : TextStep(x[1], x[2], f) = v
      BY <2>2, <3>1
    <3>2. CASE \E y \in TextArgs : y[1] > x[1] /\ \A f : TextStep(x[1], x[2], f) = f[y]
      BY <2>1, <2>2, <3>2
    <3> QED
      BY <1>2, <3>1, <3>2, TextStepForm
  <2> QED
    BY <2>3
<1>5. \A x \in TextArgs : x \in T
  <2> HIDE DEF rank, T
  <2>1. \A x \in TextArgs : (\A y \in TextArgs : rank[y] < rank[x] => y \in T) => x \in T
    BY <1>4
  <2> QED
    BY ONLY <1>1, <1>3, <2>1, InductionByRank
<1> QED
  BY <1>5

\* scan returns a text, or goes on, within the file.
LEMMA TextEnds ==
    ASSUME DocOK, pos \in Positions
    PROVE  Text \in TextOut
<1>1. pos \in 1..Len(doc) + 2
  BY DEF DocOK, Positions
<1>2. \A b \in BOOLEAN : TextFrom[<<pos, b>>] \in TextOut
  BY <1>1, TextArg, TextSound
<1>3. FALSE \in BOOLEAN
  OBVIOUS
<1>4. TextFrom[<<pos, FALSE>>] \in TextOut
  BY ONLY <1>2, <1>3
<1> QED
  BY <1>4 DEF Text

\* Space before a tag is text, or is skipped up to the tag.
LEMMA TextToTag ==
    ASSUME DocOK, Plain, mode = "content", pos \in Positions,
           NEW q \in Positions, q > pos, \A m \in pos..q - 1 : At(m) \in Space,
           At(q) = "<", At(q + 1) \in Words
    PROVE  Text.out = "text" \/ (Text.out = "rest" /\ Text.at = q)
<1> DEFINE rank == [x \in TextArgs |-> Len(doc) + 2 - x[1]]
           Good(v) == v.out = "text" \/ (v.out = "rest" /\ v.at = q)
           T == {x \in TextArgs : x[1] \in pos..q - 1 => Good(TextFrom[x])}
<1>1. /\ Len(doc) + 2 \in Nat /\ Len(doc) \in Nat
      /\ pos \in 1..Len(doc) + 1 /\ q \in 1..Len(doc) + 1
  BY DEF DocOK, Positions
<1>2. \A x \in TextArgs : x[1] \in 1..Len(doc) + 2 /\ x[2] \in BOOLEAN /\ x = <<x[1], x[2]>>
  BY DEF TextArgs
<1>3. rank \in [TextArgs -> 0..Len(doc) + 2]
  BY <1>1, <1>2
<1>4. q \in 1..Len(doc)
  BY AtFacts
<1>5. Good(TextFrom[<<q, TRUE>>])
  <2>1. ~ (q > Len(doc)) /\ q \in 1..Len(doc) + 2
    BY <1>1, <1>4
  <2>2. ASSUME NEW b \in BOOLEAN, b PROVE Good(TextFrom[<<q, b>>])
    <3>1. TextFrom[<<q, b>>] = TextStep(q, b, TextFrom)
      BY <2>1, TextUnfolds
    <3>2. TextStep(q, b, TextFrom) = [out |-> "text", at |-> q]
      BY <2>1, <2>2 DEF TextStep
    <3>3. TextFrom[<<q, b>>].out = "text"
      BY <3>1, <3>2
    <3> QED
      BY <3>3
  <2>3. TRUE \in BOOLEAN
    OBVIOUS
  <2> HIDE DEF Good
  <2> QED
    BY ONLY <2>2, <2>3
<1>6. ASSUME NEW i \in pos..q - 1, NEW once \in BOOLEAN,
             \A m \in pos..q - 1, b \in BOOLEAN : m > i => Good(TextFrom[<<m, b>>])
      PROVE  Good(TextFrom[<<i, once>>])
  <2>1. i \in 1..Len(doc) /\ i \in Positions /\ i \in 1..Len(doc) + 2 /\ ~ (i > Len(doc))
    BY <1>1, <1>4 DEF Positions
  <2>2. TextFrom[<<i, once>>] = TextStep(i, once, TextFrom)
    BY <2>1, TextUnfolds
  <2>3. CASE At(i) = " "
    <3>1. TextStep(i, once, TextFrom) = TextFrom[<<i + 1, TRUE>>]
      BY <2>1, <2>3 DEF TextStep
    <3>2. CASE i + 1 = q
      <4>1. Good(TextFrom[<<i + 1, TRUE>>])
        BY <1>5, <3>2
      <4> HIDE DEF Good
      <4> QED
        BY <2>2, <3>1, <4>1
    <3>3. CASE i + 1 # q
      <4>1. i + 1 \in pos..q - 1 /\ i + 1 > i
        BY <1>1, <3>3
      <4> HIDE DEF Good
      <4> QED
        BY <1>6, <2>2, <3>1, <4>1
    <3> QED
      BY <3>2, <3>3
  <2>4. CASE At(i) = "CR"
    <3>1. At(i + 1) = "NL"
      BY <2>1, <2>4 DEF Plain
    <3>2. TextStep(i, once, TextFrom) = TextFrom[<<i + 1, once>>]
      BY <2>1, <2>4, <3>1 DEF TextStep
    <3>3. i + 1 # q
      BY <3>1
    <3>4. i + 1 \in pos..q - 1 /\ i + 1 > i
      BY <1>1, <3>3
    <3> HIDE DEF Good
    <3> QED
      BY <1>6, <2>2, <3>2, <3>4
  <2>5. CASE At(i) = "NL"
    <3>1. q \in i..Len(doc) + 1 /\ \A m \in i..q - 1 : At(m) \in Space
      BY <1>1
    <3>2. At(q) \notin Space
      BY DEF Space
    <3>3. SkipSpace[i] = q
      BY <2>1, <3>1, <3>2, SpaceEndsThere
    <3>4. TextStep(i, once, TextFrom)
              = IF once THEN [out |-> "text", at |-> i] ELSE [out |-> "rest", at |-> q]
      BY <2>1, <2>5, <3>3 DEF TextStep
    <3> DEFINE v == TextFrom[<<i, once>>]
    <3>5. v = [out |-> "text", at |-> i] \/ v = [out |-> "rest", at |-> q]
      BY <2>2, <3>4
    <3> HIDE DEF v
    <3>6. Good(v)
      BY <3>5
    <3> QED
      BY <3>6 DEF v
  <2>6. At(i) \in Space
    BY <1>1
  <2> QED
    BY <2>3, <2>4, <2>5, <2>6 DEF Space
<1>7. ASSUME NEW x \in TextArgs, \A y \in TextArgs : rank[y] < rank[x] => y \in T
      PROVE  x \in T
  <2> SUFFICES ASSUME x[1] \in pos..q - 1 PROVE Good(TextFrom[x])
    OBVIOUS
  <2>1. ASSUME NEW m \in pos..q - 1, NEW b \in BOOLEAN, m > x[1]
        PROVE  Good(TextFrom[<<m, b>>])
    <3>1. m \in 1..Len(doc) + 2
      BY <1>1
    <3>2. <<m, b>> \in TextArgs /\ <<m, b>>[1] = m
      BY <3>1 DEF TextArgs
    <3> DEFINE y == <<m, b>>
    <3>3. rank[y] < rank[x] /\ y[1] \in pos..q - 1
      BY <1>1, <1>2, <2>1, <3>1, <3>2
    <3> HIDE DEF y, Good, rank
    <3>4. y \in T
      BY <1>7, <3>2, <3>3 DEF y
    <3>5. Good(TextFrom[y])
      BY <3>3, <3>4
    <3> QED
      BY <3>5 DEF y
  <2> HIDE DEF Good, T, rank
  <2>2. Good(TextFrom[<<x[1], x[2]>>])
    BY <1>2, <1>6, <2>1
  <2> QED
    BY <1>2, <2>2
<1>8. \A x \in TextArgs : x \in T
  <2> HIDE DEF rank, T
  <2>1. \A x \in TextArgs : (\A y \in TextArgs : rank[y] < rank[x] => y \in T) => x \in T
    BY <1>7
  <2> QED
    BY ONLY <1>1, <1>3, <2>1, InductionByRank
<1>9. ASSUME NEW b \in BOOLEAN PROVE Good(TextFrom[<<pos, b>>])
  <2> DEFINE y == <<pos, b>>
  <2>1. y \in TextArgs /\ y[1] \in pos..q - 1
    <3>1. pos \in 1..Len(doc) + 2 /\ pos \in pos..q - 1
      BY <1>1
    <3> QED
      BY <3>1, TextArg
  <2> HIDE DEF y, Good
  <2>2. Good(TextFrom[y])
    BY <1>8, <2>1
  <2> QED
    BY <2>2 DEF y
<1>10. Good(TextFrom[<<pos, FALSE>>])
  <2>1. FALSE \in BOOLEAN
    OBVIOUS
  <2> HIDE DEF Good
  <2> QED
    BY ONLY <1>9, <2>1
<1> QED
  BY <1>10 DEF Text

-----------------------------------------------------------------------------
(***************************************************************************)
(* The text of a script or style.                                          *)
(***************************************************************************)
\* scan_raw_text looks for the end of this element, of which begun characters
\* are at m.
RawName == IF parent.type = "SCRIPT" THEN "SCRIPT" ELSE "STYLE"

Begun(m) == IF At(m) # "<" THEN 0 ELSE IF At(m + 1) # "/" THEN 1
            ELSE IF Opens(RawName, At(m + 2)) THEN 3 ELSE 2

RawStopsAt(m) == (Begun(m) >= 2 /\ Opens(At(m + 2), RawName)) \/ m + Begun(m) > Len(doc)

\* What the characters that were begun with are.
LEMMA BegunFacts ==
    ASSUME DocOK, NEW m \in Positions
    PROVE  /\ Begun(m) \in 0..3
           /\ Begun(m) >= 1 => At(m) = "<"
           /\ Begun(m) >= 2 => At(m + 1) = "/"
           /\ Begun(m) = 3 => Opens(RawName, At(m + 2))
           /\ At(m) = "<" /\ At(m + 1) = "/" => Begun(m) >= 2
           /\ ~ RawStopsAt(m) => m + Begun(m) + 1 \in Positions /\ m + Begun(m) + 1 > m
<1>1. m \in 1..Len(doc) + 1 /\ Len(doc) \in Nat
  BY DEF DocOK, Positions
<1>2. /\ Begun(m) \in 0..3
      /\ Begun(m) >= 1 => At(m) = "<"
      /\ Begun(m) >= 2 => At(m + 1) = "/"
      /\ Begun(m) = 3 => Opens(RawName, At(m + 2))
      /\ At(m) = "<" /\ At(m + 1) = "/" => Begun(m) >= 2
  BY DEF Begun
<1>3. ~ RawStopsAt(m) => m + Begun(m) + 1 \in Positions /\ m + Begun(m) + 1 > m
  BY <1>1, <1>2 DEF RawStopsAt, Positions
<1> QED
  BY <1>2, <1>3

\* The function over raw text is what its definition says.
LEMMA RawUnfolds ==
    ASSUME DocOK, NEW i \in Positions
    PROVE  RawEnd[i] = IF RawStopsAt(i) THEN i ELSE RawEnd[i + Begun(i) + 1]
<1> DEFINE S == Positions
           Step(m, f) == IF RawStopsAt(m) THEN m ELSE f[m + Begun(m) + 1]
           rank == [m \in S |-> Len(doc) + 1 - m]
           F == [q \in S \X [S -> S] |-> Step(q[1], q[2])]
<1>1. Len(doc) \in Nat /\ Len(doc) + 1 \in Nat /\ S = 1..Len(doc) + 1
  BY DEF DocOK, Positions
<1>2. rank \in [S -> 0..Len(doc) + 1] /\ S # {}
  BY <1>1
<1>3. \A m \in S : \A f \in [S -> S] : F[<<m, f>>] = Step(m, f)
  OBVIOUS
<1>4. \A m \in S : ~ RawStopsAt(m) => m + Begun(m) + 1 \in S /\ m + Begun(m) + 1 > m
  BY BegunFacts
<1>5. \A m \in S : \A f \in [S -> S] : Step(m, f) \in S
  <2> HIDE DEF S
  <2> QED
    BY <1>4
<1>6. F \in [S \X [S -> S] -> S]
  <2> HIDE DEF S, Step
  <2> QED
    BY <1>5
<1>7. ASSUME NEW m \in S, NEW g \in [S -> S], NEW h \in [S -> S],
             \A y \in S : rank[y] < rank[m] => g[y] = h[y]
      PROVE  F[<<m, g>>] = F[<<m, h>>]
  <2>1. ~ RawStopsAt(m) => rank[m + Begun(m) + 1] < rank[m]
    <3> SUFFICES ASSUME ~ RawStopsAt(m) PROVE rank[m + Begun(m) + 1] < rank[m]
      OBVIOUS
    <3> DEFINE k == m + Begun(m) + 1
    <3>1. k \in S /\ k > m
      BY <1>4
    <3> HIDE DEF k
    <3>2. rank[k] < rank[m]
      BY <1>1, <3>1
    <3> QED
      BY <3>2 DEF k
  <2>2. Step(m, g) = Step(m, h)
    <3> HIDE DEF rank, F, S
    <3> QED
      BY <1>4, <1>7, <2>1
  <2> HIDE DEF F, Step, S
  <2> QED
    BY <1>3, <2>2
<1>8. RecursiveIn(F, S, S, rank, Len(doc) + 1)
  <2> HIDE DEF F, S, rank
  <2>1. \A x \in S : \A g, h \in [S -> S] :
            (\A y \in S : rank[y] < rank[x] => g[y] = h[y]) => F[<<x, g>>] = F[<<x, h>>]
    BY <1>7
  <2> QED
    BY <1>1, <1>2, <1>6, <2>1 DEF RecursiveIn
<1>9. PICK f \in [S -> S] : \A m \in S : f[m] = Step(m, f)
  <2> HIDE DEF F, S, rank, Step
  <2>1. \E f \in [S -> S] : \A m \in S : f[m] = F[<<m, f>>]
    BY <1>8, RecursionByRank
  <2> QED
    BY <1>3, <2>1
<1>10. f = [m \in S |-> Step(m, f)]
  <2> HIDE DEF S, Step
  <2> QED
    BY <1>9
<1>11. RawEnd = CHOOSE g : g = [m \in S |-> Step(m, g)]
  BY DEF RawEnd, RawStopsAt, Begun, RawName
<1>12. RawEnd = [m \in S |-> Step(m, RawEnd)]
  <2> HIDE DEF S, Step
  <2> QED
    BY <1>10, <1>11
<1> QED
  BY <1>12

\* Text that is not the start of a closing tag is skipped.
Delimiter(n) == At(n) = "<" /\ At(n + 1) = "/" /\ Opens(At(n + 2), RawName)

RawUpTo(m, e) ==
    /\ e \in m..Len(doc) + 1
    /\ \/ Delimits(e)
       \/ At(e) = "EOF"
       \/ At(e) = "<" /\ Len(doc) - e + 1 <= 3 /\ FalseStart(Len(doc))
    /\ \A n \in m..e - 1 : Delimiter(n) => n > m /\ FalseStart(n - 1)

\* Where it stops, nothing is skipped.
LEMMA RawStops ==
    ASSUME DocOK, NEW m \in Positions, RawStopsAt(m)
    PROVE  RawUpTo(m, m)
<1> DEFINE l == Len(doc)
<1>1. m \in 1..l + 1 /\ l \in Nat
  BY DEF DocOK, Positions
<1>2. RawName \in {"SCRIPT", "STYLE"}
  BY DEF RawName
<1>3. m \in m..l + 1 /\ m..m - 1 = {}
  BY <1>1
<1>4. CASE Begun(m) >= 2 /\ Opens(At(m + 2), RawName)
  <2>1. At(m) = "<" /\ At(m + 1) = "/"
    BY <1>4, BegunFacts
  <2>2. Delimits(m)
    BY <1>2, <1>4, <2>1 DEF Delimits
  <2> QED
    BY <1>3, <2>2 DEF RawUpTo
<1>5. CASE m + Begun(m) > l
  <2>0. Begun(m) \in {0, 1, 2, 3}
    BY BegunFacts
  <2>1. CASE Begun(m) = 0
    <3>1. At(m) = "EOF"
      BY <1>1, <1>5, <2>1 DEF At
    <3> QED
      BY <1>3, <3>1 DEF RawUpTo
  <2>2. ASSUME Begun(m) >= 1, FalseStart(l), l - m + 1 <= 3 PROVE RawUpTo(m, m)
    <3>1. At(m) = "<"
      BY <2>2, BegunFacts
    <3> QED
      BY <1>3, <2>2, <3>1 DEF RawUpTo
  <2>3. CASE Begun(m) = 1
    <3>1. At(m) = "<"
      BY <2>3, BegunFacts
    <3>2. m \in 1..l
      BY <3>1, AtFacts
    <3>3. l = m
      BY <1>1, <1>5, <2>3, <3>2
    <3> QED
      BY <1>1, <2>2, <2>3, <3>1, <3>3 DEF FalseStart
  <2>4. CASE Begun(m) = 2 \/ (Begun(m) = 3 /\ m + 2 > l)
    <3>1. At(m) = "<" /\ At(m + 1) = "/"
      BY <2>4, BegunFacts
    <3>2. m + 1 \in 1..l
      BY <3>1, AtFacts
    <3>3. l = m + 1 /\ l - 1 = m
      BY <1>1, <1>5, <2>4, <3>2
    <3>4. FalseStart(l)
      BY <3>1, <3>3 DEF FalseStart
    <3> QED
      BY <1>1, <2>2, <2>4, <3>3, <3>4
  <2>5. CASE Begun(m) = 3 /\ ~ (m + 2 > l)
    <3>1. At(m) = "<" /\ At(m + 1) = "/" /\ Opens(RawName, At(m + 2))
      BY <2>5, BegunFacts
    <3>2. l = m + 2 /\ l - 1 = m + 1 /\ l - 2 = m
      BY <1>1, <1>5, <2>5
    <3>3. FalseStart(l)
      BY <1>2, <3>1, <3>2 DEF FalseStart
    <3> QED
      BY <1>1, <2>2, <2>5, <3>2, <3>3
  <2> QED
    BY <2>0, <2>1, <2>3, <2>4, <2>5
<1> QED
  BY <1>4, <1>5 DEF RawStopsAt

\* Where it goes on, what it skips hides a closing tag only behind a false start.
LEMMA RawGoesOn ==
    ASSUME DocOK, NEW m \in Positions, ~ RawStopsAt(m),
           NEW e, RawUpTo(m + Begun(m) + 1, e)
    PROVE  RawUpTo(m, e)
<1> DEFINE k == m + Begun(m) + 1
<1>1. m \in 1..Len(doc) + 1 /\ Len(doc) \in Nat
  BY DEF DocOK, Positions
<1>2. RawName \in {"SCRIPT", "STYLE"}
  BY DEF RawName
<1>3. k \in Positions /\ k > m /\ k \in 1..Len(doc) + 1 /\ Begun(m) \in {0, 1, 2, 3}
  BY BegunFacts DEF Positions
<1>4. e \in k..Len(doc) + 1 /\ \A n \in k..e - 1 : Delimiter(n) => n > k /\ FalseStart(n - 1)
  BY DEF RawUpTo
<1>5. ASSUME NEW n \in m..e - 1, Delimiter(n)
      PROVE  n > m /\ FalseStart(n - 1)
  <2>1. CASE n >= k
    <3>1. n \in k..e - 1
      BY <1>1, <1>3, <1>4, <2>1
    <3>2. n > k /\ FalseStart(n - 1)
      BY <1>4, <1>5, <3>1
    <3> QED
      BY <1>1, <1>3, <3>1, <3>2
  <2>2. CASE n < k
    <3>1. n \in {m, m + 1, m + 2, m + 3} /\ n - m <= Begun(m)
      BY <1>1, <1>3, <2>2
    <3>2. CASE n = m
      <4>1. Begun(m) >= 2 /\ Opens(At(m + 2), RawName)
        BY <1>5, <3>2, BegunFacts DEF Delimiter
      <4> QED
        BY <4>1 DEF RawStopsAt
    <3>3. CASE n = m + 1
      <4>1. n - 1 = m /\ Begun(m) >= 1
        BY <1>1, <1>3, <3>1, <3>3
      <4>2. At(m) = "<"
        BY <4>1, BegunFacts
      <4> QED
        BY <1>1, <3>3, <4>1, <4>2 DEF FalseStart
    <3>4. CASE n = m + 2
      <4>1. n - 1 = m + 1 /\ (n - 1) - 1 = m /\ Begun(m) >= 2
        BY <1>1, <1>3, <3>1, <3>4
      <4>2. Begun(m) >= 1
        BY <1>3, <4>1
      <4>3. At(m) = "<" /\ At(m + 1) = "/"
        BY <4>1, <4>2, BegunFacts
      <4>4. FalseStart(n - 1)
        BY <4>1, <4>3 DEF FalseStart
      <4> QED
        BY <1>1, <3>4, <4>4
    <3>5. CASE n = m + 3
      <4>1. n - 1 = m + 2 /\ (n - 1) - 1 = m + 1 /\ (n - 1) - 2 = m /\ Begun(m) = 3
        BY <1>1, <1>3, <3>1, <3>5
      <4>2. Begun(m) >= 1 /\ Begun(m) >= 2
        BY <4>1
      <4>3. At(m) = "<" /\ At(m + 1) = "/" /\ Opens(RawName, At(m + 2))
        BY <4>1, <4>2, BegunFacts
      <4>4. FalseStart(n - 1)
        BY <1>2, <4>1, <4>3 DEF FalseStart
      <4> QED
        BY <1>1, <3>5, <4>4
    <3> QED
      BY <3>1, <3>2, <3>3, <3>4, <3>5
  <2> QED
    BY <1>1, <1>3, <2>1, <2>2
<1>6. e \in m..Len(doc) + 1
  BY <1>1, <1>3, <1>4
<1> QED
  BY <1>5, <1>6 DEF RawUpTo

\* So does the whole function.
LEMMA RawLands ==
    ASSUME DocOK
    PROVE  \A m \in Positions : RawUpTo(m, RawEnd[m])
<1> DEFINE rank == [m \in Positions |-> Len(doc) + 1 - m]
           T == {m \in Positions : RawUpTo(m, RawEnd[m])}
<1>1. Len(doc) \in Nat /\ Len(doc) + 1 \in Nat /\ Positions = 1..Len(doc) + 1
  BY DEF DocOK, Positions
<1>2. rank \in [Positions -> 0..Len(doc) + 1]
  BY <1>1
<1>3. ASSUME NEW m \in Positions, \A y \in Positions : rank[y] < rank[m] => y \in T
      PROVE  m \in T
  <2>1. CASE RawStopsAt(m)
    <3>1. RawEnd[m] = m
      BY <2>1, RawUnfolds
    <3> QED
      BY <2>1, <3>1, RawStops
  <2>2. CASE ~ RawStopsAt(m)
    <3> DEFINE k == m + Begun(m) + 1
    <3>1. k \in Positions /\ k > m /\ RawEnd[m] = RawEnd[k]
      BY <2>2, BegunFacts, RawUnfolds
    <3>2. rank[k] < rank[m]
      <4> HIDE DEF k
      <4> QED
        BY <1>1, <3>1
    <3>3. RawUpTo(k, RawEnd[k])
      <4> HIDE DEF k, rank
      <4> QED
        BY <1>3, <3>1, <3>2
    <3>4. RawUpTo(m, RawEnd[k])
      BY <2>2, <3>3, RawGoesOn
    <3> QED
      BY <3>1, <3>4
  <2> QED
    BY <2>1, <2>2
<1>4. \A m \in Positions : m \in T
  <2> HIDE DEF rank, T
  <2>1. \A x \in Positions : (\A y \in Positions : rank[y] < rank[x] => y \in T) => x \in T
    BY <1>3
  <2>2. Len(doc) + 1 \in Nat
    BY <1>1
  <2> QED
    BY ONLY <1>2, <2>1, <2>2, InductionByRank
<1> QED
  BY <1>4

-----------------------------------------------------------------------------
(***************************************************************************)
(* The tokens lie in the file.                                             *)
(***************************************************************************)
\* The operators on the file depend on the file only.
LEMMA SameDoc ==
    ASSUME doc' = doc
    PROVE  /\ Positions' = Positions /\ SkipSpace' = SkipSpace
           /\ \A n : At(n)' = At(n) /\ NameAt(n)' = NameAt(n)
           /\ \A n : (Delimits(n)' <=> Delimits(n)) /\ (FalseStart(n)' <=> FalseStart(n))
           /\ Plain' <=> Plain
  BY DEF Positions, SkipSpace, At, NameAt, Delimits, FalseStart, Plain

InFile == DocOK /\ pos \in Positions

\* Where scan goes on after the text.
LEMMA HereFacts ==
    ASSUME InFile, Goes
    PROVE  /\ Resumed \in Positions /\ Here \in Positions
           /\ Here = SkipSpace[Resumed] /\ At(Here) \notin Space
           /\ ~ TextTried => Resumed = pos
<1>1. Resumed \in Positions
  <2>1. CASE TextTried
    <3>1. Text.out = "rest" /\ Text \in TextOut
      BY <2>1, TextEnds DEF Goes, InFile
    <3> QED
      BY <2>1, <3>1 DEF Resumed, TextOut
  <2>2. CASE ~ TextTried
    BY <2>2 DEF Resumed, InFile
  <2> QED
    BY <2>1, <2>2
<1> QED
  BY <1>1, SpaceEnds DEF Here, InFile, Resumed

\* A comment ends in the file.
LEMMA CommentEnds ==
    ASSUME DocOK, NEW i \in Nat, CommentEnd(i) # 0
    PROVE  CommentEnd(i) \in Positions
<1> DEFINE ends == {m \in i + 4..Len(doc) : At(m) = ">" /\ At(m - 1) = "-" /\ At(m - 2) = "-"}
<1>1. ends # {} /\ CommentEnd(i) = 1 + (CHOOSE m \in ends : \A k \in ends : m <= k)
  BY DEF CommentEnd
<1>2. ends \subseteq Nat /\ \A m \in ends : 1 + m \in Positions
  BY DEF DocOK, Positions
<1> HIDE DEF ends
<1>3. \E m \in ends : \A k \in ends : m <= k
  BY <1>1, <1>2, LeastNumber
<1> QED
  BY <1>1, <1>2, <1>3

\* A token of the scanner and the characters it has looked at end in the file.
LEMMA EmittedInFile ==
    ASSUME InFile, NEW symbol, NEW end \in Positions, NEW s, Emit(symbol, end, s)
    PROVE  InFile' /\ doc' = doc
<1>1. doc' = doc /\ pos' = end
  BY DEF Emit
<1> QED
  BY <1>1, SameDoc DEF InFile, DocOK

\* So does a token of the lexer.
LEMMA LexedInFile ==
    ASSUME InFile, NEW n, NEW m, Lexed(n, m), SkipSpace[pos] + n \in Positions
    PROVE  InFile' /\ doc' = doc
<1>1. doc' = doc /\ pos' = SkipSpace[pos] + n
  BY DEF Lexed
<1> QED
  BY <1>1, SameDoc DEF InFile, DocOK

\* What a character is, is in the file.
LEMMA Behind ==
    ASSUME DocOK, NEW i, At(i) # "EOF"
    PROVE  i \in Nat /\ i \in Positions /\ i + 1 \in Positions
<1>1. i \in 1..Len(doc) /\ Len(doc) \in Nat
  BY AtFacts DEF DocOK
<1> QED
  BY <1>1 DEF Positions

\* All of them.
LEMMA InFileStep ==
    ASSUME InFile, [Next]_vars
    PROVE  InFile' /\ doc' = doc
<1>1. CASE TextFragment
  <2>1. Text.at \in Positions
    BY <1>1, TextEnds DEF TextFragment, InFile, TextOut
  <2> QED
    BY <1>1, <2>1, EmittedInFile DEF TextFragment
<1>2. CASE InterpolationText
  <2>1. Text.at \in Positions
    BY <1>2, TextEnds DEF InterpolationText, InFile, TextOut
  <2> QED
    BY <1>2, <2>1, EmittedInFile DEF InterpolationText
<1>3. CASE RawText
  <2>1. Resumed \in Positions
    BY <1>3, HereFacts DEF RawText
  <2>2. RawUpTo(Resumed, RawEnd[Resumed])
    BY <2>1, RawLands DEF InFile
  <2>3. RawEnd[Resumed] \in Positions
    BY <2>1, <2>2 DEF RawUpTo, InFile, DocOK, Positions
  <2> QED
    BY <1>3, <2>3, EmittedInFile DEF RawText
<1>4. CASE Comment
  <2>1. Here \in Positions
    BY <1>4, HereFacts DEF Comment
  <2>2. Here + 2 \in Nat
    BY <2>1 DEF InFile, DocOK, Positions
  <2>3. CommentEnd(Here + 2) \in Positions
    BY <1>4, <2>2, CommentEnds DEF Comment, InFile
  <2> QED
    BY <1>4, <2>3, EmittedInFile DEF Comment
<1>5. CASE ImplicitEndTag
  <2>1. Here \in Positions
    BY <1>5, HereFacts DEF ImplicitEndTag
  <2> QED
    BY <1>5, <2>1, EmittedInFile DEF ImplicitEndTag
<1>6. ASSUME Goes, FindsName PROVE Here + 1 \in Positions
  <2>1. At(Here) # "EOF"
    BY <1>6, AtFacts DEF FindsName
  <2> QED
    BY <2>1, Behind DEF InFile
<1>7. CASE StartTagName
  <2>1. Here + 1 \in Positions
    BY <1>6, <1>7 DEF StartTagName
  <2> QED
    BY <1>7, <2>1, EmittedInFile DEF StartTagName
<1>8. CASE SelfClosingTagDelimiter
  <2>1. Here \in Positions
    BY <1>8, HereFacts DEF SelfClosingTagDelimiter
  <2>2. At(Here + 1) # "EOF"
    BY <1>8 DEF SelfClosingTagDelimiter, FindsDelimiter
  <2>3. (Here + 1) + 1 \in Positions
    BY <2>2, Behind DEF InFile
  <2>4. Here + 2 \in Positions
    BY <2>1, <2>3 DEF InFile, DocOK, Positions
  <2> QED
    BY <1>8, <2>4, EmittedInFile DEF SelfClosingTagDelimiter
<1>9. CASE EndTagName
  <2>1. Here + 1 \in Positions
    BY <1>6, <1>9 DEF EndTagName
  <2> QED
    BY <1>9, <2>1, EmittedInFile DEF EndTagName
<1>10. CASE ErroneousEndTagName
  <2>1. Here + 1 \in Positions
    BY <1>6, <1>10 DEF ErroneousEndTagName
  <2> QED
    BY <1>10, <2>1, EmittedInFile DEF ErroneousEndTagName
<1> DEFINE k == SkipSpace[pos]
<1>11. k \in Positions /\ k \in Nat /\ k + 0 \in Positions
  BY SpaceEnds DEF InFile, DocOK, Positions
<1>12. At(k) # "EOF" => k + 1 \in Positions
  BY Behind DEF InFile
<1>13. At(k + 1) # "EOF" => k + 2 \in Positions
  <2>1. At(k + 1) # "EOF" => (k + 1) + 1 \in Positions
    BY Behind DEF InFile
  <2> QED
    BY <1>11, <2>1 DEF InFile, DocOK, Positions
<1> HIDE DEF k
<1>14. ASSUME NEW n \in Nat, NEW m, Lexed(n, m), k + n \in Positions PROVE InFile' /\ doc' = doc
  BY <1>14, LexedInFile DEF k
<1>15. CASE LexTag
  BY <1>12, <1>14, <1>15 DEF LexTag, StartsTag, Next1, k
<1>16. CASE LexEndTag
  BY <1>13, <1>14, <1>16 DEF LexEndTag, StartsEndTag, Next2, k
<1>17. CASE LexBraces
  BY <1>13, <1>14, <1>17 DEF LexBraces, StartsBraces, Next2, k
<1>18. CASE LexBracesEnd
  BY <1>13, <1>14, <1>18 DEF LexBracesEnd, EndsBraces, Next2, k
<1>19. CASE LexTagEnd
  BY <1>12, <1>14, <1>19 DEF LexTagEnd, EndsTag, Next1, k
<1>20. CASE Accept \/ Reject
  BY <1>11, <1>14, <1>20 DEF Accept, Reject
<1>21. CASE UNCHANGED vars
  <2>1. doc' = doc /\ pos' = pos
    BY <1>21 DEF vars
  <2> QED
    BY <2>1, SameDoc DEF InFile, DocOK
<1> QED
  BY <1>1, <1>2, <1>3, <1>4, <1>5, <1>7, <1>8, <1>9, <1>10, <1>15, <1>16, <1>17, <1>18, <1>19,
     <1>20, <1>21 DEF Next

-----------------------------------------------------------------------------
(***************************************************************************)
(* The implicit end tags before a closing tag.                             *)
(***************************************************************************)
\* A closing tag of name w has one of the elements s to end, if the name is one
\* of HTML's.
Sought(w, s) ==
    \/ w = "EOF"
    \/ /\ w \in Words
       /\ w \in TagNames => \E m \in 1..Len(s) : s[m].type = w

\* After an implicit end tag.
EndSought ==
    token.symbol = "IMPLICIT_END_TAG" =>
        /\ mode \in {"content", "open", "close", "accepted", "rejected"}
        /\ mode = "content" => /\ At(pos) \in {"<", "EOF"}
                               /\ At(pos) = "<" /\ At(pos + 1) = "/" => Sought(At(pos + 2), stack)
        /\ NoWastedClosing

\* A name of HTML's is its type.
LEMMA TagOfName ==
    ASSUME NEW w \in TagNames
    PROVE  TagFor(w).type = w /\ w # "CUSTOM"
<1>1. "CUSTOM" \notin TagNames
  BY DEF TagNames, VoidTypes, NotInParagraphs
<1> QED
  BY <1>1 DEF TagFor

\* What the parser takes in its modes.
LEMMA ValidFacts ==
    /\ "IMPLICIT_END_TAG" \in Valid => mode = "content" /\ InElement
    /\ mode = "content" /\ InElement => "IMPLICIT_END_TAG" \in Valid
    /\ "START_TAG_NAME" \in Valid => mode = "open"
    /\ "END_TAG_NAME" \in Valid => mode = "close"
    /\ "SELF_CLOSING_TAG_DELIMITER" \in Valid => mode = "tag"
<1>1. CASE mode = "content"
  BY <1>1 DEF Valid
<1>2. CASE mode = "open"
  BY <1>2 DEF Valid
<1>3. CASE mode = "tag"
  BY <1>3 DEF Valid
<1>4. CASE mode = "close"
  BY <1>4 DEF Valid
<1>5. CASE mode \in {"raw", "interpolation"}
  BY <1>5 DEF Valid
<1>6. CASE mode \notin {"content", "open", "tag", "raw", "close", "interpolation"}
  BY <1>6 DEF Valid
<1> QED
  BY <1>1, <1>2, <1>3, <1>4, <1>5, <1>6

\* An implicit end tag before a closing tag leaves the element that it seeks.
LEMMA EndTagSeeks ==
    ASSUME StableInv, InFile, ImplicitEndTag
    PROVE  EndSought'
<1>1. Here \in Positions /\ At(Here) \notin Space
  BY HereFacts DEF ImplicitEndTag
<1>2. /\ doc' = doc /\ pos' = Here /\ mode' = mode /\ mode = "content" /\ saved' = Serialize(Popped)
      /\ At(Here) \in {"<", "EOF"} /\ stack # << >> /\ ImplicitEnd(Tagged)
  BY ValidFacts DEF ImplicitEndTag, Emit, FindsImplicitEnd, ImplicitEnd
<1>3. /\ stack \in Seq(Tag) /\ Len(stack) \in Nat \ {0} /\ Len(stack) <= CountMax
  BY <1>2 DEF StableInv, IInv, StackInStep
<1>4. /\ Popped \in Seq(Tag) /\ Len(Popped) = Len(stack) - 1
      /\ stack' = Deserialize(Serialize(Popped)) /\ Common
  <2>1. Popped \in Seq(Tag) /\ Len(Popped) = Len(stack) - 1
    BY ONLY <1>3, OneLess, stack # << >>, <1>2 DEF Popped
  <2>2. Common
    BY <1>2, StablePopped
  <2>3. stack' = Deserialize(Serialize(Popped))
    BY <1>2 DEF stack
  <2> QED
    BY <2>1, <2>2, <2>3
<1>5. stack' \in Seq(Tag) /\ Len(stack') = Len(stack) - 1
  <2>1. Len(Popped) <= CountMax
    BY <1>3, <1>4, LimitAssumption
  <2> QED
    BY ONLY <1>4, <2>1, RoundTrip
<1>6. \A m \in 1..Len(stack) - 1 : m \in 1..Len(stack') /\ stack'[m] = stack[m]
  BY <1>3, <1>4, <1>5 DEF Common
<1>7. ASSUME At(Here) = "<", At(Here + 1) = "/" PROVE Sought(At(Here + 2), stack')
  <2>1. Tagged = Here + 1 /\ (Here + 1) + 1 = Here + 2
    BY <1>1, <1>7 DEF Tagged, InFile, DocOK, Positions
  <2> DEFINE n == Here + 2
             next == TagFor(NameAt(n))
  <2>2. /\ NameAt(n) # "" \/ At(n) = "EOF"
        /\ ~ SameTag(parent, next)
        /\ \E m \in 1..Len(stack) : stack[m].type = next.type
    BY <1>2, <1>7, <2>1 DEF ImplicitEnd
  <2>3. CASE At(n) = "EOF"
    BY <2>3 DEF Sought
  <2>4. CASE NameAt(n) # ""
    <3>1. At(n) \in Words /\ NameAt(n) = At(n)
      BY <2>4, AtFacts
    <3>2. ASSUME At(n) \in TagNames
          PROVE  \E m \in 1..Len(stack') : stack'[m].type = At(n)
      <4>1. next.type = At(n) /\ next.type # "CUSTOM"
        BY <3>1, <3>2, TagOfName
      <4>2. PICK m \in 1..Len(stack) : stack[m].type = At(n)
        BY <2>2, <4>1
      <4>3. m # Len(stack)
        BY <2>2, <4>1, <4>2 DEF SameTag, parent
      <4> QED
        BY <1>3, <1>6, <4>2, <4>3
    <3> HIDE DEF n
    <3>3. Sought(At(n), stack')
      BY <3>1, <3>2 DEF Sought
    <3> QED
      BY <3>3 DEF n
  <2> QED
    BY <2>2, <2>3, <2>4
<1>8. /\ At(pos)' = At(Here) /\ At(pos + 1)' = At(Here + 1) /\ At(pos + 2)' = At(Here + 2)
  BY <1>2 DEF At
<1>9. NoWastedClosing'
  BY <1>2 DEF NoWastedClosing
<1> QED
  BY <1>2, <1>7, <1>8, <1>9 DEF EndSought

\* Behind it, the parser comes to the closing tag in this state, and the tag ends
\* the innermost element.
LEMMA EndTagFinds ==
    ASSUME StableInv, InFile, EndSought, token.symbol = "IMPLICIT_END_TAG", LexEndTag
    PROVE  EndSought'
<1>1. /\ mode = "content" /\ At(pos) \in {"<", "EOF"}
      /\ doc' = doc /\ open' = open /\ saved' = saved /\ token' = token /\ mode' = "close"
      /\ pos' = SkipSpace[pos] + 2 /\ ~ Found
      /\ At(SkipSpace[pos]) = "<" /\ At(SkipSpace[pos] + 1) = "/"
  BY DEF EndSought, LexEndTag, StartsEndTag, Lexed, Next1, Next2
<1>2. SkipSpace[pos] = pos
  <2>1. At(pos) \notin Space
    BY <1>1 DEF Space
  <2> QED
    BY <2>1, NoSpace DEF InFile
<1>3. At(pos) = "<" /\ At(pos + 1) = "/" /\ pos' = pos + 2 /\ Sought(At(pos + 2), stack)
  BY <1>1, <1>2 DEF EndSought
<1>4. /\ Resumed = pos /\ Here = pos /\ Goes
  BY <1>1, <1>2, <1>3 DEF TextTried, Resumed, Here, Goes, Parsing
<1>5. pos \in Nat /\ (pos + 1) + 1 = pos + 2 /\ pos + 2 \in Positions
  <2>1. (pos + 1) + 1 \in Positions
    BY <1>3, Behind DEF InFile
  <2>2. pos \in Nat
    BY DEF InFile, Positions, DocOK
  <2> QED
    BY <2>1, <2>2
<1>6. /\ TextTried' = FALSE /\ Resumed' = pos + 2 /\ Here' = SkipSpace[pos + 2]
      /\ stack' = stack /\ InElement' = InElement
  <2>1. TextTried' = FALSE
    BY <1>1 DEF TextTried
  <2>2. Resumed' = pos + 2
    BY <1>3, <2>1 DEF Resumed
  <2>3. Here' = SkipSpace'[pos + 2] /\ SkipSpace' = SkipSpace
    BY <1>1, <2>2, SameDoc DEF Here
  <2> QED
    BY <1>1, <2>1, <2>2, <2>3 DEF stack, InElement
<1> DEFINE w == NameAt(Here)'
<1>7. w = NameAt(SkipSpace[pos + 2])
  BY <1>1, <1>6 DEF NameAt, At
<1>8. ASSUME w \in TagNames, ~ (open # << >> /\ ~ InElement)
      PROVE  Closes'
  <2> DEFINE n == pos + 2
  <2>1. At(n) \in Words
    <3>1. CASE At(n) = "EOF"
      <4>1. At(n) \notin Space
        BY <3>1 DEF Space
      <4>2. SkipSpace[n] = n
        BY <1>5, <4>1, NoSpace DEF InFile
      <4>3. w = "" /\ "" \notin TagNames
        BY <1>7, <3>1, <4>2, AtFacts DEF NameAt, Words
      <4> QED
        BY <1>8, <4>3
    <3> QED
      BY <1>3, <3>1 DEF Sought
  <2>2. At(n) \notin Space
    BY <2>1, AtFacts
  <2>3. SkipSpace[n] = n
    BY <1>5, <2>2, NoSpace DEF InFile
  <2>4. w = At(n) /\ NameAt(n) = At(n) /\ NameAt(n) # ""
    BY <1>7, <2>1, <2>3, AtFacts DEF NameAt
  <2>5. \E m \in 1..Len(stack) : stack[m].type = w
    BY <1>3, <1>8, <2>1, <2>4, AtFacts DEF Sought
  <2>6. /\ stack \in Seq(Tag) /\ Len(stack) = Len(open) /\ open \in Seq(Rules)
    BY DEF StableInv, IInv, StackInStep
  <2>7. stack # << >> /\ open # << >>
    BY <2>5, <2>6
  <2>8. "IMPLICIT_END_TAG" \in Valid
    BY <1>1, <1>8, <2>7, ValidFacts
  <2>9. ~ ImplicitEnd(pos + 1)
    <3>1. ~ FindsImplicitEnd
      BY <1>1, <1>4 DEF Found
    <3>2. Tagged = pos + 1 /\ ~ FindsComment
      BY <1>3, <1>4 DEF Tagged, FindsComment
    <3> QED
      BY <1>3, <1>4, <2>8, <3>1, <3>2 DEF FindsImplicitEnd
  <2>10. TagFor(NameAt(n)).type = w
    BY <1>8, <2>4, TagOfName
  <2>11. SameTag(parent, TagFor(NameAt(n)))
    BY <1>3, <1>5, <2>4, <2>5, <2>7, <2>9, <2>10 DEF ImplicitEnd
  <2>12. Closes' <=> (stack # << >> /\ SameTag(parent, TagFor(w)))
    BY <1>6 DEF Closes, parent
  <2> QED
    BY <2>4, <2>7, <2>11, <2>12
<1>9. NoWastedClosing'
  BY <1>1, <1>6, <1>8 DEF NoWastedClosing
<1> QED
  BY <1>1, <1>9 DEF EndSought

\* No other token comes between.
LEMMA EndSoughtStep ==
    ASSUME StableInv, InFile, EndSought, [Next]_vars
    PROVE  EndSought'
<1>1. ASSUME token'.symbol # "IMPLICIT_END_TAG" PROVE EndSought'
  BY <1>1 DEF EndSought
<1>2. CASE \/ TextFragment \/ InterpolationText \/ RawText \/ Comment \/ StartTagName
           \/ SelfClosingTagDelimiter \/ EndTagName \/ ErroneousEndTagName
  BY <1>1, <1>2 DEF TextFragment, InterpolationText, RawText, Comment, StartTagName,
                    SelfClosingTagDelimiter, EndTagName, ErroneousEndTagName, Emit
<1>3. CASE ImplicitEndTag
  BY <1>3, EndTagSeeks
<1>4. CASE token.symbol = "IMPLICIT_END_TAG" /\ LexEndTag
  BY <1>4, EndTagFinds
<1>5. CASE token.symbol = "IMPLICIT_END_TAG" /\ (LexTag \/ Accept \/ Reject)
  BY <1>5 DEF EndSought, LexTag, Accept, Reject, Lexed, NoWastedClosing
<1>6. CASE token.symbol = "IMPLICIT_END_TAG" /\ LexBraces
  <2>1. mode = "content" /\ At(SkipSpace[pos]) = "{" /\ At(pos) \in {"<", "EOF"}
    BY <1>6 DEF LexBraces, StartsBraces, Next1, EndSought
  <2>2. At(pos) \notin Space
    BY <2>1 DEF Space
  <2>3. SkipSpace[pos] = pos
    BY <2>2, NoSpace DEF InFile
  <2> QED
    BY <2>1, <2>3
<1>7. CASE token.symbol = "IMPLICIT_END_TAG" /\ (LexBracesEnd \/ LexTagEnd)
  BY <1>7 DEF EndSought, LexBracesEnd, LexTagEnd, EndsBraces, EndsTag
<1>8. CASE /\ token.symbol # "IMPLICIT_END_TAG"
           /\ \/ LexTag \/ LexEndTag \/ LexBraces \/ LexBracesEnd \/ LexTagEnd
              \/ Accept \/ Reject
  BY <1>1, <1>8 DEF LexTag, LexEndTag, LexBraces, LexBracesEnd, LexTagEnd, Accept, Reject, Lexed
<1>9. CASE UNCHANGED vars
  <2>1. /\ doc' = doc /\ pos' = pos /\ mode' = mode /\ open' = open /\ saved' = saved
        /\ token' = token
    BY <1>9 DEF vars
  <2>2. ASSUME NoWastedClosing PROVE NoWastedClosing'
    <3> SUFFICES ASSUME mode = "close", token.symbol = "IMPLICIT_END_TAG" PROVE NoWastedClosing'
      BY <2>1 DEF NoWastedClosing
    <3>1. ~ TextTried /\ ~ TextTried'
      BY <2>1 DEF TextTried
    <3>2. Resumed = pos /\ Resumed' = pos
      BY <2>1, <3>1 DEF Resumed
    <3>3. SkipSpace' = SkipSpace
      BY <2>1, SameDoc
    <3>4. Here' = Here
      BY <3>2, <3>3 DEF Here
    <3>5. NameAt(Here)' = NameAt(Here)
      BY <2>1, <3>4 DEF NameAt, At
    <3>6. stack' = stack /\ parent' = parent /\ (InElement' <=> InElement)
      BY <2>1 DEF stack, parent, InElement
    <3>7. Closes' <=> Closes
      BY <3>5, <3>6 DEF Closes
    <3> QED
      BY <2>1, <2>2, <3>5, <3>6, <3>7 DEF NoWastedClosing
  <2>3. stack' = stack /\ At(pos)' = At(pos) /\ At(pos + 1)' = At(pos + 1) /\ At(pos + 2)' = At(pos + 2)
    BY <2>1 DEF stack, At
  <2> QED
    BY <2>1, <2>2, <2>3 DEF EndSought
<1> QED
  BY <1>2, <1>3, <1>4, <1>5, <1>6, <1>7, <1>8, <1>9 DEF Next

-----------------------------------------------------------------------------
(***************************************************************************)
(* The implicit end tags before a tag.                                     *)
(***************************************************************************)
\* The elements s are as HTML lets them be, and may w be opened in them.
Legal(s) ==
    \A n \in 1..Len(s) - 1 :
        /\ ~ IsVoid(s[n])
        /\ s[n + 1] # Blank => CanContain(s[n].type, s[n + 1].type)

Allowed(w, s) ==
    w \in Words /\ s # << >> =>
        ~ IsVoid(s[Len(s)]) /\ CanContain(s[Len(s)].type, TagFor(w).type)

NestInv ==
    Plain => /\ Legal(tags) /\ Legal(stack)
             /\ mode = "open" => At(pos) \notin Space \cup {"<"} /\ Allowed(At(pos), stack)

\* A name that was lost is not void and may contain all.
LEMMA BlankIsAny ==
    ~ IsVoid(Blank) /\ \A c : CanContain(Blank.type, c)
  BY DEF Blank, IsVoid, VoidTypes, CanContain

\* A name that is cut keeps its type.
LEMMA ShortenedType ==
    ASSUME NEW t
    PROVE  Shortened(t).type = t.type
  BY DEF Shortened

\* What is read back is legal, for a name that was lost forbids nothing.
LEMMA LegalBack ==
    ASSUME NEW s \in Seq(Tag), Len(s) <= CountMax, Legal(s),
           NEW r, r = Deserialize(Serialize(s))
    PROVE  Legal(r)
<1>1. Serialize(s).count = Len(s) /\ Serialize(s).kept = [n \in Fitting(s) |-> Shortened(s[n])]
  BY LimitAssumption DEF Serialize
<1>2. r = [n \in 1..Len(s) |-> IF n \in Fitting(s) THEN Shortened(s[n]) ELSE Blank]
  BY <1>1 DEF Deserialize
<1>3. Len(r) = Len(s) /\ Len(s) \in Nat
  BY RoundTrip
<1>4. \A n \in 1..Len(s) :
          r[n] = Blank \/ (r[n].type = s[n].type /\ s[n] # Blank)
  <2> SUFFICES ASSUME NEW n \in 1..Len(s) PROVE r[n] = Blank \/ (r[n].type = s[n].type /\ s[n] # Blank)
    OBVIOUS
  <2>1. s[n] \in Tag
    OBVIOUS
  <2>2. r[n] = Shortened(s[n]) \/ r[n] = Blank
    BY <1>2
  <2> QED
    BY <2>1, <2>2, ShortenedTag, ShortenedType
<1> SUFFICES ASSUME NEW n \in 1..Len(s) - 1
             PROVE  /\ ~ IsVoid(r[n])
                    /\ r[n + 1] # Blank => CanContain(r[n].type, r[n + 1].type)
  BY <1>3 DEF Legal
<1>5. n \in 1..Len(s) /\ n + 1 \in 1..Len(s)
  BY <1>3
<1>6. ~ IsVoid(s[n]) /\ (s[n + 1] # Blank => CanContain(s[n].type, s[n + 1].type))
  BY DEF Legal
<1>7. CASE r[n] = Blank
  BY <1>7, BlankIsAny
<1>8. CASE r[n] # Blank
  <2>1. r[n].type = s[n].type
    BY <1>4, <1>5, <1>8
  <2>2. ~ IsVoid(r[n])
    BY <1>6, <2>1 DEF IsVoid
  <2>3. r[n + 1] # Blank => r[n + 1].type = s[n + 1].type /\ s[n + 1] # Blank
    BY <1>4, <1>5
  <2> QED
    BY <1>6, <2>1, <2>2, <2>3
<1> QED
  BY <1>7, <1>8

\* Less the innermost.
LEMMA LegalPopped ==
    ASSUME NEW s \in Seq(Tag), s # << >>, Legal(s), NEW p, p = SubSeq(s, 1, Len(s) - 1)
    PROVE  Legal(p)
<1>1. p \in Seq(Tag) /\ Len(p) = Len(s) - 1 /\ \A n \in 1..Len(s) - 1 : p[n] = s[n]
  BY OneLess
<1>2. Len(s) \in Nat
  OBVIOUS
<1> QED
  BY <1>1, <1>2 DEF Legal

\* With one that is allowed.
LEMMA LegalOpened ==
    ASSUME NEW s \in Seq(Tag), Legal(s), NEW w \in Words, Allowed(w, s),
           NEW p, p = Append(s, TagFor(w))
    PROVE  Legal(p)
<1>1. TagFor(w) \in Tag /\ Len(s) \in Nat
  BY DEF Tag
<1>2. Len(p) = Len(s) + 1 /\ (\A n \in 1..Len(s) : p[n] = s[n]) /\ p[Len(s) + 1] = TagFor(w)
  BY <1>1
<1> SUFFICES ASSUME NEW n \in 1..Len(s)
             PROVE  /\ ~ IsVoid(p[n])
                    /\ p[n + 1] # Blank => CanContain(p[n].type, p[n + 1].type)
  BY <1>1, <1>2 DEF Legal
<1>3. CASE n = Len(s)
  <2>1. s # << >> /\ p[n] = s[Len(s)] /\ p[n + 1] = TagFor(w)
    BY <1>1, <1>2, <1>3
  <2> QED
    BY <2>1 DEF Allowed
<1>4. CASE n # Len(s)
  <2>1. n \in 1..Len(s) - 1 /\ n + 1 \in 1..Len(s)
    BY <1>1, <1>4
  <2> QED
    BY <1>2, <2>1 DEF Legal
<1> QED
  BY <1>3, <1>4

\* A token after which the stack is legal.
LEMMA EmitLegal ==
    ASSUME InFile, NEW symbol, NEW end, NEW s \in Seq(Tag), Len(s) <= CountMax, Legal(s),
           Emit(symbol, end, s), mode' # "open"
    PROVE  NestInv'
<1>1. tags' = s /\ stack' = Deserialize(Serialize(s))
  BY DEF Emit, stack
<1>2. Legal(stack')
  BY <1>1, LegalBack
<1> QED
  BY <1>1, <1>2 DEF NestInv, Legal

\* Where a tag starts, no implicit end tag is called for.
LEMMA TagAllowed ==
    ASSUME StableInv, InFile, Plain, LexTag, At(SkipSpace[pos] + 1) \in Words
    PROVE  Allowed(At(SkipSpace[pos] + 1), stack)
<1> DEFINE k == SkipSpace[pos]
           w == At(k + 1)
<1>1. /\ mode = "content" /\ At(k) = "<" /\ w \notin {"/", "!"} /\ ~ Found
  BY DEF LexTag, StartsTag, Lexed, Next1, Next2
<1>2. /\ k \in pos..Len(doc) + 1 /\ k \in Positions
      /\ \A m \in pos..k - 1 : At(m) \in Space
      /\ pos \in Positions /\ DocOK /\ Len(doc) \in Nat /\ pos \in Nat
  BY SpaceEnds DEF InFile, DocOK, Positions
<1>3. w \in Words
  OBVIOUS
<1>4. SkipSpace[k] = k
  <2>1. At(k) \notin Space
    BY <1>1 DEF Space
  <2> HIDE DEF k
  <2> QED
    BY <1>2, <2>1, NoSpace
<1> HIDE DEF k
<1>5. Here = k /\ Goes
  <2>1. CASE At(pos) = "<"
    <3>1. At(pos) \notin Space
      BY <2>1 DEF Space
    <3>2. SkipSpace[pos] = pos
      BY <1>2, <3>1, NoSpace
    <3>3. ~ TextTried
      BY <2>1 DEF TextTried
    <3> QED
      BY <1>1, <3>2, <3>3 DEF Here, Resumed, Goes, Parsing, k
  <2>2. CASE At(pos) # "<"
    <3>1. TextTried
      BY <1>1, <2>2 DEF TextTried
    <3>2. k > pos
      BY <1>1, <1>2, <2>2
    <3>3. Text.out = "text" \/ (Text.out = "rest" /\ Text.at = k)
      BY <1>1, <1>2, <1>3, <3>2, TextToTag
    <3>4. Text.out # "text"
      BY <1>1, <3>1 DEF Found
    <3> QED
      BY <1>1, <1>4, <3>1, <3>3, <3>4 DEF Here, Resumed, Goes, Parsing
  <2> QED
    BY <2>1, <2>2
<1> SUFFICES ASSUME stack # << >>
             PROVE  ~ IsVoid(parent) /\ CanContain(parent.type, TagFor(w).type)
  BY DEF Allowed, parent, k
<1>6. CASE InElement
  <2>1. "IMPLICIT_END_TAG" \in Valid
    BY <1>1, <1>6, ValidFacts
  <2>2. ~ FindsImplicitEnd
    BY <1>1, <1>5 DEF Found
  <2>3. Tagged = k + 1 /\ ~ FindsComment
    BY <1>1, <1>5 DEF Tagged, FindsComment
  <2>4. ~ ImplicitEnd(k + 1)
    BY <1>1, <1>5, <2>1, <2>2, <2>3 DEF FindsImplicitEnd
  <2>5. NameAt(k + 1) = w /\ NameAt(k + 1) # ""
    BY <1>3, AtFacts DEF NameAt
  <2> DEFINE n == k + 1
  <2>6. At(n) # "/" /\ NameAt(n) = w /\ NameAt(n) # "" /\ ~ ImplicitEnd(n)
    BY <1>1, <2>4, <2>5
  <2> HIDE DEF n, w
  <2> QED
    BY <2>6 DEF ImplicitEnd
<1>7. CASE ~ InElement
  <2>1. /\ stack \in Seq(Tag) /\ Len(stack) = Len(open) /\ open \in Seq(Rules) /\ Len(stack) \in Nat \ {0}
        /\ parent # Blank => open[Len(open)] = RuleOf(parent)
    BY DEF StableInv, IInv, StackInStep, parent
  <2>2. open # << >> /\ open[Len(open)] # "element"
    BY <1>7, <2>1 DEF InElement
  <2>3. parent # Blank => parent.type \in {"TEMPLATE", "SCRIPT", "STYLE"}
    BY <2>1, <2>2 DEF RuleOf
  <2>4. CASE parent = Blank
    BY <2>4, BlankIsAny
  <2>5. CASE parent.type \in {"TEMPLATE", "SCRIPT", "STYLE"}
    BY <2>5 DEF IsVoid, VoidTypes, CanContain
  <2> QED
    BY <2>3, <2>4, <2>5
<1> QED
  BY <1>6, <1>7

\* Between LexTag and the name there is nothing, so it is still allowed there.
LEMMA NestStep ==
    ASSUME StableInv, InFile, NestInv, [Next]_vars
    PROVE  NestInv'
<1>0. SUFFICES ASSUME Plain' PROVE NestInv'
  BY DEF NestInv
<1>1. doc' = doc
  BY InFileStep
<1>2. Plain
  BY <1>0, <1>1, SameDoc
<1>3. /\ Legal(tags) /\ Legal(stack)
      /\ mode = "open" => At(pos) \notin Space \cup {"<"} /\ Allowed(At(pos), stack)
  BY <1>2 DEF NestInv
<1>4. stack \in Seq(Tag) /\ Len(stack) \in Nat /\ Len(stack) = Len(open) /\ Len(stack) <= CountMax
  BY DEF StableInv, IInv, StackInStep
<1>5. ASSUME mode = "open" PROVE Resumed = pos /\ Here = pos
  <2>1. ~ TextTried
    BY <1>5 DEF TextTried
  <2>2. SkipSpace[pos] = pos
    BY <1>3, <1>5, NoSpace DEF InFile
  <2> QED
    BY <2>1, <2>2 DEF Resumed, Here
<1>6. ASSUME NEW symbol, NEW end, Emit(symbol, end, stack), mode' # "open"
      PROVE  NestInv'
  BY <1>3, <1>4, <1>6, EmitLegal
<1>7. ASSUME NEW symbol, NEW end, Emit(symbol, end, Popped), mode' # "open", stack # << >>
      PROVE  NestInv'
  <2>1. Popped \in Seq(Tag) /\ Len(Popped) = Len(stack) - 1 /\ Legal(Popped)
    BY <1>3, <1>4, <1>7, OneLess, LegalPopped DEF Popped
  <2>2. Len(Popped) <= CountMax
    BY <1>4, <2>1, LimitAssumption
  <2> QED
    BY <1>7, <2>1, <2>2, EmitLegal
<1>8. CASE TextFragment \/ InterpolationText
  BY <1>6, <1>8 DEF TextFragment, InterpolationText
<1>9. CASE RawText
  BY <1>6, <1>9 DEF RawText
<1>10. CASE Comment
  <2>1. mode # "open"
    BY <1>3, <1>5, <1>10 DEF Comment, FindsComment
  <2> QED
    BY <1>6, <1>10, <2>1 DEF Comment
<1>11. CASE ImplicitEndTag
  <2>1. mode = "content" /\ stack # << >>
    BY <1>11, ValidFacts DEF ImplicitEndTag, FindsImplicitEnd, ImplicitEnd
  <2> QED
    BY <1>7, <1>11, <2>1 DEF ImplicitEndTag
<1>12. CASE StartTagName
  <2>1. mode = "open" /\ NameAt(Here) # ""
    BY <1>12, ValidFacts DEF StartTagName, FindsName
  <2>2. Here = pos /\ At(Here) \in Words /\ Allowed(At(Here), stack)
    BY <1>3, <1>5, <2>1, AtFacts
  <2> DEFINE s == Append(stack, TagFor(At(Here)))
  <2>3. Legal(s)
    BY <1>3, <1>4, <2>2, LegalOpened
  <2>4. s \in Seq(Tag) /\ Len(s) = Len(stack) + 1
    BY <1>4, <2>2 DEF Tag
  <2>5. Len(s) <= CountMax
    BY <1>4, <1>12, <2>4, LimitAssumption DEF StartTagName, Counted
  <2> HIDE DEF s
  <2>6. Emit("START_TAG_NAME", Here + 1, s) /\ mode' # "open"
    BY <1>12 DEF StartTagName, s
  <2> QED
    BY <2>3, <2>4, <2>5, <2>6, EmitLegal
<1>13. CASE SelfClosingTagDelimiter
  BY <1>7, <1>13 DEF SelfClosingTagDelimiter
<1>14. CASE EndTagName
  BY <1>7, <1>14 DEF EndTagName, Closes
<1>15. CASE ErroneousEndTagName
  BY <1>6, <1>15 DEF ErroneousEndTagName
<1>16. ASSUME UNCHANGED <<tags, saved>>, mode' # "open" PROVE NestInv'
  <2>1. stack' = stack
    BY <1>16 DEF stack
  <2> QED
    BY <1>3, <1>16, <2>1 DEF NestInv
<1>17. CASE LexTag
  <2> PICK n : n = SkipSpace[pos] + 1
    OBVIOUS
  <2>1. /\ tags' = tags /\ stack' = stack /\ pos' = n
        /\ At(SkipSpace[pos]) = "<"
    BY <1>1, <1>17 DEF LexTag, StartsTag, Lexed, stack, At, Next1
  <2>2. At(n) \notin Space \cup {"<"}
    <3>1. SkipSpace[pos] \in 1..Len(doc)
      BY <2>1, AtFacts
    <3> QED
      BY <1>2, <2>1, <3>1 DEF Plain
  <2>3. Allowed(At(n), stack)
    <3>1. CASE At(n) \in Words
      BY <1>2, <1>17, <3>1, TagAllowed
    <3>2. CASE At(n) \notin Words
      BY <3>2 DEF Allowed
    <3> QED
      BY <3>1, <3>2
  <2>4. At(pos)' = At(n)
    BY <1>1, <2>1 DEF At
  <2> QED
    BY <1>3, <2>1, <2>2, <2>3, <2>4 DEF NestInv
<1>18. CASE LexEndTag \/ LexBraces \/ LexBracesEnd \/ LexTagEnd \/ Accept \/ Reject
  BY <1>16, <1>18 DEF LexEndTag, LexBraces, LexBracesEnd, LexTagEnd, Accept, Reject, Lexed
<1>19. CASE UNCHANGED vars
  <2>1. tags' = tags /\ stack' = stack /\ mode' = mode /\ At(pos)' = At(pos)
    BY <1>19 DEF vars, stack, At
  <2> QED
    BY <1>3, <2>1 DEF NestInv
<1> QED
  BY <1>8, <1>9, <1>10, <1>11, <1>12, <1>13, <1>14, <1>15, <1>17, <1>18, <1>19 DEF Next

-----------------------------------------------------------------------------
(***************************************************************************)
(* The tokens of raw text, and the three theorems.                         *)
(***************************************************************************)
\* The parser takes raw text in a script or a style only.
RawInv == (mode = "raw" => InRaw) /\ RawTextStops

\* In such an element whose name is known, the scanner looks for its end.
LEMMA RawOfParent ==
    ASSUME StableInv, InRaw, parent # Blank
    PROVE  parent.type = RawName
<1>1. RuleOf(parent) \in {"script", "style"}
  BY DEF StableInv, IInv, StackInStep, InRaw, parent
<1>2. parent.type \in {"SCRIPT", "STYLE"}
  BY <1>1 DEF RuleOf
<1> QED
  BY <1>2 DEF RawName

\* The token of raw text.
LEMMA RawTextEmitted ==
    ASSUME StableInv, InFile, RawInv, RawText
    PROVE  RawTextStops'
<1>1. /\ mode = "raw" /\ stack # << >> /\ Goes /\ doc' = doc /\ saved' = Serialize(stack)
      /\ token' = [symbol |-> "RAW_TEXT", from |-> pos, to |-> RawEnd[Resumed] - 1]
  BY DEF RawText, Emit
<1>2. Resumed = pos /\ pos \in Positions /\ Len(doc) \in Nat /\ pos \in Nat
  BY <1>1 DEF TextTried, Resumed, InFile, DocOK, Positions
<1> PICK e : e = RawEnd[pos]
  OBVIOUS
<1>3. RawUpTo(pos, e)
  BY <1>2, RawLands DEF InFile
<1>4. parent' = parent
  <2>1. stack \in Seq(Tag) /\ Len(stack) <= CountMax /\ Len(stack) \in Nat \ {0}
    BY <1>1 DEF StableInv, IInv, StackInStep
  <2>2. stack' = Deserialize(Serialize(stack))
    BY <1>1 DEF stack
  <2>3. stack' \in Seq(Tag) /\ Len(stack') = Len(stack)
    BY ONLY <2>1, <2>2, RoundTrip
  <2>4. Common
    BY <1>1, StableSame
  <2>5. stack'[Len(stack)] = stack[Len(stack)]
    BY <2>1, <2>3, <2>4 DEF Common
  <2> QED
    BY <2>3, <2>5 DEF parent
<1> SUFFICES ASSUME parent # Blank PROVE RawTextStops'
  BY <1>4 DEF RawTextStops
<1>5. parent.type = RawName
  BY <1>1, RawOfParent DEF RawInv
<1>6. /\ e \in pos..Len(doc) + 1
      /\ \/ Delimits(e)
         \/ At(e) = "EOF"
         \/ At(e) = "<" /\ Len(doc) - e + 1 <= 3 /\ FalseStart(Len(doc))
      /\ \A n \in pos..e - 1 :
             At(n) = "<" /\ At(n + 1) = "/" /\ Opens(At(n + 2), parent.type)
             => n > pos /\ FalseStart(n - 1)
  BY <1>3, <1>5 DEF RawUpTo, Delimiter
<1>7. token'.from = pos /\ token'.to = e - 1 /\ token'.to + 1 = e
  BY <1>1, <1>2, <1>6
<1>8. /\ \A n : Delimits(n)' <=> Delimits(n)
      /\ \A n : FalseStart(n)' <=> FalseStart(n)
      /\ \A n : At(n)' = At(n)
  BY <1>1, SameDoc
<1>9. \/ Delimits(token.to + 1)'
      \/ At(token.to + 1)' = "EOF"
      \/ At(token.to + 1)' = "<" /\ Len(doc') - token'.to <= 3 /\ FalseStart(Len(doc))'
  <2>1. Delimits(token.to + 1)' <=> Delimits(e)
    BY <1>1, <1>7 DEF Delimits, At
  <2>2. At(token.to + 1)' = At(e)
    BY <1>1, <1>7 DEF At
  <2>3. Len(doc') - token'.to = Len(doc) - e + 1
    BY <1>1, <1>2, <1>6, <1>7
  <2>4. FalseStart(Len(doc))' <=> FalseStart(Len(doc))
    BY <1>1 DEF FalseStart, At
  <2> QED
    BY <1>6, <2>1, <2>2, <2>3, <2>4
<1>10. \A n \in token'.from..token'.to :
           At(n)' = "<" /\ At(n + 1)' = "/" /\ Opens(At(n + 2)', parent'.type)
           => n > token'.from /\ FalseStart(n - 1)'
  BY <1>4, <1>6, <1>7, <1>8
<1> QED
  BY <1>9, <1>10 DEF RawTextStops

\* The others leave it, or are none.
LEMMA RawStep ==
    ASSUME StableInv, InFile, RawInv, [Next]_vars
    PROVE  RawInv'
<1>1. CASE RawText
  <2>1. mode' # "raw"
    BY <1>1 DEF RawText
  <2> QED
    BY <1>1, <2>1, RawTextEmitted DEF RawInv
<1>2. ASSUME token'.symbol # "RAW_TEXT", mode' # "raw" PROVE RawInv'
  BY <1>2 DEF RawInv, RawTextStops
<1>3. CASE TextFragment \/ InterpolationText
  BY <1>2, <1>3 DEF TextFragment, InterpolationText, Emit
<1>4. CASE Comment
  BY <1>2, <1>4 DEF Comment, FindsComment, Emit
<1>5. CASE ImplicitEndTag
  <2>1. mode = "content"
    BY <1>5, ValidFacts DEF ImplicitEndTag, FindsImplicitEnd
  <2> QED
    BY <1>2, <1>5, <2>1 DEF ImplicitEndTag, Emit
<1>6. CASE StartTagName \/ SelfClosingTagDelimiter \/ EndTagName \/ ErroneousEndTagName
  BY <1>2, <1>6
     DEF StartTagName, SelfClosingTagDelimiter, EndTagName, ErroneousEndTagName, Emit
<1>7. ASSUME UNCHANGED <<doc, saved, token>>, mode' = "raw" => InRaw' PROVE RawInv'
  <2>1. parent' = parent /\ token' = token /\ doc' = doc
    BY <1>7 DEF parent, stack
  <2>2. RawTextStops'
    BY <2>1 DEF RawInv, RawTextStops, Delimits, FalseStart, At
  <2> QED
    BY <1>7, <2>2 DEF RawInv
<1>8. CASE LexTagEnd
  <2>1. open' = open /\ (mode' = "raw" => InRaw)
    BY <1>8 DEF LexTagEnd, Lexed
  <2>2. mode' = "raw" => InRaw'
    BY <2>1 DEF InRaw
  <2> QED
    BY <1>7, <1>8, <2>2 DEF LexTagEnd, Lexed
<1>9. CASE LexTag \/ LexEndTag \/ LexBraces \/ LexBracesEnd \/ Accept \/ Reject
  BY <1>7, <1>9 DEF LexTag, LexEndTag, LexBraces, LexBracesEnd, Accept, Reject, Lexed
<1>10. CASE UNCHANGED vars
  BY <1>7, <1>10 DEF vars, RawInv, InRaw
<1> QED
  BY <1>1, <1>3, <1>4, <1>5, <1>6, <1>8, <1>9, <1>10 DEF Next

-----------------------------------------------------------------------------
\* What holds between the tokens, besides.
TokensInv == InFile /\ EndSought /\ NestInv /\ RawInv

LEMMA TokensInvariance == Spec => []TokensInv
<1>1. Init => TokensInv
  <2> SUFFICES ASSUME Init PROVE TokensInv
    OBVIOUS
  <2>1. InFile
    <3>1. Len(doc) \in Nat
      BY DocumentAssumption DEF Init
    <3> QED
      BY <3>1 DEF Init, InFile, DocOK, Positions
  <2>2. EndSought /\ RawInv
    BY DEF Init, EndSought, RawInv, RawTextStops
  <2>3. NestInv
    <3>1. Len(<< >>) = 0 /\ << >> \in Seq(Tag)
      OBVIOUS
    <3>2. Legal(<< >>)
      BY <3>1 DEF Legal
    <3>3. Len(<< >>) <= CountMax
      BY <3>1, LimitAssumption
    <3>4. Legal(stack)
      BY <3>1, <3>2, <3>3, LegalBack DEF Init, stack
    <3> QED
      BY <3>2, <3>4 DEF Init, NestInv
  <2> QED
    BY <2>1, <2>2, <2>3 DEF TokensInv
<1>2. StableInv /\ TokensInv /\ [Next]_vars => TokensInv'
  <2> SUFFICES ASSUME StableInv, TokensInv, [Next]_vars PROVE TokensInv'
    OBVIOUS
  <2> USE DEF TokensInv
  <2> QED
    BY InFileStep, EndSoughtStep, NestStep, RawStep
<1> QED
  BY <1>1, <1>2, StableInvariance, PTL DEF Spec

(***************************************************************************)
(* scan_implicit_end_tag looks down the whole stack for the element that a *)
(* closing tag names, ends those above it one by one, and the parser then  *)
(* comes to the closing tag with that element innermost: for every         *)
(* document, and for every size of the buffer, though names are lost in it.*)
(***************************************************************************)
THEOREM ClosingFindsElement == Spec => []NoWastedClosing
<1>1. TokensInv => NoWastedClosing
  BY DEF TokensInv, EndSought, NoWastedClosing
<1> QED
  BY <1>1, TokensInvariance, PTL

(***************************************************************************)
(* In every plain document, scan ends an element before the tag of one     *)
(* that it may not contain: whatever text, space and comments come before  *)
(* the tag, scan looks for implicit end tags exactly there.                *)
(***************************************************************************)
THEOREM NestsLegally == Spec => []NestingLegal
<1>1. TokensInv => NestingLegal
  BY DEF TokensInv, NestInv, Legal, NestingLegal
<1> QED
  BY <1>1, TokensInvariance, PTL

(***************************************************************************)
(* scan_raw_text stops at the first closing tag that no false start hides, *)
(* in every script and style of every document.                            *)
(***************************************************************************)
THEOREM RawTextEnds == Spec => []RawTextStops
<1>1. TokensInv => RawTextStops
  BY DEF TokensInv, RawInv
<1> QED
  BY <1>1, TokensInvariance, PTL
=============================================================================
