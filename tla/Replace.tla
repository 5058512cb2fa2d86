------------------------------- MODULE Replace -------------------------------
(***************************************************************************)
(* replaceAtomsInRange of chunker.go: the atoms of an embedded script take *)
(* the place of those that lie in the byte range of its container.  A      *)
(* first loop looks for an atom in the range; without one the injected     *)
(* atoms are given up.  A second loop copies the atoms outside the range   *)
(* and puts all the injected ones where the first atom of the range was.   *)
(***************************************************************************)
EXTENDS Atoms

CONSTANTS
    AnyAtom,   \* the atoms: records of which only the offsets matter here
    Calls      \* the arguments: records of given, start, end, replacements

VARIABLES
    given,          \* the parameters: atoms,
    start, end,     \*    the byte range of the container,
    replacements,   \*    the injected atoms
    j,              \* the atom looked at
    inserted,       \* are the replacements in the result?
    result,         \* the slice that is built, then what is returned
    rp              \* "search", "copy" or "returned"

args == <<given, start, end, replacements>>
replaceVars == <<args, j, inserted, result, rp>>

InRange(a) == a.startByte >= start /\ a.endByte <= end

-----------------------------------------------------------------------------
\* replaceAtomsInRange(s, from, to, r)
Call(s, from, to, r) ==
    /\ rp = "returned"
    /\ given' = s /\ start' = from /\ end' = to /\ replacements' = r
    /\ j' = 1
    /\ inserted' = FALSE
    /\ result' = << >>
    /\ rp' = "search"

SkipOutside ==
    /\ rp = "search"
    /\ j <= Len(given)
    /\ ~ InRange(given[j])
    /\ j' = j + 1
    /\ UNCHANGED <<args, inserted, result, rp>>

\* Mutant: the copy starts where the search ended.
MatchAndGoOn ==
    /\ rp = "search" /\ j <= Len(given) /\ InRange(given[j])
    /\ rp' = "copy"
    /\ UNCHANGED <<args, j, inserted, result>>

\* hasMatch = true; break
Match ==
    /\ rp = "search"
    /\ j <= Len(given)
    /\ InRange(given[j])
    /\ j' = 1
    /\ rp' = "copy"
    /\ UNCHANGED <<args, inserted, result>>

\* No atom in the range: the atoms are returned as they are.
NoMatch ==
    /\ rp = "search"
    /\ j > Len(given)
    /\ result' = given
    /\ rp' = "returned"
    /\ UNCHANGED <<args, j, inserted>>

Keep ==
    /\ rp = "copy"
    /\ j <= Len(given)
    /\ ~ InRange(given[j])
    /\ result' = Append(result, given[j])
    /\ j' = j + 1
    /\ UNCHANGED <<args, inserted, rp>>

\* Mutant: the replacements are inserted for every atom in the range.
InsertAgain ==
    /\ rp = "copy" /\ j <= Len(given) /\ InRange(given[j])
    /\ result' = result \o replacements
    /\ j' = j + 1
    /\ UNCHANGED <<args, inserted, rp>>

\* The first atom in the range gives way to all the replacements.
Insert ==
    /\ rp = "copy"
    /\ j <= Len(given)
    /\ InRange(given[j])
    /\ ~ inserted
    /\ result' = result \o replacements
    /\ inserted' = TRUE
    /\ j' = j + 1
    /\ UNCHANGED <<args, rp>>

Drop ==
    /\ rp = "copy"
    /\ j <= Len(given)
    /\ InRange(given[j])
    /\ inserted
    /\ j' = j + 1
    /\ UNCHANGED <<args, inserted, result, rp>>

Return ==
    /\ rp = "copy"
    /\ j > Len(given)
    /\ rp' = "returned"
    /\ UNCHANGED <<args, j, inserted, result>>

ReplaceNext == SkipOutside \/ Match \/ NoMatch \/ Keep \/ Insert \/ Drop \/ Return

-----------------------------------------------------------------------------
\* What the caller owes: both sequences are in document order and hold no
\* oversized atom, the replacements lie in the range from .. to, and every other
\* atom lies before the range, after it or around it, around it only if none is
\* in it.
Aligned(s, from, to, r) ==
    LET in(a)     == a.startByte >= from /\ a.endByte <= to
        around(a) == a.startByte <= from /\ to <= a.endByte
    IN  /\ InDocumentOrder(s) /\ NoneOversized(s)
        /\ InDocumentOrder(r) /\ NoneOversized(r)
        /\ \A k \in 1..Len(r) : in(r[k])
        /\ \A k \in 1..Len(s) : \/ in(s[k]) \/ around(s[k])
                                \/ s[k].endByte <= from
                                \/ to <= s[k].startByte
        /\ \A k, m \in 1..Len(s) : in(s[k]) /\ around(s[m]) => in(s[m])

ASSUME CallAssumption ==
    /\ \A a \in AnyAtom : a.startByte \in Nat /\ a.endByte \in Nat
    /\ \A c \in Calls :
          /\ c.given \in Seq(AnyAtom) /\ c.replacements \in Seq(AnyAtom)
          /\ c.start \in Nat /\ c.end \in Nat
          /\ Aligned(c.given, c.start, c.end, c.replacements)

\* A call on its own.
ReplaceInit ==
    /\ \E c \in Calls :
          /\ given = c.given /\ start = c.start /\ end = c.end
          /\ replacements = c.replacements
    /\ j = 1
    /\ inserted = FALSE
    /\ result = << >>
    /\ rp = "search"

\* The loops run in one goroutine: they keep running.
ReplaceSpec == ReplaceInit /\ [][ReplaceNext]_replaceVars /\ WF_replaceVars(ReplaceNext)

-----------------------------------------------------------------------------
\* Every variable has the type replaceAtomsInRange gives it.
ReplaceTypeOK ==
    /\ given \in Seq(AnyAtom) /\ replacements \in Seq(AnyAtom)
    /\ start \in Nat /\ end \in Nat
    /\ j \in 1..Len(given) + 1
    /\ inserted \in BOOLEAN
    /\ result \in Seq(AnyAtom)
    /\ rp \in {"search", "copy", "returned"}

\* replaceAtomsInRange hands on what mergeAtoms needs: the result is in document
\* order, without overlap between old and injected atoms, and none is oversized.
ResultInOrder == InDocumentOrder(result) /\ NoneOversized(result)

\* What is returned, without loops: the atoms in the range are consecutive, and
\* the replacements stand in their place, between all the atoms before and all
\* those after them; the atoms as they were where none is in the range.
SplicedIn ==
    LET in == {k \in 1..Len(given) : InRange(given[k])}
    IN  rp = "returned" =>
            \/ in = {} /\ result = given
            \/ \E first, last \in in :
                  /\ in = first..last
                  /\ result = SubSeq(given, 1, first - 1) \o replacements
                                  \o SubSeq(given, last + 1, Len(given))
=============================================================================
