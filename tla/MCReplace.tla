------------------------------ MODULE MCReplace ------------------------------
(***************************************************************************)
(* Every call on up to three atoms and up to two replacements with offsets *)
(* up to MCEnd that meets CallAssumption, empty atoms included.            *)
(***************************************************************************)
EXTENDS Replace

MCEnd == 4

Interval(file) ==
    {[startByte |-> p, endByte |-> q, from |-> file] : p \in 0..MCEnd, q \in 0..MCEnd}

Ordered(from, n) ==
    {s \in [1..n -> {a \in Interval(from) : a.startByte <= a.endByte
                                               /\ a.endByte - a.startByte <= MaxChunkSize}] :
        InDocumentOrder(s)}

UpTo(from, n) == UNION {Ordered(from, m) : m \in 0..n}

MCAtoms == Interval("vue") \cup Interval("script")

MCCalls ==
    {c \in [given : UpTo("vue", 3), start : 0..MCEnd, end : 0..MCEnd,
            replacements : UpTo("script", 2) \ {<< >>}] :
        c.start < c.end /\ Aligned(c.given, c.start, c.end, c.replacements)}
=============================================================================
