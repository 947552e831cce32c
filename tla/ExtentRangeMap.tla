--------------------------- MODULE ExtentRangeMap ---------------------------
(***************************************************************************)
(* rangemap/extent_range_map.go: the index of a write log, a radix tree of *)
(* extents keyed by their offset.  The tree is the set of its extents; its *)
(* iterators visit them in the order of their offsets.                     *)
(***************************************************************************)
EXTENDS Integers, Sequences, FiniteSetsExt

LOCAL S == INSTANCE SequencesExt

EOF == -1   \* no such key
NoExtent == [off |-> 0, len |-> 0, val |-> 0]

End(e) == e.off + e.len
Contains(e, x) == x >= e.off /\ x < End(e)
Overlaps(e, f) == Contains(e, f.off) \/ Contains(f, e.off)

\* The extent DescendLessOrEqualI(x) meets first, in a set of at most one.
AtOrBelow(m, x) ==
    {e \in m : e.off <= x /\ \A f \in m : f.off <= x => f.off <= e.off}

\* GetWithRange (and Get): the extent x is in, in a set of at most one.
GetWithRange(m, x) == {e \in AtOrBelow(m, x) : Contains(e, x)}

\* The extents from the end of the range downwards, up to the first one that
\* does not overlap it.
getByteRange(m, o, n) ==
    LET r == [off |-> o, len |-> n] IN
    {e \in m : e.off < o + n /\ \A f \in m : f.off \in e.off..(o + n - 1) => Overlaps(r, f)}

\* Mutated form: an extent that sticks out at both ends loses its tail.
RemoveOneEnd(m, o, n) ==
    LET hit == getByteRange(m, o, n)
        heads == {[e EXCEPT !.len = o - e.off] : e \in {x \in hit : x.off < o}}
        tails == {[off |-> o + n, len |-> End(e) - (o + n), val |-> e.val] :
                     e \in {x \in hit : x.off >= o /\ End(x) > o + n}}
    IN  IF n = 0 THEN m ELSE (m \ hit) \cup heads \cup tails

\* What sticks out of the range at either end of an extent is kept.
Remove(m, o, n) ==
    LET hit == getByteRange(m, o, n)
        heads == {[e EXCEPT !.len = o - e.off] : e \in {x \in hit : x.off < o}}
        tails == {[off |-> o + n, len |-> End(e) - (o + n), val |-> e.val] :
                     e \in {x \in hit : End(x) > o + n}}
    IN  IF n = 0 THEN m ELSE (m \ hit) \cup heads \cup tails

Add(m, o, n, v) ==
    IF n = 0 THEN m ELSE Remove(m, o, n) \cup {[off |-> o, len |-> n, val |-> v]}

NextKey(m, x) ==
    LET above == {e.off : e \in {f \in m : f.off >= x}} IN
    IF GetWithRange(m, x) # {} THEN x ELSE IF above = {} THEN EOF ELSE Min(above)

\* From the end of the extent x is in, over every extent that starts where the
\* one before it ends.
NextEmpty(m, x) ==
    LET past[k \in Nat] == IF \E e \in m : e.off = k
                           THEN past[End(CHOOSE e \in m : e.off = k)]
                           ELSE k
        hit == GetWithRange(m, x)
    IN  IF hit = {} THEN x ELSE past[End(CHOOSE e \in hit : TRUE)]

EndOf(m) ==
    IF m = {} THEN 0 ELSE End(CHOOSE e \in m : \A f \in m : f.off <= e.off)

\* The callback of the ascent for the extent e: r is the range being collected,
\* out what has been handed to the caller.
Collect(acc, e, start) ==
    IF e.off < start
    THEN [acc EXCEPT !.r = [off |-> start, len |-> End(e) - start, val |-> e.val]]
    ELSE IF acc.r.val = e.val /\ e.off = End(acc.r)
    THEN [acc EXCEPT !.r.len = @ + e.len]
    ELSE [r |-> e, out |-> IF acc.r.len > 0 THEN Append(acc.out, acc.r) ELSE acc.out]

\* The ranges Iterate hands to a callback that never stops it: the extents are
\* visited upwards from the one start is in.
Iterate(m, start) ==
    LET first == Min({start} \cup {e.off : e \in GetWithRange(m, start)})
        Visit(acc, x) == IF \E e \in m : e.off = x
                         THEN Collect(acc, CHOOSE e \in m : e.off = x, start)
                         ELSE acc
        all == S!FoldLeft(Visit, [r |-> NoExtent, out |-> <<>>],
                          [k \in 1..(EndOf(m) - first) |-> first + k - 1])
    IN  IF all.r.len > 0 THEN Append(all.out, all.r) ELSE all.out
=============================================================================
