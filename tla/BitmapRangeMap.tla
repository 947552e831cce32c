--------------------------- MODULE BitmapRangeMap ---------------------------
(***************************************************************************)
(* rangemap/bitmap_range_map.go: the block index.  A leaf covers LeafSize  *)
(* keys (256 in the code); it is the function from its set bits to their   *)
(* values.  Two bit sets tell which leaves have some and which have all    *)
(* of their bits set.                                                      *)
(***************************************************************************)
EXTENDS Integers, Sequences, SequencesExt, TLC

CONSTANT LeafSize

EOF == -1   \* no such key
NoLeaf == [j \in {} |-> 0]
EmptyMap == [entries |-> [i \in {} |-> NoLeaf], part |-> {}, full |-> {}]

Bits == 0..(LeafSize - 1)
leafOf(x) == x \div LeafSize
bitOf(x) == x % LeafSize
getLeaf(m, i) == IF i \in DOMAIN m.entries THEN m.entries[i] ELSE NoLeaf

\* Mutated form: a leaf is taken for full once its first bit is set.
AddFullEarly(m, o, n, v) ==
    LET run == o..(o + n - 1)
        leaves == {leafOf(x) : x \in run}
        Grown(i) == [j \in {bitOf(x) : x \in {y \in run : leafOf(y) = i}} |-> v]
                    @@ getLeaf(m, i)
    IN  [entries |-> [i \in leaves |-> Grown(i)] @@ m.entries,
         part |-> m.part \cup {i \in leaves : DOMAIN getLeaf(m, i) = {}},
         full |-> m.full \cup {i \in leaves : 0 \in DOMAIN Grown(i)}]

\* Leaf by leaf: the values are set, a leaf that was empty enters part, one that
\* has become full enters full.
Add(m, o, n, v) ==
    LET run == o..(o + n - 1)
        leaves == {leafOf(x) : x \in run}
        Grown(i) == [j \in {bitOf(x) : x \in {y \in run : leafOf(y) = i}} |-> v]
                    @@ getLeaf(m, i)
    IN  [entries |-> [i \in leaves |-> Grown(i)] @@ m.entries,
         part |-> m.part \cup {i \in leaves : DOMAIN getLeaf(m, i) = {}},
         full |-> m.full \cup {i \in leaves : DOMAIN Grown(i) = Bits}]

Has(m, x) == bitOf(x) \in DOMAIN getLeaf(m, leafOf(x))
Get(m, x) == getLeaf(m, leafOf(x))[bitOf(x)]

EndOf(m) ==
    IF m.part = {} THEN 0
    ELSE Max(m.part) * LeafSize + Max(DOMAIN getLeaf(m, Max(m.part))) + 1

NextKey(m, x) ==
    LET here == {j \in DOMAIN getLeaf(m, leafOf(x)) : j >= bitOf(x)}
        later == {i \in m.part : i > leafOf(x)}
    IN  IF here # {} THEN leafOf(x) * LeafSize + Min(here)
        ELSE IF later = {} THEN EOF
        ELSE Min(later) * LeafSize + Min(DOMAIN m.entries[Min(later)])

\* The length of the bit set: one past the highest bit ever set.
fullLen(m) == IF m.full = {} THEN 0 ELSE Max(m.full) + 1

\* In a full leaf's rest, the next leaf that is not full is looked up; when the
\* bit set has no clear bit left it is the one past its end.
NextEmpty(m, x) ==
    LET clear == {j \in Bits \ DOMAIN getLeaf(m, leafOf(x)) : j >= bitOf(x)}
        clearStart == leafOf(x) + 1
        nonFull == {i \in clearStart..(fullLen(m) - 1) : i \notin m.full}
        next == IF nonFull # {} THEN Min(nonFull)
                ELSE IF clearStart < fullLen(m) THEN fullLen(m)
                ELSE clearStart
    IN  IF leafOf(x) \notin DOMAIN m.entries THEN x
        ELSE IF clear # {} THEN leafOf(x) * LeafSize + Min(clear)
        ELSE IF next \notin DOMAIN m.entries THEN next * LeafSize
        ELSE next * LeafSize + Min(Bits \ DOMAIN m.entries[next])

\* The ranges Iterate hands to a callback that never stops it: consecutive
\* keys with equal values, from start upwards.
Iterate(m, start) ==
    LET Visit(acc, x) ==
            IF ~Has(m, x) THEN acc
            ELSE IF acc.r.val = Get(m, x) /\ acc.r.off + acc.r.len = x
            THEN [acc EXCEPT !.r.len = @ + 1]
            ELSE [r |-> [off |-> x, len |-> 1, val |-> Get(m, x)],
                  out |-> IF acc.r.len > 0 THEN Append(acc.out, acc.r) ELSE acc.out]
        all == FoldLeft(Visit, [r |-> [off |-> 0, len |-> 0, val |-> 0], out |-> <<>>],
                        [k \in 1..(EndOf(m) - start) |-> start + k - 1])
    IN  IF all.r.len > 0 THEN Append(all.out, all.r) ELSE all.out
=============================================================================
