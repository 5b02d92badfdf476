-------------------------------- MODULE Grids --------------------------------
(* Arrays of any number of axes: subscripts count from 1, and elements are    *)
(* stored with the first axis varying fastest.                                *)
EXTENDS Integers, FiniteSetsExt, SequencesExt

\* The numbers of elements in the first k axes of an array of dimensions d.
Strides(d) ==
    LET upto[k \in 0..Len(d)] == IF k = 0 THEN 1 ELSE upto[k - 1] * d[k] IN upto

Product(d) == Strides(d)[Len(d)]

\* The subscripts in an array of dimensions d.
Subscripts(d) == {s \in [DOMAIN d -> 1..Max({0} \cup ToSet(d))] :
                    \A i \in DOMAIN d : s[i] <= d[i]}

\* The position of subscripts s in the order of storage, from 1: what it is
\* in the first k axes, and in all of them.
Places(d, s) ==
    LET at[k \in 0..Len(d)] == IF k = 0 THEN 1 ELSE at[k - 1] + (s[k] - 1) * Strides(d)[k - 1]
    IN at

Position(d, s) == Places(d, s)[Len(d)]

\* What is left of element number idx, from 1, when the axes beyond c have been
\* taken off.
Remainders(idx, d) ==
    LET rest[c \in 1..Len(d)] ==
            IF c = Len(d) THEN idx
            ELSE rest[c + 1] - ((rest[c + 1] - 1) \div Strides(d)[c]) * Strides(d)[c]
    IN rest

\* dat1Index2Coords: element number, from 1, to subscripts.
Index2Coords(idx, d) ==
    LET rest == Remainders(idx, d)
    IN [c \in DOMAIN d |-> IF c = 1 THEN rest[1] ELSE (rest[c] - 1) \div Strides(d)[c - 1] + 1]
=============================================================================
