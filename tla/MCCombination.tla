--------------------------- MODULE MCCombination ---------------------------
(***************************************************************************)
(* Three sub-expressions, 0 to 2, and three combinations: 0 & 1, 0 | !1    *)
(* raised once, and !(1 & 2).                                              *)
(***************************************************************************)
EXTENDS Combination

CONSTANTS s1, s2, x1, x2

Op(o, l, r) == [op |-> o, lo |-> l, ro |-> r]

\* A NOT uses its right operand only.
MCTree == [i \in 3 .. 7 |->
    CASE i = 3 -> Op("AND", 0, 1)
      [] i = 4 -> Op("NOT", 0, 1)
      [] i = 5 -> Op("OR", 0, 4)
      [] i = 6 -> Op("AND", 1, 2)
      [] i = 7 -> Op("NOT", 0, 6)]

Comb(first, last, once) ==
    [start |-> first, result |-> last, ekey |-> once,
     min_offset |-> 0, max_offset |-> MaxOffset]

MCCombInfo == [c \in 0 .. 2 |->
    CASE c = 0 -> Comb(3, 3, FALSE)
      [] c = 1 -> Comb(4, 5, TRUE)
      [] c = 2 -> [Comb(6, 7, FALSE) EXCEPT !.min_offset = 1]]

OwnScratch    == [s \in Streams |-> IF s = s1 THEN x1 ELSE x2]
SharedScratch == [s \in Streams |-> x1]

\* No report is adjusted, or those of 1 and 2 are when the match ends in a
\* newline that $ allows.
Unadjusted == [l \in LKeys |-> {0}]
Adjusted   == [l \in LKeys |-> IF l = 0 THEN {0} ELSE {-1, 0}]
=============================================================================
