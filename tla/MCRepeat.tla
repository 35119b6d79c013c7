------------------------------ MODULE MCRepeat ------------------------------
(***************************************************************************)
(* Repeats small enough to check, with the thresholds that choose among    *)
(* the stores scaled down: a word of 4 bits instead of 64, 8 range slots   *)
(* instead of 16, and tops 2 apart enough for a sparse store instead of 7. *)
(* Every store is chosen, each at the edges of its range: minimum at, just *)
(* under and just over the word, one window of matches or several, rings   *)
(* that wrap more than once before LastOffset.                             *)
(***************************************************************************)
EXTENDS Repeat

R(min, max, minPeriod) ==
    [min |-> min, max |-> max, minPeriod |-> minPeriod, can_reset |-> FALSE]

Resetting(r) == [r EXCEPT !.can_reset = TRUE]

MCRepeats ==
    {R(2, REPEAT_INF, 1),                            \* FIRST
     R(0, 3, 1), Resetting(R(2, 4, 1)), R(5, 5, 6),  \* LAST
     R(1, 3, 1), R(2, 3, 1), R(3, 3, 1),             \* BITMAP and TRAILER
     R(2, 5, 1), R(3, 4, 1), R(4, 4, 1), R(4, 6, 1), \* TRAILER
     R(5, 7, 1),                                     \* RANGE
     R(5, 5, 1), R(5, 6, 1),                         \* RING
     R(5, 6, 2), R(6, 6, 3)}                         \* SPARSE_OPTIMAL_P

\* States are the same that differ only in a lastEscape no top is below any more.
Relevant ==
    <<info, ctrl, state, offset, escapes, tops, IF lastEscape > offset THEN lastEscape ELSE 0>>
=============================================================================
