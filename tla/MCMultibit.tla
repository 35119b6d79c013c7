----------------------------- MODULE MCMultibit -----------------------------
(***************************************************************************)
(* Three levels of blocks of two bits and seven keys, so that every level  *)
(* ends in a runt; the memory is first all zeroes or all ones.  Flat       *)
(* multibits have blocks of two one-bit bytes, and also of two two-bit     *)
(* bytes, so that one to seven keys are one block or less, several blocks, *)
(* and several with a runt that ends inside a byte.                        *)
(***************************************************************************)
EXTENDS MultibitScan

MCDigit == 0..(MMB_KEY_BITS - 1)
MCKeys == {KeyOf(n) : n \in 0..(total_bits - 1)}
MCRanges == {{KeyOf(n) : n \in r} : r \in {0..6, 1..4, 2..3, 3..3, 5..6, {}}}
MCIters == {{KeyOf(n) : n \in s} : s \in {0..6, {0, 2}, {1, 2}, {2, 3, 5}, {6}}}
MCMemories == {[b \in Blocks |-> {}], [b \in Blocks |-> MCDigit]}
Memory == bits
=============================================================================
