--------------------------- MODULE MCDelaySlots ---------------------------
(***************************************************************************)
(* A ring of four slots, a literal of two bytes with delays of two and     *)
(* three, one of a single byte with a delay of one, and an anchored        *)
(* literal.  Nine bytes go round the ring twice.  Before offset 3 floating *)
(* literals are too early; anchored ones run at once up to there, and are  *)
(* logged at offsets 4 and 5.                                              *)
(***************************************************************************)
EXTENDS DelaySlots

LengthDef    == [l \in Literals |-> IF l = "ab" THEN 2 ELSE 1]
LiteralOfDef == [d \in Delayed |-> IF d = 2 THEN "c" ELSE "ab"]
DelayDef     == [d \in Delayed |-> CASE d = 1 -> 2 [] d = 2 -> 1 [] d = 3 -> 3]
=============================================================================
