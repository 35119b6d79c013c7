----------------------------- MODULE MCChimera -----------------------------
(***************************************************************************)
(* Texts of no bytes and of three, one with a two-byte codepoint and one   *)
(* that is not UTF-8, scanned with databases that between them have every  *)
(* kind of pattern, every database flag, and a queue of four.              *)
(***************************************************************************)
EXTENDS Chimera, TLC

Block(length, cont, valid) == [length |-> length, cont |-> cont, valid |-> valid]
BlocksDef == {Block(0, {}, TRUE), Block(3, {}, TRUE), Block(3, {2}, TRUE),
              Block(3, {}, FALSE)}

Pattern(kind, width, single, utf8, unordered, matches) ==
    [kind |-> kind, width |-> width, single |-> single, utf8 |-> utf8,
     unordered |-> unordered, matches |-> matches]

NoMatch == <<>>
\* Matches of one width, from some sets of starts.
OfWidth(w, starts) == {[x \in S |-> x + w] : S \in starts}
\* a* on "aab", an empty match everywhere, and at the end only.
Star  == [x \in 0 .. 3 |-> IF x < 2 THEN 2 ELSE x]
Empty == [x \in 0 .. 3 |-> x]
Last  == 3 :> 3
\* Overlapping matches, and one that spans the text.
Pair  == 0 :> 2 @@ 1 :> 3
Long  == 0 :> 3
Late  == 1 :> 1 @@ 3 :> 3
Zero  == 0 :> 0

Fixed1   == Pattern("fixed", 1, FALSE, FALSE, FALSE,
                    OfWidth(1, {{}, {0, 2}, {0, 1, 2}}))
Fixed2   == Pattern("fixed", 2, FALSE, FALSE, FALSE,
                    OfWidth(2, {{}, {1}, {0, 1}}))
Single1  == Pattern("fixed", 1, TRUE, FALSE, FALSE,
                    OfWidth(1, {{}, {1}, {0, 1, 2}}))
Confirm1 == Pattern("confirm", 0, FALSE, FALSE, TRUE, {NoMatch, Pair, Star})
ConfirmS == Pattern("confirm", 0, TRUE, FALSE, FALSE, {NoMatch, Pair, Empty, Zero})
Utf8     == Pattern("unguarded", 0, FALSE, TRUE, FALSE, {NoMatch, Late, Long, Zero})
Plain(f) == Pattern("unguarded", 0, FALSE, FALSE, FALSE, {f, Zero})

DatabasesDef ==
    [mixed     |-> <<Fixed1, Fixed2, Confirm1>>,
     utf8      |-> <<Fixed2, Utf8>>,
     confirm   |-> <<Confirm1, ConfirmS>>,
     single    |-> <<Single1, ConfirmS>>,
     unguarded |-> <<Plain(Last), Plain(Pair), Plain(Star), Plain(Long)>>]
=============================================================================
