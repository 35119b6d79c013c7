----------------------------- MODULE MCDeduper -----------------------------
(***************************************************************************)
(* One plain key and two start-of-match keys, so that a flush can be       *)
(* stopped between two reports; offsets 0 to 3, so that the scan can stay, *)
(* advance by one, skip an offset, and start at 0 where ~0 + 1 wraps.      *)
(***************************************************************************)
EXTENDS Deduper
=============================================================================
