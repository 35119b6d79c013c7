----------------------------- MODULE MCScratch -----------------------------
(***************************************************************************)
(* Four small databases for module Scratch: two block databases neither of *)
(* which dominates the other, a vectored and a streaming one.              *)
(***************************************************************************)
EXTENDS Scratch

CONSTANTS b1, b2, v, s

MCDatabases == {b1, b2, v, s}

\* Sizes: queueCount is q, som_store_count is m, everything else is 0.
Sizes(q, m) == [f \in SizeFields |->
    CASE f = "queueCount" -> q [] f = "som_store_count" -> m [] OTHER -> 0]

MCRose == [d \in MCDatabases |->
    CASE d = b1 -> [mode |-> "BLOCK", stateEnd |-> 2, dkeyCount |-> 1,
                    dkeyLogSize |-> 1, size |-> Sizes(1, 0)]
      [] d = b2 -> [mode |-> "BLOCK", stateEnd |-> 1, dkeyCount |-> 2,
                    dkeyLogSize |-> 2, size |-> Sizes(1, 1)]
      [] d = v  -> [mode |-> "VECTORED", stateEnd |-> 2, dkeyCount |-> 0,
                    dkeyLogSize |-> 0, size |-> Sizes(0, 1)]
      [] d = s  -> [mode |-> "STREAM", stateEnd |-> 9, dkeyCount |-> 0,
                    dkeyLogSize |-> 0, size |-> Sizes(2, 0)]]
=============================================================================
