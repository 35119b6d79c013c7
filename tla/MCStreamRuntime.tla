-------------------------- MODULE MCStreamRuntime ---------------------------
(* Instances of StreamRuntime: a pattern set with a plain literal, a       *)
(* single-match literal and one pattern of each boundary kind; a set of    *)
(* single-match literals only, whose streams can be exhausted; and two for *)
(* scans of a single call, with and without boundary patterns.             *)
EXTENDS StreamRuntime

Lit(w) == [kind |-> "lit", lit |-> w]
Boundary(k) == [kind |-> k, lit |-> <<>>]

\* One stream and one buffer to compress it into.
Mixed ==
    [modes   |-> {"HS_MODE_STREAM"},
     pat     |-> <<Lit(<<"a", "a", "b">>), Lit(<<"b">>), Boundary("zero"),
                   Boundary("eod"), Boundary("zero_eod")>>,
     single  |-> {2, 4},
     streams |-> {"s1"}, buffers |-> {"b1"}]

\* Two streams that are copied to one another.
Literals ==
    [modes   |-> {"HS_MODE_STREAM"},
     pat     |-> <<Lit(<<"a", "a", "b">>), Lit(<<"b">>)>>,
     single  |-> {1, 2},
     streams |-> {"s1", "s2"}, buffers |-> {}]

\* One stream of literals and a buffer.
OneLiteralStream == [Literals EXCEPT !.streams = {"s1"}, !.buffers = {"b1"}]

\* Scans of a single call.
Scans ==
    [modes   |-> {"HS_MODE_BLOCK", "HS_MODE_VECTORED"},
     pat     |-> <<Lit(<<"a">>), Lit(<<"a", "b">>), Lit(<<"b", "a">>),
                   Boundary("zero"), Boundary("eod"), Boundary("zero_eod")>>,
     single  |-> {2, 5},
     streams |-> {}, buffers |-> {}]

WideScans ==
    [modes   |-> {"HS_MODE_BLOCK"},
     pat     |-> <<Lit(<<"a", "a">>), Lit(<<"a", "b">>), Lit(<<"b", "a", "b">>)>>,
     single  |-> {2},
     streams |-> {}, buffers |-> {}]

AllApplications == {Mixed, Literals, Scans, WideScans}
TruncatedApplications == {OneLiteralStream}

Letters == {"a", "b"}
=============================================================================
