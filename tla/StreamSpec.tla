----------------------------- MODULE StreamSpec -----------------------------
(***************************************************************************)
(* What the streaming interface promises, with no history buffer, no state *)
(* flags and no scratch: a stream is the data written to it so far, and    *)
(* the reports of a call are those of the whole data that have not been    *)
(* made yet.  How the data was cut into writes, and whether the stream was *)
(* copied, or compressed and expanded on the way, makes no difference.  A  *)
(* block scan and a vectored scan report what a stream would.              *)
(***************************************************************************)
EXTENDS Matching

CONSTANT MaxWrite   \* bound on one write

VARIABLES
    text,   \* text[s]: the data written to s
    seen,   \* seen[s]: the reports made for s
    phase,  \* "free", "open", or "stopped" by a callback
    saved,  \* saved[b]: a compressed stream, [text, seen, phase]
    out     \* the latest call

vars == <<app, text, seen, phase, saved, out>>

Writes == UNION {[1 .. n -> Bytes] : n \in 0 .. MaxWrite}

\* The reports of data t that is still being written, and of all of it.
Expected(t) ==
    FirstOnly((UNION {At(EndingAt(t, k), k) : k \in 1 .. Len(t)})
                \cup At(IF t = <<>> THEN {} ELSE OfKind("zero"), 0), {})

ExpectedAtEnd(t) ==
    Expected(t)
        \cup At(OfKind("eod"), Len(t))
        \cup At(IF t = <<>> THEN OfKind("zero_eod") \cup OfKind("zero") ELSE {}, 0)

Init ==
    /\ app \in Applications
    /\ text = [s \in Streams |-> <<>>]
    /\ seen = [s \in Streams |-> {}]
    /\ phase = [s \in Streams |-> "free"]
    /\ saved = [b \in Buffers |-> [text |-> <<>>, seen |-> {}, phase |-> "free"]]
    /\ out = Silent

\* s becomes a stream with this data, these reports and this phase.
Become(s, t, r, ph) ==
    /\ text' = [text EXCEPT ![s] = t]
    /\ seen' = [seen EXCEPT ![s] = r]
    /\ phase' = [phase EXCEPT ![s] = ph]

Open(s) ==
    /\ "HS_MODE_STREAM" \in Modes
    /\ phase[s] = "free"
    /\ Become(s, <<>>, {}, "open")
    /\ out' = Silent /\ UNCHANGED <<app, saved>>

\* A write to a stopped stream reports nothing.
Write(s, d) ==
    /\ phase[s] # "free"
    /\ IF phase[s] = "stopped" THEN UNCHANGED <<text, seen, phase>> /\ out' = Call(<<>>, TRUE, {}, FALSE)
       ELSE \E r \in Deliveries(Expected(text[s] \o d) \ seen[s]) :
                /\ Become(s, text[s] \o d, seen[s] \cup r.out,
                          IF r.halt THEN "stopped" ELSE "open")
                /\ out' = Call(<<>>, TRUE, r.out, r.halt)
    /\ UNCHANGED <<app, saved>>

\* The end-of-data reports of s, if the call on s has a callback.
Ending(s, onEvent) ==
    IF phase[s] = "open" /\ onEvent
    THEN \E r \in Deliveries(ExpectedAtEnd(text[s]) \ seen[s]) :
            out' = Call(<<>>, TRUE, r.out, r.halt)
    ELSE out' = Call(<<>>, onEvent, {}, FALSE)

Close(s, onEvent) ==
    /\ phase[s] # "free"
    /\ Ending(s, onEvent)
    /\ Become(s, <<>>, {}, "free") /\ UNCHANGED <<app, saved>>

Reset(s, onEvent) ==
    /\ phase[s] # "free"
    /\ Ending(s, onEvent)
    /\ Become(s, <<>>, {}, "open") /\ UNCHANGED <<app, saved>>

\* s becomes a copy of f; an open s is ended first.
Copy(s, f, onEvent) ==
    /\ s # f /\ phase[f] # "free"
    /\ IF phase[s] = "free" THEN out' = Silent ELSE Ending(s, onEvent)
    /\ Become(s, text[f], seen[f], phase[f]) /\ UNCHANGED <<app, saved>>

Save(s, b) ==
    /\ phase[s] # "free"
    /\ saved' = [saved EXCEPT ![b] =
                    [text |-> text[s], seen |-> seen[s], phase |-> phase[s]]]
    /\ out' = Silent /\ UNCHANGED <<app, text, seen, phase>>

Restore(s, b, onEvent) ==
    /\ saved[b].phase # "free"
    /\ IF phase[s] = "free" THEN out' = Silent ELSE Ending(s, onEvent)
    /\ Become(s, saved[b].text, saved[b].seen, saved[b].phase) /\ UNCHANGED <<app, saved>>

\* A block or vectored scan of data t.
Scan(t) ==
    /\ Modes # {"HS_MODE_STREAM"}
    /\ out'.data = t  \* implied by the next line, and quick to refute
    /\ \E r \in Deliveries(ExpectedAtEnd(t)) : out' = Call(t, TRUE, r.out, r.halt)
    /\ UNCHANGED <<app, text, seen, phase, saved>>

Next ==
    \/ \E s \in Streams : Open(s)
    \/ \E s \in Streams, d \in Writes : Write(s, d)
    \/ \E s \in Streams, onEvent \in BOOLEAN :
        \/ Close(s, onEvent) \/ Reset(s, onEvent)
        \/ \E f \in Streams : Copy(s, f, onEvent)
        \/ \E b \in Buffers : Restore(s, b, onEvent)
    \/ \E s \in Streams, b \in Buffers : Save(s, b)
    \/ \E d, e \in Writes : Scan(d \o e)

Spec == Init /\ [][Next]_vars
=============================================================================
