------------------------------ MODULE Matching ------------------------------
(***************************************************************************)
(* The pattern set of a database, reduced to what the stream runtime tells *)
(* apart, and how reports reach the caller.  Shared by the specification   *)
(* of a stream, StreamSpec, and the runtime that implements it,            *)
(* StreamRuntime.                                                          *)
(*                                                                         *)
(* A pattern is a literal, or one of the vacuous patterns that boundary    *)
(* programs report: at offset 0 ("zero"), at the end of data ("eod"), or   *)
(* at offset 0 when that is the end of data ("zero_eod").  A pattern in    *)
(* Single (HS_FLAG_SINGLEMATCH) has an exhaustion key of its own.          *)
(***************************************************************************)
EXTENDS Integers, Sequences, FiniteSets

CONSTANTS
    Bytes,        \* the alphabet
    Applications  \* what may be scanned with, and how: see ApplicationAssumption

VARIABLE app      \* the application, chosen once

Modes    == app.modes    \* the modes the patterns are compiled for, a database each
Pat      == app.pat      \* Pat[p]: [kind, lit]
Patterns == DOMAIN Pat   \* pattern identifiers
Single   == app.single   \* patterns that match at most once
Streams  == app.streams  \* stream handles
Buffers  == app.buffers  \* the application's buffers for compressed streams

Kinds == {"lit", "zero", "eod", "zero_eod"}

ASSUME ApplicationAssumption ==
    \A a \in Applications :
        /\ a.modes \subseteq {"HS_MODE_BLOCK", "HS_MODE_STREAM", "HS_MODE_VECTORED"}
        /\ a.pat \in [DOMAIN a.pat -> [kind : Kinds, lit : Seq(Bytes)]]
        /\ \A p \in DOMAIN a.pat : a.pat[p].kind = "lit" => a.pat[p].lit # <<>>
        /\ a.single \subseteq DOMAIN a.pat

OfKind(k) == {p \in Patterns : Pat[p].kind = k}

\* Literals that end at position k of the bytes w.
EndingAt(w, k) ==
    {p \in OfKind("lit") :
        LET n == Len(Pat[p].lit)
        IN  n =< k /\ SubSeq(w, k - n + 1, k) = Pat[p].lit}

\* A report is a pattern and the offset after the match's last byte.
At(ps, to) == {<<p, to>> : p \in ps}

\* Mutant of FirstOnly: the exhaustion vector is not consulted.
FirstOnlyUnkeyed(reports, evec) ==
    {r \in reports : r[1] \in Single =>
        \A q \in reports : q[1] = r[1] => r[2] =< q[2]}

\* The reports a single-match pattern keeps: its first, if its key is not set.
FirstOnly(reports, evec) ==
    {r \in reports : r[1] \in Single =>
        /\ r[1] \notin evec
        /\ \A q \in reports : q[1] = r[1] => r[2] =< q[2]}

\* The ways the due reports can reach the callback: all of them, or those up
\* to one whose callback asks to stop.  Reports come in order of their offsets;
\* at one offset, in any order.  The callback let matching go on after the
\* reports in acked.
Deliveries(due) ==
    {[out |-> due, acked |-> due, halt |-> FALSE]} \cup
    UNION {{[out |-> Q, acked |-> Q \ {r}, halt |-> TRUE] : r \in
                {r \in Q : /\ \A q \in Q : q[2] =< r[2]
                           /\ \A d \in due \ Q : r[2] =< d[2]}}
           : Q \in SUBSET due}

\* What the caller of a call knows: the data it gave a block or vectored scan,
\* whether it passed a callback, the reports that reached it, and whether it
\* asked to stop.
Call(data, onEvent, reports, halt) ==
    [data |-> data, onEvent |-> onEvent, reports |-> reports, halt |-> halt]

Silent == Call(<<>>, FALSE, {}, FALSE)
=============================================================================
