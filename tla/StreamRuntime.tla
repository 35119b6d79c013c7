--------------------------- MODULE StreamRuntime ----------------------------
(***************************************************************************)
(* The stream runtime (runtime.c and stream_compress_impl.h): what a       *)
(* stream keeps between calls, and every call of the API that reads or     *)
(* writes it.  Between two writes a stream keeps the last HistoryRequired  *)
(* bytes, its offset, its status flags and its exhaustion vector, and not  *)
(* the data; it must nevertheless report what a scan of all of the data    *)
(* would.  That is the abstract module StreamSpec, and the refinement      *)
(* StreamRuntime => StreamSpec is the main property.                       *)
(*                                                                         *)
(* A call is one step: the in_use mark of the scratch keeps two calls from *)
(* overlapping (module Scratch).  text and seen are history variables, the *)
(* data written to a stream and the reports made for it.                   *)
(***************************************************************************)
EXTENDS Matching

CONSTANTS
    HistoryRequired,  \* rose->historyRequired
    U32,              \* the number of values of a u32, scaled down
    Junk,             \* a byte no call has written
    MaxText,          \* bound on the data written to a stream
    MaxWrite          \* bound on one write

ASSUME StreamAssumption ==
    /\ HistoryRequired \in Nat
    /\ U32 \in Nat \ {0}
    /\ Junk \notin Bytes
    /\ MaxText \in Nat /\ MaxWrite \in Nat
    \* A literal matcher keeps enough history to finish any literal.
    /\ \A a \in Applications : \A p \in DOMAIN a.pat :
            Len(a.pat[p].lit) =< HistoryRequired + 1

VARIABLES
    live,    \* streams that are open
    stream,  \* stream[s]: [offset, history, status, evec]
    buf,     \* buf[b]: the compressed stream in buffer b
    text, seen, out

vars == <<app, live, stream, buf, text, seen, out>>

Writes == UNION {[1 .. n -> Bytes] : n \in 0 .. MaxWrite}
Least(a, b) == IF a =< b THEN a ELSE b
Broken == {"TERMINATED", "EXHAUSTED"}

-----------------------------------------------------------------------------
(* The state of a stream and what a scan does to it.                       *)

\* Mutant of getHistoryAmount: bytes from before the stream's start are used.
getAllHistory(offset) == HistoryRequired

getHistoryAmount(offset) == Least(HistoryRequired, offset)

getHistory(z) ==
    LET n == getHistoryAmount(z.offset)
    IN  [i \in 1 .. n |-> z.history[HistoryRequired - n + i]]

\* init_stream(s, rose, init_history): a reset keeps the history's old bytes.
init_stream(history) ==
    [offset |-> 0, history |-> history, status |-> {}, evec |-> {}]

Uninitialised == [i \in 1 .. HistoryRequired |-> Junk]
Closed == init_stream(Uninitialised)

\* Mutant of maintainHistoryBuffer: the older bytes are not moved up.
maintainWithoutMove(history, data) ==
    [i \in 1 .. HistoryRequired |->
        LET j == i + Len(data)
        IN  IF j =< HistoryRequired THEN history[i] ELSE data[j - HistoryRequired]]

maintainHistoryBuffer(history, data) ==
    [i \in 1 .. HistoryRequired |->
        LET j == i + Len(data)
        IN  IF j =< HistoryRequired THEN history[j] ELSE data[j - HistoryRequired]]

KeysOf(reports) == {r[1] : r \in reports} \cap Single

isAllExhausted(evec) == Patterns # {} /\ evec = Patterns

BoundaryZero == At(OfKind("zero"), 0)
BoundaryEod(offset) == At(OfKind("eod"), offset)
BoundaryZeroEod ==
    BoundaryZero \cup At(OfKind("zero_eod"), 0) \cup BoundaryEod(0)

\* The literal matcher over data, with the history before it.
hwlmExec(history, offset, data) ==
    LET n == Len(history)
    IN  UNION {At(EndingAt(history \o data, n + k), offset + k) : k \in 1 .. Len(data)}

\* The outcomes of hs_scan_stream_internal on state z.
hs_scan_stream_internal(z, data) ==
    IF z.status \cap Broken # {} \/ data = <<>>
    THEN {[z |-> z, out |-> {}, halt |-> FALSE]}
    ELSE LET zero == IF z.offset = 0 THEN BoundaryZero ELSE {}
             due  == zero \cup hwlmExec(getHistory(z), z.offset, data)
             After(r) ==
                LET evec   == z.evec \cup KeysOf(r.acked)
                    status == IF r.halt THEN {"TERMINATED"}
                              ELSE IF isAllExhausted(evec) THEN {"EXHAUSTED"}
                              ELSE {}
                IN  IF status = {}
                    THEN [offset  |-> z.offset + Len(data),
                          history |-> maintainHistoryBuffer(z.history, data),
                          status  |-> status, evec |-> evec]
                    ELSE [z EXCEPT !.status = status, !.evec = evec]
         IN  {[z |-> After(r), out |-> r.out, halt |-> r.halt] :
                r \in Deliveries(FirstOnly(due, z.evec))}

\* Mutant of report_eod_matches: an empty stream is not told apart.
report_eod_only(z) ==
    IF z.status \cap Broken # {} THEN Deliveries({})
    ELSE Deliveries(FirstOnly(BoundaryEod(z.offset), z.evec))

\* The outcomes of report_eod_matches on state z: the reports it makes.
report_eod_matches(z) ==
    IF z.status \cap Broken # {} THEN Deliveries({})
    ELSE LET due == IF z.offset = 0 THEN BoundaryZeroEod ELSE BoundaryEod(z.offset)
         IN  Deliveries(FirstOnly(due, z.evec))

\* Mutant of compress_stream: the exhaustion vector is left out.
compressWithoutEvec(z) ==
    LET n == Least(z.offset, HistoryRequired)
    IN  [offset |-> z.offset, status |-> z.status, evec |-> {},
         history |-> [i \in 1 .. n |-> z.history[HistoryRequired - n + i]]]

\* compress_stream, and expand_stream over a stream whose memory is z.
compress_stream(z) ==
    LET n == Least(z.offset % U32, HistoryRequired)
    IN  [offset |-> z.offset, status |-> z.status, evec |-> z.evec,
         history |-> [i \in 1 .. n |-> z.history[HistoryRequired - n + i]]]

expand_stream(z, b) ==
    LET n == Len(b.history)
    IN  [offset |-> b.offset, status |-> b.status, evec |-> b.evec,
         history |-> [i \in 1 .. HistoryRequired |->
                        LET j == i - (HistoryRequired - n)
                        IN  IF j >= 1 THEN b.history[j] ELSE z.history[i]]]

-----------------------------------------------------------------------------
(* The calls.                                                              *)

NoBuf == [kept |-> FALSE, z |-> compress_stream(Closed), text |-> <<>>, seen |-> {}]

Init ==
    /\ app \in Applications
    /\ live = {}
    /\ stream = [s \in Streams |-> Closed]
    /\ buf = [b \in Buffers |-> NoBuf]
    /\ text = [s \in Streams |-> <<>>]
    /\ seen = [s \in Streams |-> {}]
    /\ out = Silent

\* s holds state z, and its data and reports are those of t and r.
Become(s, z, t, r) ==
    /\ stream' = [stream EXCEPT ![s] = z]
    /\ text' = [text EXCEPT ![s] = t]
    /\ seen' = [seen EXCEPT ![s] = r]

hs_open_stream(s) ==
    /\ "HS_MODE_STREAM" \in Modes
    /\ s \notin live
    /\ live' = live \cup {s}
    /\ Become(s, init_stream(Uninitialised), <<>>, {})
    /\ out' = Silent /\ UNCHANGED <<app, buf>>

hs_scan_stream(s, data) ==
    /\ s \in live
    /\ Len(text[s]) + Len(data) =< MaxText
    /\ \E r \in hs_scan_stream_internal(stream[s], data) :
        /\ Become(s, r.z,
                  IF "TERMINATED" \in stream[s].status THEN text[s] ELSE text[s] \o data,
                  seen[s] \cup r.out)
        /\ out' = Call(<<>>, TRUE, r.out, r.halt)
    /\ UNCHANGED <<app, live, buf>>

\* The calls below report the end of s's data if they are given a callback.
EndOfData(s, onEvent) ==
    \E r \in (IF onEvent THEN report_eod_matches(stream[s]) ELSE Deliveries({})) :
        out' = Call(<<>>, onEvent, r.out, r.halt)

hs_close_stream(s, onEvent) ==
    /\ s \in live
    /\ EndOfData(s, onEvent)
    /\ live' = live \ {s}
    /\ Become(s, Closed, <<>>, {}) /\ UNCHANGED <<app, buf>>

hs_reset_stream(s, onEvent) ==
    /\ s \in live
    /\ EndOfData(s, onEvent)
    /\ Become(s, init_stream(stream[s].history), <<>>, {})
    /\ UNCHANGED <<app, live, buf>>

hs_copy_stream(s, from) ==
    /\ s \notin live /\ from \in live
    /\ live' = live \cup {s}
    /\ Become(s, stream[from], text[from], seen[from])
    /\ out' = Silent /\ UNCHANGED <<app, buf>>

hs_reset_and_copy_stream(s, from, onEvent) ==
    /\ s \in live /\ from \in live /\ s # from
    /\ EndOfData(s, onEvent)
    /\ Become(s, stream[from], text[from], seen[from])
    /\ UNCHANGED <<app, live, buf>>

hs_compress_stream(s, b) ==
    /\ s \in live
    /\ buf' = [buf EXCEPT ![b] = [kept |-> TRUE, z |-> compress_stream(stream[s]),
                                 text |-> text[s], seen |-> seen[s]]]
    /\ out' = Silent /\ UNCHANGED <<app, live, stream, text, seen>>

hs_expand_stream(s, b) ==
    /\ s \notin live /\ buf[b].kept
    /\ live' = live \cup {s}
    /\ Become(s, expand_stream(Closed, buf[b].z), buf[b].text, buf[b].seen)
    /\ out' = Silent /\ UNCHANGED <<app, buf>>

hs_reset_and_expand_stream(s, b, onEvent) ==
    /\ s \in live /\ buf[b].kept
    /\ EndOfData(s, onEvent)
    /\ Become(s, expand_stream(stream[s], buf[b].z), buf[b].text, buf[b].seen)
    /\ UNCHANGED <<app, live, buf>>

\* hs_scan_vector of two blocks, through a stream kept in scratch->bstate.
hs_scan_vector(d, e) ==
    LET Answer(reports, halt) == out' = Call(d \o e, TRUE, reports, halt)
    IN  /\ "HS_MODE_VECTORED" \in Modes
        /\ \E a \in hs_scan_stream_internal(init_stream(Uninitialised), d) :
            IF a.halt THEN Answer(a.out, TRUE)
            ELSE \E b \in hs_scan_stream_internal(a.z, e) :
                IF b.halt THEN Answer(a.out \cup b.out, TRUE)
                ELSE \E r \in report_eod_matches(b.z) :
                        Answer(a.out \cup b.out \cup r.out, r.halt)
        /\ UNCHANGED <<app, live, stream, buf, text, seen>>

\* rose->minWidthExcludingBoundaries and rose->minWidth.
MinWidthExcludingBoundaries ==
    LET lens == {Len(Pat[p].lit) : p \in OfKind("lit")}
    IN  IF lens = {} THEN 0 ELSE CHOOSE n \in lens : \A m \in lens : n =< m

MinWidth == IF Patterns = OfKind("lit") THEN MinWidthExcludingBoundaries ELSE 0

hs_scan(data) ==
    LET n == Len(data)
        body == BoundaryZero \cup (IF MinWidthExcludingBoundaries > n THEN {}
                                   ELSE hwlmExec(<<>>, 0, data))
        Answer(reports, halt) == out' = Call(data, TRUE, reports, halt)
    IN  /\ "HS_MODE_BLOCK" \in Modes
        /\ IF MinWidth > n THEN Answer({}, FALSE)
           ELSE IF n = 0
           THEN \E r \in Deliveries(FirstOnly(BoundaryZeroEod, {})) : Answer(r.out, r.halt)
           ELSE \E a \in Deliveries(FirstOnly(body, {})) :
                  IF a.halt THEN Answer(a.out, TRUE)
                  ELSE \E b \in Deliveries(FirstOnly(BoundaryEod(n), KeysOf(a.acked))) :
                            Answer(a.out \cup b.out, b.halt)
        /\ UNCHANGED <<app, live, stream, buf, text, seen>>

Next ==
    \/ \E s \in Streams : hs_open_stream(s)
    \/ \E s \in Streams, d \in Writes : hs_scan_stream(s, d)
    \/ \E s \in Streams, onEvent \in BOOLEAN : hs_close_stream(s, onEvent)
    \/ \E s \in Streams, onEvent \in BOOLEAN : hs_reset_stream(s, onEvent)
    \/ \E s, f \in Streams : hs_copy_stream(s, f)
    \/ \E s, f \in Streams, onEvent \in BOOLEAN : hs_reset_and_copy_stream(s, f, onEvent)
    \/ \E s \in Streams, b \in Buffers : hs_compress_stream(s, b)
    \/ \E s \in Streams, b \in Buffers : hs_expand_stream(s, b)
    \/ \E s \in Streams, b \in Buffers, onEvent \in BOOLEAN :
            hs_reset_and_expand_stream(s, b, onEvent)
    \/ \E d, e \in Writes : hs_scan_vector(d, e)
    \/ \E d, e \in Writes : hs_scan(d \o e)

Spec == Init /\ [][Next]_vars

-----------------------------------------------------------------------------
(* Properties.                                                             *)

\* The history getHistory hands to a scan is the tail of the data written to
\* the stream, whatever sequence of writes, resets, copies, compressions and
\* expansions the stream went through: "copy the real bits of history".
HistoryIsTail ==
    \A s \in live : stream[s].status = {} =>
        LET n == getHistoryAmount(stream[s].offset)
        IN  /\ stream[s].offset = Len(text[s])
            /\ getHistory(stream[s]) = SubSeq(text[s], Len(text[s]) - n + 1, Len(text[s]))

\* The exhaustion vector that travels with a stream records exactly the
\* single-match patterns reported for its data, so that none of them is
\* reported twice, or suppressed before it was ever reported.
EvecRecordsReports ==
    \A s \in live : "TERMINATED" \notin stream[s].status =>
        /\ stream[s].evec = KeysOf(seen[s])
        /\ \A q, r \in seen[s] : q[1] \in Single /\ q[1] = r[1] => q = r

PhaseOf(isLive, z) ==
    IF ~isLive THEN "free" ELSE IF "TERMINATED" \in z.status THEN "stopped" ELSE "open"

Promise == INSTANCE StreamSpec WITH
    phase <- [s \in Streams |-> PhaseOf(s \in live, stream[s])],
    saved <- [b \in Buffers |-> [text |-> buf[b].text, seen |-> buf[b].seen,
                                 phase |-> PhaseOf(buf[b].kept, buf[b].z)]]

\* The runtime keeps the promise of StreamSpec: every call reports exactly what
\* is due for the whole data of its stream, however the data was cut into
\* writes and wherever the stream was copied or compressed; and a vectored scan,
\* a block scan and a stream over the same data report the same.
KeepsPromise == Promise!Spec
=============================================================================
