------------------------------ MODULE Deduper ------------------------------
(***************************************************************************)
(* The match deduper of a scratch (struct match_deduper).                  *)
(*                                                                         *)
(* Several engines may find the same match.  The deduper lets the first    *)
(* report of a dedupe key at an end offset through and squashes the rest;  *)
(* for start-of-match patterns it holds the reports of an end offset back, *)
(* to raise one with the leftmost start.  An adjusted report (the $ of a   *)
(* multi-line pattern, seen one byte late) ends one byte before the offset *)
(* the scan is at, so two end offsets are live at a time and each log is   *)
(* kept twice, by the parity of the end offset.                            *)
(*                                                                         *)
(* The logs live in the scratch and are not cleared when a call returns:   *)
(* populateCoreInfo only resets current_report_offset to ~0 and raises     *)
(* som_log_dirty, and the first report of the next call does the clearing. *)
(*                                                                         *)
(* Expressions that share an id are taken to agree on                      *)
(* HS_FLAG_SOM_LEFTMOST, so a key is a start-of-match key or it is not.    *)
(***************************************************************************)
EXTENDS Integers, FiniteSets, Sequences, Functions

CONSTANTS
    DkeyCount,     \* dedupe keys are 0 .. DkeyCount - 1
    SomKeys,       \* the keys of start-of-match reports
    U64,           \* offsets are below this (2^64)
    MaxOffset,     \* bound on the offsets of reports
    MaxRaised      \* bound on the reports engines make in a call

Dkeys         == 0 .. DkeyCount - 1
MO_INVALID_IDX == DkeyCount          \* a report that needs no deduping
NoOffset      == U64 - 1             \* ~0ULL
Offsets       == 0 .. MaxOffset

ASSUME DeduperAssumption ==
    /\ DkeyCount \in Nat /\ SomKeys \subseteq Dkeys
    /\ U64 \in Nat /\ U64 % 2 = 0
    /\ MaxOffset \in Nat /\ MaxOffset < U64 - 2

VARIABLES
    log,                     \* log[i]: keys reported, at ends of parity i
    som_log,                 \* som_log[i]: keys held back, ditto, each with
                             \* its som_start_log[i], the leftmost start
    som_log_dirty,           \* bit 0: adjusted, bit 1: unadjusted reports held
    current_report_offset,
    call,                    \* "idle", "start", "scan", "flushed", "halted"
    offset,                  \* where the scan is
    raised,                  \* ghost: reports the engines made in this call
    delivered                \* ghost: what the user's callback got in it

deduper == <<log, som_log, som_log_dirty, current_report_offset>>
vars == <<deduper, call, offset, raised, delivered>>

Match(key, from, to) == [key |-> key, from |-> from, to |-> to]

Parities == {0, 1}
NoneHeld == [i \in Parities |-> <<>>]

----------------------------------------------------------------------------
Init ==
    /\ log = [i \in Parities |-> {}]
    /\ som_log = NoneHeld
    /\ som_log_dirty = 0
    /\ current_report_offset = 0
    /\ call = "idle"
    /\ offset = 0
    /\ raised = {}
    /\ delivered = <<>>

\* The som logs taken to be clean.
populateCoreInfoKeepingDirt(at) ==
    /\ call \in {"idle", "flushed", "halted"}
    /\ call' = "start"
    /\ offset' = at
    /\ current_report_offset' = NoOffset
    /\ raised' = {}
    /\ delivered' = <<>>
    /\ UNCHANGED <<log, som_log, som_log_dirty>>

\* A call of the API begins, on a block or at some offset of a stream.
populateCoreInfo(at) ==
    /\ call \in {"idle", "flushed", "halted"}
    /\ call' = "start"
    /\ offset' = at
    /\ current_report_offset' = NoOffset
    /\ som_log_dirty' = 1
    /\ raised' = {}
    /\ delivered' = <<>>
    /\ UNCHANGED <<log, som_log>>

----------------------------------------------------------------------------
(* Start-of-match reports held back.                                       *)

\* The keys of a log in the order fatbit_iterate finds them.
fatbit_iterate(held) ==
    CHOOSE keys \in UNION {[1 .. n -> held] : n \in 0 .. DkeyCount} :
        /\ Range(keys) = held
        /\ \A i, j \in DOMAIN keys : i < j => keys[i] < keys[j]

\* What clearSomLog gives the callback from log i, for an end offset.
clearSomLog(sl, i, to) ==
    LET keys == fatbit_iterate(DOMAIN sl[i])
    IN  [n \in DOMAIN keys |-> Match(keys[n], sl[i][keys[n]], to)]

\* A flush as the scan moves to an offset: the reports of the older end
\* offset, those of the newer, and the logs and dirty bits it leaves if the
\* callback lets it finish.
flushStoredSomMatches(sl, dirty, at) ==
    LET current == current_report_offset
        before  == (current - 1) % U64
        Plan(older, newer, left, bits) ==
            [older |-> older, newer |-> newer, som_log |-> left, dirty |-> bits]
    IN  IF dirty = 0
        THEN Plan(<<>>, <<>>, sl, 0)
        ELSE IF current = NoOffset
        THEN Plan(<<>>, <<>>, NoneHeld, 0)
        ELSE IF at = current + 1
        THEN Plan(clearSomLog(sl, at % 2, before), <<>>,
                  [sl EXCEPT ![at % 2] = <<>>], dirty \div 2)
        ELSE Plan(clearSomLog(sl, before % 2, before),
                  clearSomLog(sl, current % 2, current), NoneHeld, 0)

\* The callback stops a flush at its n-th report.  The log being read keeps
\* its keys; the dirty bits are lowered all the same.
HaltFlush(plan, sl, n) ==
    /\ delivered' = delivered \o SubSeq(plan.older \o plan.newer, 1, n)
    /\ som_log' = IF n > Len(plan.older)
                  THEN [sl EXCEPT ![(current_report_offset - 1) % 2] = <<>>]
                  ELSE sl
    /\ som_log_dirty' = plan.dirty
    /\ call' = "halted"
    /\ UNCHANGED current_report_offset

----------------------------------------------------------------------------
(* A report.                                                               *)

\* One log cleared however far the scan has moved.
ClearedLogsOfParity(at) ==
    IF at = current_report_offset THEN log ELSE [log EXCEPT ![at % 2] = {}]

\* The logs once the scan has moved on to an offset.  ~0 + 1 wraps to 0.
ClearedLogs(at) ==
    IF at = current_report_offset
    THEN log
    ELSE IF at = (current_report_offset + 1) % U64
    THEN [log EXCEPT ![at % 2] = {}]
    ELSE [i \in Parities |-> {}]

\* The dirty bits added up, not joined.
HoldSomAdding(sl, dirty, key, adjust, from, to) ==
    /\ som_log' = [sl EXCEPT ![to % 2] =
           IF key \in DOMAIN @ /\ @[key] < from THEN @
           ELSE [k \in DOMAIN @ \cup {key} |-> IF k = key THEN from ELSE @[k]]]
    /\ som_log_dirty' = dirty + IF adjust # 0 THEN 1 ELSE 2

\* A start-of-match report is held back, with the leftmost start so far.
HoldSom(sl, dirty, key, adjust, from, to) ==
    /\ som_log' = [sl EXCEPT ![to % 2] =
           IF key \in DOMAIN @ /\ @[key] < from THEN @
           ELSE [k \in DOMAIN @ \cup {key} |-> IF k = key THEN from ELSE @[k]]]
    /\ som_log_dirty' = IF adjust # 0
                        THEN 2 * (dirty \div 2) + 1
                        ELSE 2 + (dirty % 2)

\* Any other is squashed if its key is in the log, and delivered if not.
Deliver(logs, flushed, key, to, phase) ==
    IF key \in logs[to % 2]
    THEN /\ log' = logs
         /\ delivered' = flushed
         /\ call' = phase
    ELSE /\ log' = [logs EXCEPT ![to % 2] = @ \cup ({key} \cap Dkeys)]
         /\ delivered' = Append(flushed, Match(key, 0, to))
         /\ call' \in {phase, "halted"}

\* dedupeCatchup, and the delivery that follows it.
dedupeCatchup(sl, dirty, at, key, adjust, from, phase) ==
    LET to   == at + adjust
        plan == IF at # current_report_offset
                THEN flushStoredSomMatches(sl, dirty, at)
                ELSE [older |-> <<>>, newer |-> <<>>, som_log |-> sl,
                      dirty |-> dirty]
        held == plan.older \o plan.newer
    IN  \/ /\ \E n \in 1 .. Len(held) : HaltFlush(plan, sl, n)
           /\ log' = ClearedLogs(at)
        \/ /\ current_report_offset' = at
           /\ key \in SomKeys
           /\ HoldSom(plan.som_log, plan.dirty, key, adjust, from, to)
           /\ log' = ClearedLogs(at)
           /\ delivered' = delivered \o held
           /\ call' = phase
        \/ /\ current_report_offset' = at
           /\ key \notin SomKeys
           /\ som_log' = plan.som_log
           /\ som_log_dirty' = plan.dirty
           /\ Deliver(ClearedLogs(at), delivered \o held, key, to, phase)

\* An id gets no dedupe key if its match is found only once.
OnceIfUnkeyed(key, to) == key = MO_INVALID_IDX => Match(key, 0, to) \notin raised

\* An engine reports a match at an offset, which never goes back.
Report(at, key, adjust, from) ==
    /\ call \in {"start", "scan"}
    /\ at >= offset /\ at + adjust >= 0
    /\ key \in SomKeys => from =< at + adjust
    /\ key \notin SomKeys => from = 0
    /\ OnceIfUnkeyed(key, at + adjust)
    /\ Cardinality(raised) < MaxRaised
    /\ dedupeCatchup(som_log, som_log_dirty, at, key, adjust, from, "scan")
    /\ offset' = at
    /\ raised' = raised \cup {Match(key, from, at + adjust)}

\* A vacuous pattern reports where a call starts or, for a block, where it
\* ends.  If nothing was reported before, the som logs are cleared here.
roseRunBoundaryProgram(at, key) ==
    /\ \/ call = "start" /\ at = offset
       \/ call = "flushed" /\ at >= offset
    /\ key \notin SomKeys
    /\ OnceIfUnkeyed(key, at)
    /\ Cardinality(raised) < MaxRaised
    /\ LET fresh == current_report_offset = NoOffset
       IN  dedupeCatchup(IF fresh THEN NoneHeld ELSE som_log,
                         IF fresh THEN 0 ELSE som_log_dirty,
                         at, key, 0, 0, call)
    /\ offset' = at
    /\ raised' = raised \cup {Match(key, 0, at)}

\* The engines are done: what is still held back is raised.
FlushAtEnd ==
    /\ call \in {"start", "scan"}
    /\ LET plan == flushStoredSomMatches(som_log, som_log_dirty, NoOffset)
           held == plan.older \o plan.newer
       IN  \/ \E n \in 1 .. Len(held) : HaltFlush(plan, som_log, n)
           \/ /\ delivered' = delivered \o held
              /\ som_log' = plan.som_log
              /\ som_log_dirty' = plan.dirty
              /\ call' = "flushed"
              /\ UNCHANGED current_report_offset
    /\ UNCHANGED <<log, offset, raised>>

Next ==
    \/ \E at \in Offsets : populateCoreInfo(at)
    \/ \E at \in Offsets, key \in Dkeys \cup {MO_INVALID_IDX},
          adjust \in {0, -1}, from \in Offsets : Report(at, key, adjust, from)
    \/ \E at \in Offsets, key \in Dkeys \cup {MO_INVALID_IDX} :
          roseRunBoundaryProgram(at, key)
    \/ FlushAtEnd

Spec == Init /\ [][Next]_vars

----------------------------------------------------------------------------
(* Properties.                                                             *)

\* The two logs of each kind hold keys, and what the user got are matches.
TypeOK ==
    /\ log \in [Parities -> SUBSET (Dkeys \ SomKeys)]
    /\ \A i \in Parities : /\ DOMAIN som_log[i] \subseteq SomKeys
                            /\ Range(som_log[i]) \subseteq Offsets
    /\ som_log_dirty \in 0 .. 3
    /\ current_report_offset \in Offsets \cup {NoOffset}
    /\ call \in {"idle", "start", "scan", "flushed", "halted"}
    /\ offset \in Offsets
    /\ \A m \in raised \cup Range(delivered) :
           m.key \in Dkeys \cup {MO_INVALID_IDX} /\ {m.from, m.to} \subseteq Offsets

Raised(key, to) == {m \in raised : m.key = key /\ m.to = to}

\* Nothing is raised that this call did not find: every match the callback
\* gets is one the engines reported in this call, with the leftmost of the
\* starts they reported for its key and end offset.  The logs are dirty with
\* what earlier calls on the scratch left, stopped ones included.
DeliversLeftmost ==
    \A m \in Range(delivered) :
        m \in raised /\ \A r \in Raised(m.key, m.to) : m.from =< r.from

\* Squashing is exact: in a call no key is delivered twice at an end offset,
\* and once a call that was not stopped has flushed, every key was delivered
\* at every end offset at which an engine reported it.
DeliversOnce ==
    /\ \A i, j \in DOMAIN delivered :
           /\ delivered[i].key \in Dkeys
           /\ delivered[i].key = delivered[j].key
           /\ delivered[i].to = delivered[j].to
           => i = j
    /\ call = "flushed" =>
           \A r \in raised : \E m \in Range(delivered) :
               m.key = r.key /\ m.to = r.to
=============================================================================
