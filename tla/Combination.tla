---------------------------- MODULE Combination ----------------------------
(***************************************************************************)
(* Logical combinations (HS_FLAG_COMBINATION) at run time.                 *)
(*                                                                         *)
(* A report of a sub-expression sets its bit in the logical vector lvec    *)
(* and marks the combinations it occurs in as active in cvec.  They are    *)
(* evaluated later, when the scan has moved past that offset, and reported *)
(* at tctxt.lastCombMatchOffset.  lvec and cvec belong to the stream (or,  *)
(* for a block, to the scratch's bstate); lastCombMatchOffset belongs to   *)
(* the scratch, which several streams may use in turn.                     *)
(*                                                                         *)
(* A report has an offset adjustment: an expression that ends in $ matches *)
(* with the newline behind it, and is reported at the offset before.       *)
(*                                                                         *)
(* A call is a sequence of phases:                                         *)
(*   hs_scan_stream   zero, body                                           *)
(*   hs_close_stream  boundary, eod, last                                  *)
(*   hs_scan          zero, body, eod, boundary, last                      *)
(* Sub-expressions have no exhaustion key of their own, so the pattern set *)
(* cannot be exhausted through keys; combinations may have one             *)
(* (HS_FLAG_SINGLEMATCH).                                                  *)
(***************************************************************************)
EXTENDS Integers, FiniteSets

CONSTANTS
    Streams,           \* stream handles
    Scratches,         \* scratch regions
    ScratchOf,         \* ScratchOf[s]: the scratch stream s is used with
    BlockScratches,    \* the scratches that block scans use
    LKeyCount,         \* sub-expressions are the keys 0 .. LKeyCount - 1
    LogicalTree,       \* LogicalTree[i]: operation with id i >= LKeyCount
    CombInfo,          \* CombInfo[c]: the combination with ckey c
    ZeroKeys,          \* sub-expressions reported at offset 0 (boundary)
    EodKeys,           \* sub-expressions reported at end of data (boundary)
    TailKeys,          \* sub-expressions the EOD program may report
    Quiet,             \* sub-expressions compiled with HS_FLAG_QUIET
    OffsetAdjust,      \* OffsetAdjust[l]: the offset adjustments that reports
                       \* of sub-expression l have
    RuntimeImpl,       \* how the database is run
    OutfixDies,        \* the engine of a SINGLE_OUTFIX database can run out of
                       \* states before the data ends
    RequiresEodCheck,  \* the database has an EOD program
    AnchoredDistance,  \* every other match ends within this distance; the
                       \* pattern set has no literal groups if it is finite
    MinWidth,          \* width of the shortest pattern
    MinWidthExcludingBoundaries, \* ... of those that are not a boundary report
    MaxBiAnchoredWidth,   \* width of the longest pattern, if all are anchored
                          \* at both ends; otherwise any number >= MaxOffset
    LargestBuffer,     \* a shorter block goes to the small-write engine
    MaxOffset,         \* bound on the length of the data
    NoCall

LKeys == 0 .. LKeyCount - 1
CKeys == DOMAIN CombInfo
Ids   == Streams \cup Scratches       \* a block's state is its scratch's

BodyKeys == LKeys \ (ZeroKeys \cup EodKeys \cup TailKeys)

Calls == [id : Ids, kind : {"scan", "close", "block"},
          phase : {"zero", "body", "eod", "boundary", "last"},
          todo : SUBSET LKeys, at : 0 .. MaxOffset, end : 0 .. MaxOffset]

\* What the compiler guarantees of a database.  An operation is added to the
\* tree when its operands have been parsed, so each of them is a sub-expression
\* or an earlier operation of the same combination.
ASSUME CombinationAssumption ==
    /\ LKeyCount \in Nat /\ MaxOffset \in Nat
    /\ AnchoredDistance \in Nat /\ MinWidth \in Nat
    /\ MinWidthExcludingBoundaries \in Nat /\ LargestBuffer \in Nat
    /\ MaxBiAnchoredWidth \in Nat
    /\ ScratchOf \in [Streams -> Scratches] /\ BlockScratches \subseteq Scratches
    /\ Streams \cap Scratches = {} /\ NoCall \notin Calls
    /\ ZeroKeys \cup EodKeys \cup TailKeys \subseteq LKeys
    /\ RuntimeImpl \in {"FULL_ROSE", "PURE_LITERAL", "SINGLE_OUTFIX"}
    /\ RequiresEodCheck \in BOOLEAN /\ OutfixDies \in BOOLEAN
    /\ RequiresEodCheck => RuntimeImpl # "PURE_LITERAL"
    /\ EodKeys # {} => RuntimeImpl # "SINGLE_OUTFIX"
    /\ OffsetAdjust \in [LKeys -> (SUBSET {-1, 0}) \ {{}}]
    /\ TailKeys # {} => RequiresEodCheck
    /\ ZeroKeys \cup EodKeys # {} => MinWidth = 0
    /\ CKeys \subseteq Nat
    /\ \A c \in CKeys :
          /\ CombInfo[c] \in [start : Nat, result : Nat, ekey : BOOLEAN,
                              min_offset : Nat, max_offset : Nat]
          /\ LKeyCount =< CombInfo[c].start
          /\ CombInfo[c].start =< CombInfo[c].result
          /\ \A i \in CombInfo[c].start .. CombInfo[c].result :
                /\ LogicalTree[i].op \in {"NOT", "AND", "OR"}
                /\ LogicalTree[i].ro \in LKeys \cup (CombInfo[c].start .. i - 1)
                /\ LogicalTree[i].op # "NOT" =>
                      LogicalTree[i].lo \in LKeys \cup (CombInfo[c].start .. i - 1)

VARIABLES
    life,      \* "open" from hs_open_stream to the end of hs_close_stream, and
               \* while a block is scanned
    offset,    \* bytes consumed; for a block, its length once scanned
    status,    \* STATUS_TERMINATED and STATUS_EXHAUSTED flags
    lvec,      \* sub-expressions that have matched
    cvec,      \* combinations waiting to be evaluated
    evec,      \* combinations with an exhaustion key that have matched
    lastCombMatchOffset, \* per scratch
    call,      \* per scratch, the scanning call in progress
    matched,   \* history: <<lkey, end>> of every processed sub-expression
               \* match; end is where the match ends in the data, before its
               \* offset is adjusted
    reported   \* history: <<ckey, to>> of every combination delivered

streamVars == <<life, offset, status, lvec, cvec, evec>>
vars == <<streamVars, lastCombMatchOffset, call, matched, reported>>

\* The vectors hold keys of the database and every offset, also the one kept in
\* the scratch and those reported, lies within the data.
TypeOK ==
    /\ life \in [Ids -> {"new", "open", "closed"}]
    /\ offset \in [Ids -> 0 .. MaxOffset]
    /\ status \in [Ids -> SUBSET {"TERMINATED", "EXHAUSTED"}]
    /\ lvec \in [Ids -> SUBSET LKeys]
    /\ cvec \in [Ids -> SUBSET CKeys]
    /\ evec \in [Ids -> SUBSET CKeys]
    /\ lastCombMatchOffset \in [Scratches -> 0 .. MaxOffset]
    /\ call \in [Scratches -> Calls \cup {NoCall}]
    /\ matched \in [Ids -> SUBSET (LKeys \X (0 .. MaxOffset))]
    /\ reported \in [Ids -> SUBSET (CKeys \X (0 .. MaxOffset))]

Init ==
    /\ life = [i \in Ids |-> "new"]
    /\ offset = [i \in Ids |-> 0]
    /\ status = [i \in Ids |-> {}]
    /\ lvec = [i \in Ids |-> {}]
    /\ cvec = [i \in Ids |-> {}]
    /\ evec = [i \in Ids |-> {}]
    /\ lastCombMatchOffset = [x \in Scratches |-> 0]
    /\ call = [x \in Scratches |-> NoCall]
    /\ matched = [i \in Ids |-> {}]
    /\ reported = [i \in Ids |-> {}]

-----------------------------------------------------------------------------
\* The operations of combination c, evaluated in id order: each operand is a
\* sub-expression or an operation with a smaller id.
Operations(c) == CombInfo[c].start .. CombInfo[c].result

Operands(c) ==
    LKeys \cap UNION {IF LogicalTree[i].op = "NOT" THEN {LogicalTree[i].ro}
                      ELSE {LogicalTree[i].lo, LogicalTree[i].ro} :
                          i \in Operations(c)}

isLogicalCombination(lv, c) ==
    LET Val[i \in LKeys \cup Operations(c)] ==
            IF i \in LKeys THEN i \in lv
            ELSE IF LogicalTree[i].op = "NOT" THEN ~Val[LogicalTree[i].ro]
            ELSE IF LogicalTree[i].op = "AND"
                 THEN Val[LogicalTree[i].lo] /\ Val[LogicalTree[i].ro]
            ELSE Val[LogicalTree[i].lo] \/ Val[LogicalTree[i].ro]
    IN  Val[CombInfo[c].result]

\* Mutant: any match at all rules it out.
NegativeNeedsSilence(lv, c) == lv = {} /\ isLogicalCombination(lv, c)

isPurelyNegativeMatch(lv, c) ==
    lv \cap Operands(c) = {} /\ isLogicalCombination(lv, c)

\* Mutant: the exhaustion key is not tested.
ReportableAgain(i, c, to) ==
    CombInfo[c].min_offset =< to /\ to =< CombInfo[c].max_offset

\* The offset bounds and the exhaustion key, tested before either evaluation.
Reportable(i, c, to) ==
    /\ CombInfo[c].min_offset =< to
    /\ to =< CombInfo[c].max_offset
    /\ ~(CombInfo[c].ekey /\ c \in evec[i])

\* The ways a loop over ckeys, in increasing order, can deliver the due ones:
\* all of them, or up to the one whose callback asks to stop.
Deliveries(due) ==
    {[to_user |-> due, halt |-> FALSE]} \cup
    {[to_user |-> {c \in due : c =< k}, halt |-> TRUE] : k \in due}

Nothing == [to_user |-> {}, halt |-> FALSE]

flushActiveCombinations(i, x) ==
    Deliveries({c \in cvec[i] : /\ Reportable(i, c, lastCombMatchOffset[x])
                                /\ isLogicalCombination(lvec[i], c)})

checkPurelyNegatives(i, end) ==
    Deliveries({c \in CKeys : Reportable(i, c, end)
                              /\ isPurelyNegativeMatch(lvec[i], c)})

\* Effect of delivering d at offset to: keys are marked for the callbacks that
\* did not ask to stop.
Marked(d) ==
    {c \in d.to_user : CombInfo[c].ekey
                       /\ (d.halt => \E k \in d.to_user : c < k)}

\* Mutant: the offset after the match's end.
AtNext(d, to) == {<<c, to + 1>> : c \in d.to_user}

At(d, to) == {<<c, to>> : c \in d.to_user}

\* The call on x is over, told to stop or not.
Return(x, halt) ==
    LET i == call[x].id IN
    /\ call' = [call EXCEPT ![x] = NoCall]
    /\ status' = [status EXCEPT ![i] = IF halt THEN @ \cup {"TERMINATED"} ELSE @]
    /\ life' = [life EXCEPT ![i] = IF call[x].kind = "scan" THEN @ ELSE "closed"]

\* Mutant: a stop in the EOD program also goes through the last flush.
StoppedFlushes(x) ==
    LET i == call[x].id IN
    IF call[x].phase \in {"zero", "boundary", "eod"}
    THEN /\ call' = [call EXCEPT ![x].phase = "last"]
         /\ status' = [status EXCEPT ![i] = @ \cup {"TERMINATED"}]
         /\ UNCHANGED life
    ELSE Return(x, TRUE)

\* A callback asked to stop.  hs_scan_stream stores the flag and returns,
\* hs_close_stream frees the stream, hs_scan returns; except that a stop in a
\* boundary program of hs_scan goes through the last flush first.
Stopped(x) ==
    LET i == call[x].id IN
    IF call[x].kind = "block" /\ call[x].phase \in {"zero", "boundary"}
    THEN /\ call' = [call EXCEPT ![x].phase = "last"]
         /\ status' = [status EXCEPT ![i] = @ \cup {"TERMINATED"}]
         /\ UNCHANGED life
    ELSE Return(x, TRUE)

-----------------------------------------------------------------------------
hs_open_stream(s) ==
    /\ life[s] = "new"
    /\ life' = [life EXCEPT ![s] = "open"]
    /\ UNCHANGED <<offset, status, lvec, cvec, evec, lastCombMatchOffset, call,
                   matched, reported>>

\* lastCombMatchOffset is set up here only for the first write.
hs_scan_stream(s, len) ==
    LET x == ScratchOf[s] IN
    /\ life[s] = "open" /\ call[x] = NoCall
    /\ status[s] = {}
    /\ len > 0 /\ offset[s] + len =< MaxOffset
    /\ call' = [call EXCEPT ![x] =
           [id |-> s, kind |-> "scan", phase |-> "zero",
            todo |-> IF offset[s] = 0 THEN ZeroKeys ELSE {},
            at |-> offset[s], end |-> offset[s] + len]]
    /\ lastCombMatchOffset' = [lastCombMatchOffset EXCEPT
                                  ![x] = IF offset[s] = 0 THEN 0 ELSE @]
    /\ UNCHANGED <<streamVars, matched, reported>>

\* A block scan starts from cleared vectors, unless the block is too short for
\* any pattern to match: then it returns at once.
hs_scan(x, len) ==
    /\ x \in BlockScratches /\ call[x] = NoCall
    /\ len =< MaxOffset
    /\ life' = [life EXCEPT ![x] = IF MinWidth > len THEN "closed" ELSE "open"]
    /\ offset' = [offset EXCEPT ![x] = len]
    /\ status' = [status EXCEPT ![x] = {}]
    /\ lvec' = [lvec EXCEPT ![x] = {}]
    /\ cvec' = [cvec EXCEPT ![x] = {}]
    /\ evec' = [evec EXCEPT ![x] = {}]
    /\ matched' = [matched EXCEPT ![x] = {}]
    /\ reported' = [reported EXCEPT ![x] = {}]
    /\ IF MinWidth > len THEN UNCHANGED <<call, lastCombMatchOffset>>
       ELSE /\ call' = [call EXCEPT ![x] =
                  [id |-> x, kind |-> "block",
                   phase |-> IF len = 0 THEN "boundary" ELSE "zero",
                   todo |-> IF len = 0 THEN ZeroKeys \cup EodKeys ELSE ZeroKeys,
                   at |-> 0, end |-> len]]
            /\ lastCombMatchOffset' = [lastCombMatchOffset EXCEPT ![x] = 0]

\* Mutant: the adjustment is subtracted.
AdjustedUp(x, e, adjust) ==
    lastCombMatchOffset' = [lastCombMatchOffset EXCEPT ![x] = e - adjust]

updateLastCombMatchOffset(x, e, adjust) ==
    lastCombMatchOffset' = [lastCombMatchOffset EXCEPT ![x] = e + adjust]

\* The program of a report of sub-expression l ending at e: FLUSH_COMBINATION,
\* the report itself unless it is quiet, SET_LOGICAL and SET_COMBINATION.  The
\* flush compares the end itself with the offset that SET_LOGICAL adjusted.
Report(x, l, e, adjust) ==
    LET i == call[x].id
        last == lastCombMatchOffset[x]
    IN  \E d \in IF e > last THEN flushActiveCombinations(i, x) ELSE {Nothing} :
        \E stop \in IF d.halt \/ l \in Quiet THEN {d.halt} ELSE BOOLEAN :
            /\ reported' = [reported EXCEPT ![i] = @ \cup At(d, last)]
            /\ evec' = [evec EXCEPT ![i] = @ \cup Marked(d)]
            /\ cvec' = [cvec EXCEPT ![i] =
                   (IF e > last /\ ~d.halt THEN {} ELSE @)
                       \cup (IF stop THEN {}
                             ELSE {c \in CKeys : l \in Operands(c)})]
            /\ IF stop
               THEN /\ Stopped(x)
                    /\ UNCHANGED <<lvec, lastCombMatchOffset, matched>>
               ELSE /\ lvec' = [lvec EXCEPT ![i] = @ \cup {l}]
                    /\ updateLastCombMatchOffset(x, e, adjust)
                    /\ matched' = [matched EXCEPT ![i] = @ \cup {<<l, e>>}]
                    /\ call' = [call EXCEPT ![x].at = e,
                                            ![x].todo = @ \ {l}]
                    /\ UNCHANGED <<status, life>>
            /\ UNCHANGED offset

\* roseRunBoundaryProgram fires each of its reports, at offset 0 or at the end;
\* they are not adjusted.
Boundary(x) ==
    /\ call[x] # NoCall /\ call[x].phase \in {"zero", "boundary"}
    /\ \E l \in call[x].todo :
          /\ \A k \in call[x].todo : l =< k
          /\ Report(x, l, call[x].at, 0)

\* The data of the call is not scanned, because no pattern is as short or as
\* long as that.  A stream is only compared with the longest pattern, by Rose.
Skipped(x) ==
    LET long == call[x].end > MaxBiAnchoredWidth IN
    IF call[x].kind = "block"
    THEN call[x].end < MinWidthExcludingBoundaries \/ long
    ELSE RuntimeImpl = "FULL_ROSE" /\ long

\* The data is scanned by Rose, not by the small-write or another engine alone.
ByRose(x) ==
    /\ RuntimeImpl = "FULL_ROSE" /\ ~Skipped(x)
    /\ ~(call[x].kind = "block" /\ call[x].end < LargestBuffer)

\* Mutant: the offset is left as the scratch has it.
BodyBeginStale(x) ==
    /\ call[x] # NoCall /\ call[x].phase = "zero" /\ call[x].todo = {}
    /\ call' = [call EXCEPT ![x].phase = "body"]
    /\ UNCHANGED <<streamVars, lastCombMatchOffset, matched, reported>>

\* The stream or block is handed to Rose, which restores the offset, or to a
\* matcher directly, which does not; or it is skipped.
BodyBegin(x) ==
    /\ call[x] # NoCall /\ call[x].phase = "zero" /\ call[x].todo = {}
    /\ call' = [call EXCEPT ![x].phase = "body"]
    /\ lastCombMatchOffset' = [lastCombMatchOffset EXCEPT
           ![x] = IF ByRose(x) THEN call[x].at ELSE @]
    /\ UNCHANGED <<streamVars, matched, reported>>

\* Where the last byte of the data before this call's is.
Base(x) == IF call[x].kind = "scan" THEN offset[call[x].id] ELSE 0

\* A match in the data; matches arrive in order of their ends.
BodyMatch(x, l, e) ==
    /\ call[x] # NoCall /\ call[x].phase = "body"
    /\ l \in BodyKeys /\ ~Skipped(x)
    /\ Base(x) < e /\ call[x].at =< e /\ e =< call[x].end
    /\ e =< AnchoredDistance
    /\ \E adjust \in OffsetAdjust[l] : Report(x, l, e, adjust)

\* Rose is told that nothing can match any more: it has no groups on and the
\* anchored region is behind it.
can_never_match(end) == AnchoredDistance < MaxOffset /\ end > AnchoredDistance

\* The end of the data.  Rose catches up to it, which flushes the combinations
\* that were set before the last byte; the other engines do not.  A stream is
\* exhausted when Rose can never match again, or when the only engine is dead.
BodyEnd(x) ==
    LET i == call[x].id
        end == call[x].end
        last == lastCombMatchOffset[x]
        flush == ByRose(x) /\ end > last
        dies == RuntimeImpl = "SINGLE_OUTFIX" /\ OutfixDies
    IN  /\ call[x] # NoCall /\ call[x].phase = "body"
        /\ \E d \in IF flush THEN flushActiveCombinations(i, x) ELSE {Nothing} :
              /\ reported' = [reported EXCEPT ![i] = @ \cup At(d, last)]
              /\ evec' = [evec EXCEPT ![i] = @ \cup Marked(d)]
              /\ cvec' = [cvec EXCEPT ![i] = IF flush /\ ~d.halt THEN {} ELSE @]
              /\ IF d.halt THEN Return(x, TRUE) /\ UNCHANGED offset
                 ELSE IF call[x].kind = "block"
                 THEN /\ call' = [call EXCEPT ![x].phase = "eod",
                                              ![x].at = end]
                      /\ UNCHANGED <<status, offset, life>>
                 ELSE /\ call' = [call EXCEPT ![x] = NoCall]
                      /\ UNCHANGED life
                      /\ \E dead \in IF dies THEN BOOLEAN
                                     ELSE {ByRose(x) /\ can_never_match(end)} :
                            IF dead
                            THEN /\ status' = [status EXCEPT ![i] = {"EXHAUSTED"}]
                                 /\ UNCHANGED offset
                            ELSE /\ offset' = [offset EXCEPT ![i] = end]
                                 /\ UNCHANGED status
        /\ UNCHANGED <<lvec, lastCombMatchOffset, matched>>

\* hs_close_stream up to the boundary program; a broken stream is just freed.
hs_close_stream(s) ==
    LET x == ScratchOf[s] IN
    /\ life[s] = "open" /\ call[x] = NoCall
    /\ IF status[s] # {}
       THEN /\ life' = [life EXCEPT ![s] = "closed"]
            /\ UNCHANGED <<call, lastCombMatchOffset>>
       ELSE /\ UNCHANGED life
            /\ call' = [call EXCEPT ![x] =
                  [id |-> s, kind |-> "close", phase |-> "boundary",
                   todo |-> IF offset[s] = 0 THEN ZeroKeys \cup EodKeys
                            ELSE EodKeys,
                   at |-> offset[s], end |-> offset[s]]]
            /\ lastCombMatchOffset' = [lastCombMatchOffset EXCEPT
                                          ![x] = IF offset[s] = 0 THEN 0 ELSE @]
    /\ UNCHANGED <<offset, status, lvec, cvec, evec, matched, reported>>

\* After the boundary program of a stream comes the EOD program, if there is
\* one and the stream is not too long; roseStreamInitEod restores the offset.
EodBegin(x) ==
    LET eod == /\ call[x].kind = "close" /\ call[x].end > 0
               /\ RequiresEodCheck /\ ~Skipped(x)
    IN
    /\ call[x] # NoCall /\ call[x].phase = "boundary" /\ call[x].todo = {}
    /\ call' = [call EXCEPT ![x].phase = IF eod THEN "eod" ELSE "last"]
    /\ lastCombMatchOffset' = [lastCombMatchOffset EXCEPT
           ![x] = IF eod /\ RuntimeImpl = "FULL_ROSE" THEN call[x].end ELSE @]
    /\ UNCHANGED <<streamVars, matched, reported>>

\* A match that the EOD program finds.
EodMatch(x, l) ==
    /\ call[x] # NoCall /\ call[x].phase = "eod"
    /\ RequiresEodCheck /\ l \in TailKeys /\ ~Skipped(x)
    /\ \E adjust \in OffsetAdjust[l] : Report(x, l, call[x].end, adjust)

\* In a block the boundary program comes after the EOD program.
EodEnd(x) ==
    /\ call[x] # NoCall /\ call[x].phase = "eod"
    /\ call' = [call EXCEPT ![x].phase = IF call[x].kind = "block"
                                         THEN "boundary" ELSE "last",
                            ![x].todo = IF call[x].kind = "block" THEN EodKeys ELSE {}]
    /\ UNCHANGED <<streamVars, lastCombMatchOffset, matched, reported>>

\* LAST_FLUSH_COMBINATION: what is still active, then what is true because
\* nothing matched.
LastFlush(x) ==
    LET i == call[x].id
        last == lastCombMatchOffset[x]
    IN  /\ call[x] # NoCall /\ call[x].phase = "last"
        /\ \E d \in flushActiveCombinations(i, x) :
           \E n \in IF d.halt THEN {Nothing}
                    ELSE checkPurelyNegatives(i, call[x].end) :
              /\ reported' = [reported EXCEPT ![i] =
                     @ \cup At(d, last) \cup At(n, call[x].end)]
              /\ evec' = [evec EXCEPT ![i] = @ \cup Marked(d) \cup Marked(n)]
              /\ cvec' = [cvec EXCEPT ![i] = IF d.halt THEN @ ELSE {}]
              /\ Return(x, d.halt \/ n.halt)
        /\ UNCHANGED <<offset, lvec, lastCombMatchOffset, matched>>

Next ==
    \/ \E s \in Streams : hs_open_stream(s) \/ hs_close_stream(s)
    \/ \E s \in Streams, len \in 1 .. MaxOffset : hs_scan_stream(s, len)
    \/ \E x \in Scratches, len \in 0 .. MaxOffset : hs_scan(x, len)
    \/ \E x \in Scratches, l \in LKeys, e \in 1 .. MaxOffset : BodyMatch(x, l, e)
    \/ \E x \in Scratches, l \in LKeys : EodMatch(x, l)
    \/ \E x \in Scratches :
          \/ Boundary(x) \/ BodyBegin(x) \/ BodyEnd(x)
          \/ EodBegin(x) \/ EodEnd(x) \/ LastFlush(x)

Spec == Init /\ [][Next]_vars

-----------------------------------------------------------------------------
\* The adjustments the offset in the scratch can have.
Adjustments == {0} \cup UNION {OffsetAdjust[l] : l \in LKeys}

\* Where a combination may be raised for a match that ends at e.
RaisedFor(e) == {e + a : a \in Adjustments} \cap Nat

\* What has matched up to e.
MatchedBy(i, e) == {l \in LKeys : \E f \in 0 .. e : <<l, f>> \in matched[i]}

\* What an evaluation for a match that ends at e may have seen of the matches:
\* all up to e; but an adjusted report lets the next one with the same end
\* flush, and then only some of those that end at e.
Heard(i, e) ==
    IF Adjustments = {0} THEN {MatchedBy(i, e)}
    ELSE {S \in SUBSET MatchedBy(i, e) : MatchedBy(i, e - 1) \subseteq S}

\* One of the sub-expressions of c matched, ending at e.
Touches(i, c, e) == \E l \in Operands(c) : <<l, e>> \in matched[i]

\* Combination c may be raised at offset to.
Allowed(i, c, to) ==
    /\ CombInfo[c].min_offset =< to /\ to =< CombInfo[c].max_offset
    /\ \E e \in 0 .. MaxOffset :
          /\ to \in RaisedFor(e) /\ Touches(i, c, e)
          /\ \E S \in Heard(i, e) : isLogicalCombination(S, c)

\* What the documentation promises, from the matches alone: a combination is
\* raised at every offset where one of its sub-expressions matches and its
\* value, over what has matched so far, is true.
Due(i, c) ==
    {e \in 0 .. MaxOffset :
        /\ Touches(i, c, e) /\ isLogicalCombination(MatchedBy(i, e), c)
        /\ \A to \in RaisedFor(e) : /\ CombInfo[c].min_offset =< to
                                    /\ to =< CombInfo[c].max_offset}

\* ... and at the end of data if it is true because nothing matched.
DueNegative(i, c) ==
    /\ \A e \in 0 .. MaxOffset : ~Touches(i, c, e)
    /\ isLogicalCombination({}, c)
    /\ CombInfo[c].min_offset =< offset[i]
    /\ offset[i] =< CombInfo[c].max_offset

\* Scanned to the end, and no callback asked to stop.
Complete(i) == life[i] = "closed" /\ "TERMINATED" \notin status[i]

\* A combination is never raised where it is not due, whatever was scanned with
\* the same scratch in between: flushActiveCombinations takes the offset from
\* the scratch, not from the stream it reports for.  If no report is adjusted
\* that is exactly where a sub-expression matched and with the value of that
\* offset; otherwise it may be one offset early.
RaisedWhereDue ==
    \A i \in Ids : \A r \in reported[i] :
        \/ Allowed(i, r[1], r[2])
        \/ DueNegative(i, r[1]) /\ r[2] = offset[i]

\* No due offset is lost between writes or at the end of data, although the
\* evaluation is put off to the next match, write or close, and although an
\* adjusted report can move the offset that others wait with; a combination
\* with an exhaustion key is raised once, no later than it is first due.
NoneMissed ==
    \A i \in Ids : Complete(i) => \A c \in CKeys :
        LET raised == {e \in 0 .. MaxOffset : <<c, e>> \in reported[i]}
            due == Due(i, c)
        IN  IF CombInfo[c].ekey
            THEN due # {} => \E e \in raised : raised = {e} /\ \A f \in due : e =< f
            ELSE \A e \in due : raised \cap RaisedFor(e) # {}

\* A combination that holds because no operand matched is raised when the data
\* ends.
NegativesRaised ==
    \A i \in Ids : Complete(i) => \A c \in CKeys :
        DueNegative(i, c) => \E r \in reported[i] : r[1] = c

\* The offset kept in the scratch is never ahead of the scan, also after another
\* stream or a block used the scratch: the assertions of FLUSH_COMBINATION and
\* LAST_FLUSH_COMBINATION.
LastCombInOrder ==
    \A x \in Scratches :
        call[x] # NoCall
            /\ (call[x].todo # {} \/ call[x].phase \in {"body", "eod", "last"})
            => lastCombMatchOffset[x] =< call[x].at

\* A report never moves the offset in the scratch back: the assertion of
\* updateLastCombMatchOffset.
NeverBack ==
    \A x \in Scratches :
        call[x] # NoCall /\ matched'[call[x].id] # matched[call[x].id] =>
            lastCombMatchOffset'[x] >= lastCombMatchOffset[x]
ReportsMoveOn == [][NeverBack]_vars

\* After the callback asked to stop, nothing more is reported for that data.
NoReportAfterStop ==
    \A i \in Ids : "TERMINATED" \in status[i] =>
        reported'[i] = reported[i] \/ reported'[i] = {}
SilentAfterStop == [][NoReportAfterStop]_vars
=============================================================================
