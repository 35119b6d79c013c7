--------------------------- MODULE CombinationInv ---------------------------
(***************************************************************************)
(* The invariants behind what the runtime promises of logical combinations,*)
(* and what each kind of step does to the stream or block it works on.     *)
(***************************************************************************)
EXTENDS Combination

\* Offsets of the data.
Ends == 0 .. MaxOffset

\* What has matched, from the history m of matches.
Seen(m) == {l \in LKeys : \E f \in Ends : <<l, f>> \in m}

\* ... up to offset e.
SeenBy(m, e) == {l \in LKeys : \E f \in 0 .. e : <<l, f>> \in m}

\* What an evaluation for matches that end at e may have seen: Heard, of a history.
Hears(m, e) ==
    IF Adjustments = {0} THEN {SeenBy(m, e)}
    ELSE {S \in SUBSET SeenBy(m, e) : SeenBy(m, e - 1) \subseteq S}

\* The offset bounds of combination c.
InBounds(c, to) == CombInfo[c].min_offset =< to /\ to =< CombInfo[c].max_offset

\* Combination c may be raised at offset to for a match that ends at e.
RaisedAs(m, c, to, e) ==
    /\ to \in RaisedFor(e)
    /\ \E l \in Operands(c) : <<l, e>> \in m
    /\ \E S \in Hears(m, e) : isLogicalCombination(S, c)

\* The ends for which combination c is due: Due, of a history.
DueAt(m, c) ==
    {e \in Ends : /\ \E l \in Operands(c) : <<l, e>> \in m
                  /\ isLogicalCombination(SeenBy(m, e), c)
                  /\ \A to \in RaisedFor(e) : InBounds(c, to)}

\* The combinations with a sub-expression that matched at a.
Touched(m, a) == {c \in CKeys : \E l \in Operands(c) : <<l, a>> \in m}

\* Between two matches: nothing matched after a, lvec is what has matched, and
\* only combinations touched at a wait to be evaluated.
Kept(m, lv, cv, a) ==
    /\ \A l \in LKeys, e \in Ends : <<l, e>> \in m => e =< a
    /\ lv = Seen(m)
    /\ cv \subseteq Touched(m, a)

\* Combinations were raised where they may be, and not after a.
RaisedBy(m, rp, a) ==
    \A c \in CKeys, to \in Ends : <<c, to>> \in rp =>
        InBounds(c, to) /\ to =< a /\ \E e \in Ends : e =< a /\ RaisedAs(m, c, to, e)

\* All that was touched at a waits, and none of it has been raised.
Waits(m, cv, rp, a) ==
    /\ Touched(m, a) \subseteq cv
    /\ \A c \in CKeys : <<c, a>> \notin rp

\* Combination c was raised for matches that end at e.
RaisedOf(rp, c, e) == \E to \in RaisedFor(e) : <<c, to>> \in rp

\* Every due end has been raised, except those of a combination that waits
\* for its evaluation at a, or that is exhausted.
Settled(m, cv, ev, rp, a) ==
    \A c \in CKeys : \A e \in DueAt(m, c) :
        \/ e = a /\ c \in cv
        \/ RaisedOf(rp, c, e)
        \/ CombInfo[c].ekey /\ c \in ev

\* A combination with an exhaustion key is raised once, no later than it was
\* first due, and is then marked exhausted.
Once(m, ev, rp) ==
    \A c \in CKeys : CombInfo[c].ekey =>
        /\ c \in ev => \E e \in Ends : <<c, e>> \in rp
        /\ \A e \in Ends : <<c, e>> \in rp =>
              /\ c \in ev
              /\ \A f \in Ends : <<c, f>> \in rp => f = e
              /\ \A f \in DueAt(m, c) : e =< f

\* The places of combination c in the logical tree.
Nodes(c) == LKeys \cup Operations(c)

\* The value of node i, from the values V of the nodes below it.
NodeVal(V, lv, i) ==
    IF i \in LKeys THEN i \in lv
    ELSE IF LogicalTree[i].op = "NOT" THEN ~V[LogicalTree[i].ro]
    ELSE IF LogicalTree[i].op = "AND"
         THEN V[LogicalTree[i].lo] /\ V[LogicalTree[i].ro]
    ELSE V[LogicalTree[i].lo] \/ V[LogicalTree[i].ro]

\* V holds the values of all nodes of c.
IsVal(V, lv, c) == V = [i \in Nodes(c) |-> NodeVal(V, lv, i)]

\* What flushActiveCombinations finds due at offset a.
Ready(lv, cv, ev, a) ==
    {c \in cv : /\ CombInfo[c].min_offset =< a /\ a =< CombInfo[c].max_offset
                /\ ~(CombInfo[c].ekey /\ c \in ev)
                /\ isLogicalCombination(lv, c)}

\* The last flush, then what holds because nothing matched.
NotMatched(lv, ev, end) ==
    {c \in CKeys : /\ CombInfo[c].min_offset =< end /\ end =< CombInfo[c].max_offset
                   /\ ~(CombInfo[c].ekey /\ c \in ev)
                   /\ isPurelyNegativeMatch(lv, c)}

-----------------------------------------------------------------------------
\* The database is run by Rose and not by one engine alone.
Rose == RuntimeImpl = "FULL_ROSE"

\* No two streams share a scratch, and no block scan uses the scratch of one.
Own ==
    /\ \A s, t \in Streams : ScratchOf[s] = ScratchOf[t] => s = t
    /\ \A s \in Streams : ScratchOf[s] \notin BlockScratches

\* lastCombMatchOffset still belongs to the stream when it is used again:
\* either the scratch serves that stream alone, or Rose restores the offset
\* before anything can be reported, also when the stream is closed, and skips
\* no stream for its length.
OffsetKept ==
    Own \/ (Rose /\ RequiresEodCheck /\ EodKeys = {} /\ MaxOffset =< MaxBiAnchoredWidth)

\* The database is not run by one engine that can die before the data ends.
OutfixLives == ~(RuntimeImpl = "SINGLE_OUTFIX" /\ OutfixDies)

\* The scratch that data i is scanned with.
ScrOf(i) == IF i \in Streams THEN ScratchOf[i] ELSE i

\* A call runs for data i.
InCall(i) == call[ScrOf(i)] # NoCall /\ call[ScrOf(i)].id = i

\* Data i is a stream between two calls that can be scanned further.
Waiting(i) == ~InCall(i) /\ life[i] = "open" /\ status[i] = {}

\* The phases before Rose restores lastCombMatchOffset.
Unrestored(c) == c.phase = "zero" \/ (c.kind = "close" /\ c.phase = "boundary")

\* What is known of the call on scratch x.
CallOK(x) ==
    LET c == call[x]
        i == call[x].id
    IN  call[x] # NoCall =>
        /\ ScrOf(i) = x /\ life[i] = "open" /\ c.at =< c.end
        /\ c.phase # "last" => status[i] = {}
        /\ c.phase = "zero" /\ c.todo # {} => c.at = 0
        /\ c.phase = "eod" => c.end > 0
        /\ c.kind = "scan" =>
              /\ i \in Streams /\ c.phase \in {"zero", "body"}
              /\ offset[i] =< c.at /\ offset[i] < c.end
              /\ c.phase = "zero" => c.at = offset[i]
        /\ c.kind = "close" =>
              /\ i \in Streams /\ c.phase \in {"boundary", "eod", "last"}
              /\ c.at = c.end /\ c.end = offset[i]
              /\ c.todo # {} /\ EodKeys = {} => c.end = 0
        /\ c.kind = "block" =>
              /\ i = x /\ x \in BlockScratches /\ c.end = offset[i]
              /\ c.phase = "zero" => c.at = 0
              /\ c.phase \in {"zero", "body"} => c.end > 0
              /\ c.phase \in {"boundary", "eod"} => c.at = c.end

\* What is known of data i, whether or not a call on it runs.
IdOK(i) ==
    /\ life[i] = "new" =>
          /\ status[i] = {} /\ offset[i] = 0
          /\ matched[i] = {} /\ cvec[i] = {} /\ evec[i] = {} /\ reported[i] = {}
    /\ i \in Scratches => life[i] # "open" \/ InCall(i)
    /\ lvec[i] = Seen(matched[i])
    /\ Waiting(i) /\ offset[i] = 0 => matched[i] = {}

\* The part of the invariant that needs nothing of the offset in the scratch.
BInv == TypeOK /\ (\A x \in Scratches : CallOK(x)) /\ (\A i \in Ids : IdOK(i))

-----------------------------------------------------------------------------
\* Where the scan of data i stands.
Position(i) == IF InCall(i) THEN call[ScrOf(i)].at ELSE offset[i]

\* The last flush is about to run.
Flushing(i) == InCall(i) /\ call[ScrOf(i)].phase = "last"

\* What is known of lastCombMatchOffset during a call: it is not ahead of the
\* scan, unless it has to be restored first.
LastOK(x) ==
    LET c == call[x]
        last == lastCombMatchOffset[x]
    IN  call[x] # NoCall =>
        /\ ~Unrestored(c) \/ Own \/ c.at = 0 => last =< c.at
        /\ ByRose(x) /\ c.phase = "body" => last =< Base(x) \/ last =< AnchoredDistance

\* ... and between calls, for a stream with a scratch of its own.
IdleOK(i) ==
    Waiting(i) /\ Own /\ offset[i] > 0 => lastCombMatchOffset[ScrOf(i)] =< offset[i]

\* lastCombMatchOffset is that of data i.
Current(i) ==
    Own \/ (InCall(i) /\ (~Unrestored(call[ScrOf(i)]) \/ call[ScrOf(i)].at = 0))

\* Rose will set lastCombMatchOffset to where the stream stands.
Restores(i) ==
    /\ Rose /\ Position(i) =< MaxBiAnchoredWidth
    /\ Waiting(i) \/ (InCall(i) /\ Unrestored(call[ScrOf(i)]))

\* The offset that the combinations that wait will be raised at is that of
\* matches that end at p.
Pending(i, p) ==
    cvec[i] # {} =>
        /\ Current(i) => lastCombMatchOffset[ScrOf(i)] \in RaisedFor(p)
        /\ Restores(i) => p = Position(i)

\* Data that is being scanned, whose last matches end at p: what waits, what
\* has been raised, and that nothing else is due.  An adjusted report lets the
\* next one flush although it ends at p too; otherwise all wait together.
Stage(i, p) ==
    /\ p =< Position(i) /\ Pending(i, p)
    /\ Kept(matched[i], lvec[i], cvec[i], p)
    /\ RaisedBy(matched[i], reported[i], p)
    /\ Adjustments = {0} /\ p = Position(i) /\ ~Flushing(i) =>
          Waits(matched[i], cvec[i], reported[i], p)
    /\ "TERMINATED" \notin status[i] =>
          /\ Settled(matched[i], cvec[i], evec[i], reported[i], p)
          /\ Once(matched[i], evec[i], reported[i])
LiveOK(i) == InCall(i) \/ Waiting(i) => \E p \in Ends : Stage(i, p)

\* Data that will not be scanned further.
OverOK(i) ==
    ~InCall(i) /\ ~Waiting(i) =>
        /\ \A r \in reported[i] : \/ Allowed(i, r[1], r[2])
                                  \/ DueNegative(i, r[1]) /\ r[2] = offset[i]
        /\ "TERMINATED" \notin status[i] /\ OutfixLives =>
              /\ Settled(matched[i], {}, evec[i], reported[i], 0)
              /\ Once(matched[i], evec[i], reported[i])

\* The invariant behind the promises about combinations.
KInv == /\ \A x \in Scratches : LastOK(x)
        /\ \A i \in Ids : IdleOK(i) /\ LiveOK(i) /\ OverOK(i)

-----------------------------------------------------------------------------
\* No scan ends without the last flush, except when told to.
AlwaysFlushed ==
    /\ MinWidth = 0 \/ BlockScratches = {}
    /\ MaxOffset =< AnchoredDistance /\ OutfixLives

\* Every exhausted combination has been reported.
Named(ev, rp) == \A c \in ev : \E r \in rp : r[1] = c

\* What is known of the combinations that no match touched.
NegativeOK(i) ==
    /\ "EXHAUSTED" \notin status[i]
    /\ Named(evec[i], reported[i])
    /\ Complete(i) => \A c \in CKeys : DueNegative(i, c) => \E r \in reported[i] : r[1] = c

\* No callback of a block's boundary reports can ask to stop.
NoStopAtBoundary == BlockScratches = {} \/ (ZeroKeys \subseteq Quiet /\ EodKeys = {})

\* The last flush is not reached after a stop, because no boundary report of a
\* block is stopped: with lastCombMatchOffset at 0 there is nothing to flush.
SilentOK(x) ==
    LET c == call[x] IN
    call[x] # NoCall =>
        /\ c.phase = "last" => "TERMINATED" \notin status[c.id]
        /\ c.kind = "block" /\ c.phase \in {"zero", "boundary"} /\ c.todo # {} =>
              c.todo \subseteq Quiet /\ c.at = 0 /\ lastCombMatchOffset[x] = 0

-----------------------------------------------------------------------------
\* A step touches data i and the scratch x it is scanned with, and nothing else.
OnlyHere(i, x) ==
    /\ i \in Ids /\ x \in Scratches /\ ScrOf(i) = x
    /\ i \in Scratches => i \in BlockScratches
    /\ call[x] # NoCall => call[x].id = i
    /\ call'[x] # NoCall => call'[x].id = i
    /\ \A j \in Ids \ {i} :
          /\ life'[j] = life[j] /\ offset'[j] = offset[j] /\ status'[j] = status[j]
          /\ lvec'[j] = lvec[j] /\ cvec'[j] = cvec[j] /\ evec'[j] = evec[j]
          /\ matched'[j] = matched[j] /\ reported'[j] = reported[j]
    /\ \A y \in Scratches \ {x} :
          /\ call'[y] = call[y]
          /\ lastCombMatchOffset'[y] = lastCombMatchOffset[y]

\* hs_close_stream of a broken stream, which reports nothing.
Breaks(s) ==
    /\ call[ScratchOf[s]] = NoCall /\ status[s] # {} /\ life'[s] = "closed"
    /\ UNCHANGED <<offset, status, lvec, cvec, evec, matched, reported, call,
                   lastCombMatchOffset>>

\* A call on stream s begins.
Begins(s, c) ==
    LET x == ScratchOf[s] IN
    /\ life[s] = "open" /\ call[x] = NoCall /\ status[s] = {}
    /\ c \in Calls /\ c.id = s /\ c.at = offset[s] /\ call'[x] = c
    /\ lastCombMatchOffset'[x] = IF offset[s] = 0 THEN 0 ELSE lastCombMatchOffset[x]
    /\ \/ c.kind = "scan" /\ c.phase = "zero" /\ c.at < c.end
          /\ (c.todo # {} => c.at = 0)
       \/ c.kind = "close" /\ c.phase = "boundary" /\ c.at = c.end
          /\ (c.todo # {} /\ EodKeys = {} => c.at = 0)
    /\ UNCHANGED <<life, offset, status, lvec, cvec, evec, matched, reported>>

\* A block scan starts, or returns at once.
ScanStarts(x, len) ==
    /\ x \in BlockScratches /\ call[x] = NoCall /\ len \in Ends
    /\ offset'[x] = len /\ status'[x] = {} /\ lvec'[x] = {} /\ cvec'[x] = {}
    /\ evec'[x] = {} /\ matched'[x] = {} /\ reported'[x] = {}
    /\ \/ life'[x] = "closed" /\ UNCHANGED <<call, lastCombMatchOffset>>
          /\ MinWidth > len
       \/ /\ life'[x] = "open" /\ lastCombMatchOffset'[x] = 0
          /\ call'[x] \in Calls /\ call'[x].id = x /\ call'[x].kind = "block"
          /\ call'[x].at = 0 /\ call'[x].end = len
          /\ call'[x].todo \subseteq ZeroKeys \cup EodKeys
          /\ call'[x].phase = IF len = 0 THEN "boundary" ELSE "zero"

\* A sub-expression is reported by any of the three programs.
Reporting(x, l, e, a) ==
    /\ call[x] # NoCall /\ call[x].at =< e /\ e =< call[x].end
    /\ l \in LKeys /\ e \in Ends /\ a \in Adjustments /\ e + a \in Ends
    /\ call[x].phase \in {"zero", "boundary", "body", "eod"}
    /\ call[x].phase \in {"zero", "boundary"} => l \in call[x].todo /\ a = 0
    /\ call[x].phase # "body" => e = call[x].at
    /\ call[x].phase = "body" => e =< AnchoredDistance
    /\ Report(x, l, e, a)

\* What a report does, place by place.
Outcome(x, l, e, a, d, stop) ==
    LET i == call[x].id
        last == lastCombMatchOffset[x]
        goes == ~stop \/ (call[x].kind = "block" /\ call[x].phase \in {"zero", "boundary"})
    IN  /\ d \in (IF e > last THEN Deliveries(Ready(lvec[i], cvec[i], evec[i], last))
                  ELSE {Nothing})
        /\ stop \in BOOLEAN /\ d.halt \in BOOLEAN /\ (d.halt => stop)
        /\ l \in Quiet => (stop => d.halt)
        /\ reported'[i] = reported[i] \cup At(d, last)
        /\ evec'[i] = evec[i] \cup Marked(d)
        /\ cvec'[i] = (IF e > last /\ ~d.halt THEN {} ELSE cvec[i])
                       \cup (IF stop THEN {} ELSE {c \in CKeys : l \in Operands(c)})
        /\ lvec'[i] = IF stop THEN lvec[i] ELSE lvec[i] \cup {l}
        /\ matched'[i] = IF stop THEN matched[i] ELSE matched[i] \cup {<<l, e>>}
        /\ lastCombMatchOffset'[x] = IF stop THEN last ELSE e + a
        /\ status'[i] = IF stop THEN status[i] \cup {"TERMINATED"} ELSE status[i]
        /\ offset'[i] = offset[i]
        /\ IF goes
           THEN /\ call'[x] \in Calls /\ call'[x].id = i
                /\ call'[x].kind = call[x].kind /\ call'[x].end = call[x].end
                /\ call'[x].phase = IF stop THEN "last" ELSE call[x].phase
                /\ call'[x].at = IF stop THEN call[x].at ELSE e
                /\ call'[x].todo \subseteq call[x].todo
                /\ life'[i] = life[i]
           ELSE /\ call'[x] = NoCall
                /\ life'[i] = IF call[x].kind = "scan" THEN life[i] ELSE "closed"

\* The call on x goes on to its next phase.
Moves(x, phase) ==
    /\ call[x] # NoCall /\ call'[x] \in Calls
    /\ call'[x].id = call[x].id /\ call'[x].kind = call[x].kind
    /\ call'[x].at = call[x].at /\ call'[x].end = call[x].end
    /\ call'[x].phase = phase
    /\ \/ /\ call[x].phase = "zero" /\ call[x].todo = {} /\ phase = "body"
          /\ lastCombMatchOffset'[x] = IF ByRose(x) THEN call[x].at ELSE lastCombMatchOffset[x]
       \/ /\ call[x].phase = "boundary" /\ call[x].todo = {} /\ call'[x].todo = {}
          /\ phase = (IF call[x].kind = "close" /\ call[x].end > 0 /\ RequiresEodCheck
                         /\ ~Skipped(x) THEN "eod" ELSE "last")
          /\ lastCombMatchOffset'[x] = IF phase = "eod" /\ Rose THEN call[x].end
                                       ELSE lastCombMatchOffset[x]
       \/ /\ call[x].phase = "eod" /\ lastCombMatchOffset'[x] = lastCombMatchOffset[x]
          /\ phase = IF call[x].kind = "block" THEN "boundary" ELSE "last"
          /\ call'[x].todo = IF call[x].kind = "block" THEN EodKeys ELSE {}
    /\ UNCHANGED <<life, offset, status, lvec, cvec, evec, matched, reported>>

\* Rose's flush at the end of the data, and how the call goes on.
Ended(x, d) ==
    LET i == call[x].id
        end == call[x].end
        last == lastCombMatchOffset[x]
        flush == ByRose(x) /\ end > last
    IN  /\ call[x] # NoCall /\ call[x].phase = "body" /\ d.halt \in BOOLEAN
        /\ d \in (IF flush THEN Deliveries(Ready(lvec[i], cvec[i], evec[i], last))
                  ELSE {Nothing})
        /\ reported'[i] = reported[i] \cup At(d, last)
        /\ evec'[i] = evec[i] \cup Marked(d)
        /\ cvec'[i] = IF flush /\ ~d.halt THEN {} ELSE cvec[i]
        /\ lvec'[i] = lvec[i] /\ matched'[i] = matched[i]
        /\ lastCombMatchOffset'[x] = last
        /\ \/ /\ d.halt /\ call'[x] = NoCall /\ offset'[i] = offset[i]
              /\ status'[i] = status[i] \cup {"TERMINATED"}
              /\ life'[i] = IF call[x].kind = "scan" THEN life[i] ELSE "closed"
           \/ /\ ~d.halt /\ call[x].kind = "block"
              /\ call'[x] \in Calls /\ call'[x].id = i /\ call'[x].kind = "block"
              /\ call'[x].phase = "eod" /\ call'[x].at = end /\ call'[x].end = end
              /\ status'[i] = status[i] /\ offset'[i] = offset[i] /\ life'[i] = life[i]
           \/ /\ ~d.halt /\ call[x].kind # "block" /\ call'[x] = NoCall
              /\ life'[i] = life[i]
              /\ \/ /\ (ByRose(x) /\ AnchoredDistance < end) \/ ~OutfixLives
                    /\ status'[i] = {"EXHAUSTED"} /\ offset'[i] = offset[i]
                 \/ status'[i] = status[i] /\ offset'[i] = end

\* LastFlush, given what each of its two loops delivers.
Flushed(x, d, n) ==
    LET i == call[x].id
        end == call[x].end
        last == lastCombMatchOffset[x]
    IN  /\ call[x] # NoCall /\ call[x].phase = "last"
        /\ d.halt \in BOOLEAN /\ n.halt \in BOOLEAN
        /\ d \in Deliveries(Ready(lvec[i], cvec[i], evec[i], last))
        /\ n \in (IF d.halt THEN {Nothing} ELSE Deliveries(NotMatched(lvec[i], evec[i], end)))
        /\ reported'[i] = reported[i] \cup At(d, last) \cup At(n, end)
        /\ evec'[i] = evec[i] \cup Marked(d) \cup Marked(n)
        /\ lvec'[i] = lvec[i] /\ matched'[i] = matched[i] /\ offset'[i] = offset[i]
        /\ call'[x] = NoCall /\ life'[i] = IF call[x].kind = "scan" THEN life[i] ELSE "closed"
        /\ status'[i] = IF d.halt \/ n.halt THEN status[i] \cup {"TERMINATED"} ELSE status[i]

\* What a step does to the stream s that it opens, breaks or begins to scan.
StreamSteps(s) ==
    \/ hs_open_stream(s) /\ ~InCall(s)
    \/ OnlyHere(s, ScratchOf[s]) /\ TypeOK' /\ (Breaks(s) \/ \E c : Begins(s, c))

\* What a step does with scratch x and the data of the call on it.
ScratchSteps(x) ==
    \/ OnlyHere(x, x) /\ TypeOK' /\ \E len : ScanStarts(x, len)
    \/ /\ OnlyHere(call[x].id, x) /\ TypeOK'
       /\ \/ \E l, e, a, d, stop : Reporting(x, l, e, a) /\ Outcome(x, l, e, a, d, stop)
          \/ \E phase : Moves(x, phase)
          \/ \E d : Ended(x, d)
          \/ \E d, n : Flushed(x, d, n)

\* The actions, in terms of the steps above.
Steps == (\E s \in Streams : StreamSteps(s)) \/ (\E x \in Scratches : ScratchSteps(x))
=============================================================================
