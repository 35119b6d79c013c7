----------------------------- MODULE DelaySlots -----------------------------
(***************************************************************************)
(* Delayed and anchored literals of a Rose engine in a stream.             *)
(*                                                                         *)
(* The literal matcher reports literals as they end.  Two kinds of program *)
(* run later than that: a delayed literal's, a fixed number of bytes on,   *)
(* and an anchored literal's, which the anchored table finds before the    *)
(* floating matcher has started.  Delayed literals wait in a ring of       *)
(* DELAY_SLOT_COUNT slots, anchored ones in a log with a row per offset;   *)
(* flushQueuedLiterals plays both back when the matcher has moved on.      *)
(*                                                                         *)
(* The ring does not survive a write.  cleanUpDelayed leaves a bit in the  *)
(* stream's status if something was waiting, and the next write refills    *)
(* the ring by matching the end of the history again.                      *)
(*                                                                         *)
(* The text is abstracted to which literals end where.  The user never     *)
(* stops the scan; groups and roles, which only filter what programs do,   *)
(* are left out, and floating literals may end anywhere in the stream      *)
(* (floatingDistance is ROSE_BOUND_INF, noFloatingRoots is 0).             *)
(***************************************************************************)
EXTENDS Integers, FiniteSets, Sequences, SequencesExt

CONSTANTS
    DELAY_SLOT_COUNT,
    Literals,           \* floating literals
    Length,             \* Length[l]: bytes of literal l, its mask included
    Delayed,            \* delay programs
    LiteralOf, Delay,   \* the literal of one, and by how much it is delayed
    Anchored,           \* anchored literals
    AnchoredDistance,   \* they end within this distance
    FloatingMinLiteralMatchOffset,
    MaxFloatingDelayedMatch,  \* no delay program has work beyond it
    MaxText,            \* bound on the bytes of the stream
    MaxEnds             \* bound on the literals in it

ASSUME DelayAssumption ==
    /\ Length \in [Literals -> Nat \ {0}]
    /\ LiteralOf \in [Delayed -> Literals]
    /\ Delay \in [Delayed -> 1 .. DELAY_SLOT_COUNT - 1]

VARIABLES
    ends,                  \* the text: which literals end at which offsets
    offset,                \* bytes of the stream consumed by earlier writes
    len,                   \* bytes of the write being scanned
    dirty,                 \* STATUS_DELAY_DIRTY of the stream
    todo,                  \* what the literal matcher has still to report
    scanning,
    delaySlots,            \* delaySlots[i]: the programs in slot i
    filledDelayedSlots,    \* the slots whose content counts
    delayLastEndOffset,
    lastEndOffset,
    al_log,                \* al_log[o - 1]: the anchored literals of offset o
    al_log_sum,            \* the rows whose content counts
    played                 \* ghost: the programs run, in order

ring == <<delaySlots, filledDelayedSlots, delayLastEndOffset>>
rows == <<al_log, al_log_sum>>
vars == <<ends, offset, len, dirty, todo, scanning, ring, lastEndOffset, rows,
          played>>

Slots == 0 .. DELAY_SLOT_COUNT - 1
Rows  == 0 .. AnchoredDistance - 1

MaxOf(S) == CHOOSE n \in S : \A m \in S : m =< n

\* Enough to find again every literal that may be waiting.
delayRebuildLength ==
    MaxOf({0} \cup {Length[LiteralOf[d]] + Delay[d] - 1 : d \in Delayed})

historyRequired == delayRebuildLength

Ran(kind, id, at) == [kind |-> kind, id |-> id, at |-> at]

\* The programs of a set, in some fixed order, all run at one offset.
RunAll(kind, ids, at) ==
    LET order == SetToSeq(ids) IN [n \in DOMAIN order |-> Ran(kind, order[n], at)]

----------------------------------------------------------------------------
Init ==
    /\ ends = {}
    /\ offset = 0 /\ len = 0
    /\ dirty = FALSE
    /\ todo = {}
    /\ scanning = FALSE
    /\ delaySlots = [i \in Slots |-> {}]
    /\ filledDelayedSlots = {}
    /\ delayLastEndOffset = 0 /\ lastEndOffset = 0
    /\ al_log = [r \in Rows |-> {}]
    /\ al_log_sum = {}
    /\ played = <<>>

----------------------------------------------------------------------------
(* The ring.  A state of it is [slots, filled].                            *)

\* A slot taken over with what an earlier use left in it.
rosePushDelayedMatchUncleared(r, d, at, last) ==
    IF at + Delay[d] =< last THEN r
    ELSE LET i == (at + Delay[d]) % DELAY_SLOT_COUNT
         IN  [slots  |-> [r.slots EXCEPT ![i] = @ \cup {d}],
              filled |-> r.filled \cup {i}]

\* A literal ended at an offset: a delay program of it goes into its slot.
rosePushDelayedMatch(r, d, at, last) ==
    IF at + Delay[d] =< last THEN r
    ELSE LET i == (at + Delay[d]) % DELAY_SLOT_COUNT
         IN  [slots  |-> [r.slots EXCEPT ![i] =
                  IF i \in r.filled THEN @ \cup {d} ELSE {d}],
              filled |-> r.filled \cup {i}]

\* The same for all the literals that end at some offsets.
PushAll(r, found, last) ==
    LET pushes == {<<d, f>> \in Delayed \X found : LiteralOf[d] = f.literal}
    IN  FoldSet(LAMBDA p, acc : rosePushDelayedMatch(acc, p[1], p[2].at, last),
                r, pushes)

\* The second half left in the block of the first.
VictimDelaySlotsUnshifted(last, curr) ==
    LET lastIndex == last % DELAY_SLOT_COUNT
        currIndex == curr % DELAY_SLOT_COUNT
        wrapped   == last - lastIndex + DELAY_SLOT_COUNT - 1 < curr
        first     == {i \in filledDelayedSlots : i > lastIndex}
        second    == {i \in filledDelayedSlots \ first :
                          curr > last + DELAY_SLOT_COUNT \/ i =< currIndex}
    IN  IF wrapped THEN first \cup second ELSE {i \in first : i =< currIndex}

\* The slots to play as the matcher moves from one offset to another, as
\* numbers from the start of the block of DELAY_SLOT_COUNT offsets that the
\* first lies in.  A slot of the second half belongs to the next block.
VictimDelaySlots(last, curr) ==
    LET lastIndex == last % DELAY_SLOT_COUNT
        currIndex == curr % DELAY_SLOT_COUNT
        wrapped   == last - lastIndex + DELAY_SLOT_COUNT - 1 < curr
        first     == {i \in filledDelayedSlots : i > lastIndex}
        second    == {i \in filledDelayedSlots \ first :
                          curr > last + DELAY_SLOT_COUNT \/ i =< currIndex}
    IN  IF wrapped
        THEN first \cup {i + DELAY_SLOT_COUNT : i \in second}
        ELSE {i \in first : i =< currIndex}

----------------------------------------------------------------------------
(* Playing back.                                                           *)

\* The rows of the anchored log that a flush may play.
AnchoredRows ==
    IF lastEndOffset >= AnchoredDistance THEN {}
    ELSE {r \in al_log_sum : r >= lastEndOffset}

\* The slots and rows played on the way to an offset, in order: at one offset
\* the row comes before the slot.
Playback(curr) ==
    LET base    == delayLastEndOffset - (delayLastEndOffset % DELAY_SLOT_COUNT)
        victims == IF filledDelayedSlots = {} THEN {}
                   ELSE VictimDelaySlots(delayLastEndOffset, curr)
        due     == {[at |-> v + base, slot |-> TRUE] : v \in victims}
                   \cup {[at |-> r + 1, slot |-> FALSE] :
                            r \in {r \in AnchoredRows : r < curr}}
    IN  SetToSortSeq(due, LAMBDA x, y : \/ x.at < y.at
                                        \/ x.at = y.at /\ y.slot /\ ~x.slot)

\* playDelaySlot or flushAnchoredLiteralAtLoc.
Play(p) ==
    IF ~p.slot
    THEN RunAll("anchored", al_log[p.at - 1], p.at)
    ELSE IF p.at < FloatingMinLiteralMatchOffset THEN <<>>
    ELSE RunAll("delayed", delaySlots[p.at % DELAY_SLOT_COUNT], p.at)

\* The offset that the playback leaves in lastEndOffset.
LastPlayed(back) ==
    MaxOf({lastEndOffset} \cup
          {p.at : p \in {p \in Range(back) :
                            p.slot => p.at >= FloatingMinLiteralMatchOffset}})

\* flushQueuedLiterals, as the parts of the state it leaves.
flushQueuedLiterals(curr) ==
    LET back == IF delayLastEndOffset = curr THEN <<>> ELSE Playback(curr)
    IN  [ran    |-> FlattenSeq([n \in DOMAIN back |-> Play(back[n])]),
         filled |-> filledDelayedSlots \ {p.at % DELAY_SLOT_COUNT :
                        p \in {p \in Range(back) : p.slot}},
         sum    |-> al_log_sum \ {p.at - 1 : p \in {p \in Range(back) : ~p.slot}},
         last   |-> LastPlayed(back)]

----------------------------------------------------------------------------
End(l, at) == [literal |-> l, at |-> at]

\* What n more bytes may hold.
MayEnd(n) ==
    {End(l, at) : l \in Literals \cup Anchored, at \in offset + 1 .. offset + n}
    \ ({End(l, at) : l \in Anchored, at \in AnchoredDistance + 1 .. MaxText}
       \cup UNION {{End(l, at) : at \in 1 .. Length[l] - 1} : l \in Literals})

AtMost(k, S) == {{}} \cup {Range(f) : f \in [1 .. k -> S]}

\* roseAnchoredCallback on what the anchored table finds in the write: a
\* program runs at once if no floating literal can end before it.
AtOnce(found) == {e \in found : e.at =< FloatingMinLiteralMatchOffset}

Least(m, n) == IF m < n THEN m ELSE n
hlen == Least(offset, historyRequired)

rebuild == hlen > 0 /\ dirty /\ offset < MaxFloatingDelayedMatch

\* do_rebuild: the literals that lie in the last bytes of the history.
Rebuilt ==
    {e \in ends :
        /\ rebuild
        /\ e.literal \in Literals
        /\ e.at - Length[e.literal] >= offset - Least(hlen, delayRebuildLength)}

\* A write begins: the anchored table runs and the ring is refilled.
roseStreamExec(n, new) ==
    LET found == {e \in new : e.literal \in Anchored}
        order == SetToSortSeq({e.at : e \in AtOnce(found)}, <)
        IdsAt(S, at) == {e.literal : e \in {e \in S : e.at = at}}
        logged == found \ AtOnce(found)
        r == PushAll([slots |-> delaySlots, filled |-> {}], Rebuilt, offset)
    IN  /\ ~scanning
        /\ scanning' = TRUE
        /\ len' = n
        /\ ends' = ends \cup new
        /\ played' = played \o FlattenSeq([i \in DOMAIN order |->
                         RunAll("anchored", IdsAt(found, order[i]), order[i])])
        /\ al_log' = [row \in Rows |->
                         IF \E e \in logged : e.at = row + 1
                         THEN IdsAt(logged, row + 1) ELSE al_log[row]]
        /\ al_log_sum' = {e.at - 1 : e \in logged}
        /\ lastEndOffset' = MaxOf({offset} \cup {e.at : e \in AtOnce(found)})
        /\ delaySlots' = r.slots
        /\ filledDelayedSlots' = r.filled
        /\ delayLastEndOffset' = offset
        /\ dirty' = (dirty /\ ~rebuild)
        /\ todo' = new \ found
        /\ UNCHANGED offset

\* The literal matcher reports a literal: everything due by then is played
\* first, then the literal's delay programs are queued and its own program
\* runs, if it is not too early for it (CHECK_LIT_EARLY).
roseFloatingCallback(e) ==
    LET f == flushQueuedLiterals(e.at)
        r == PushAll([slots |-> delaySlots, filled |-> f.filled], {e}, e.at)
    IN  /\ e \in todo
        /\ \A other \in todo : e.at =< other.at
        /\ todo' = todo \ {e}
        /\ played' = played \o f.ran \o
                         IF e.at < FloatingMinLiteralMatchOffset THEN <<>>
                         ELSE <<Ran("floating", e.literal, e.at)>>
        /\ al_log_sum' = f.sum
        /\ lastEndOffset' = IF e.at >= FloatingMinLiteralMatchOffset
                            THEN e.at ELSE f.last
        /\ delayLastEndOffset' = e.at
        /\ delaySlots' = r.slots
        /\ filledDelayedSlots' = r.filled
        /\ UNCHANGED <<ends, offset, len, dirty, scanning, al_log>>

\* What waits for later bytes is kept, in a scratch other streams use.
cleanUpDelayedKeeping ==
    LET f == flushQueuedLiterals(offset + len)
    IN  /\ scanning /\ todo = {}
        /\ scanning' = FALSE
        /\ played' = played \o f.ran
        /\ al_log_sum' = f.sum
        /\ dirty' = (f.filled # {})
        /\ filledDelayedSlots' = f.filled
        /\ delayLastEndOffset' = offset
        /\ lastEndOffset' = offset + len
        /\ offset' = offset + len
        /\ len' = 0
        /\ UNCHANGED <<ends, todo, delaySlots, al_log>>

\* The write ends.  What waits for later bytes is forgotten.
cleanUpDelayed ==
    LET f == flushQueuedLiterals(offset + len)
    IN  /\ scanning /\ todo = {}
        /\ scanning' = FALSE
        /\ played' = played \o f.ran
        /\ al_log_sum' = f.sum
        /\ dirty' = (f.filled # {})
        /\ filledDelayedSlots' = {}
        /\ delayLastEndOffset' = offset
        /\ lastEndOffset' = offset + len
        /\ offset' = offset + len
        /\ len' = 0
        /\ UNCHANGED <<ends, todo, delaySlots, al_log>>

Next ==
    \/ \E n \in 1 .. MaxText - offset :
          \E new \in AtMost(MaxEnds - Cardinality(ends), MayEnd(n)) :
              roseStreamExec(n, new)
    \/ \E e \in todo : roseFloatingCallback(e)
    \/ cleanUpDelayed

Spec == Init /\ [][Next]_vars

----------------------------------------------------------------------------
(* Properties.                                                             *)

\* Between writes the ring is empty; slots, rows and what ran are well formed.
TypeOK ==
    /\ offset \in 0 .. MaxText /\ len \in 0 .. MaxText
    /\ dirty \in BOOLEAN /\ scanning \in BOOLEAN
    /\ delaySlots \in [Slots -> SUBSET Delayed]
    /\ filledDelayedSlots \subseteq Slots
    /\ al_log \in [Rows -> SUBSET Anchored] /\ al_log_sum \subseteq Rows
    /\ \A i \in DOMAIN played : played[i].at \in 1 .. offset + len
    /\ ~scanning => filledDelayedSlots = {} /\ todo = {}

\* The programs that should have run once the stream has got to an offset.
Due(upto) ==
    LET Of(kind, ids) == {Ran(kind, e.literal, e.at) :
                             e \in {e \in ends : e.literal \in ids}}
        delayed == {Ran("delayed", d, e.at + Delay[d]) : d \in Delayed, e \in ends}
    IN  Of("anchored", Anchored)
        \cup {r \in Of("floating", Literals) :
                 r.at >= FloatingMinLiteralMatchOffset}
        \cup {r \in delayed :
                 /\ End(LiteralOf[r.id], r.at - Delay[r.id]) \in ends
                 /\ r.at >= FloatingMinLiteralMatchOffset
                 /\ r.at =< upto /\ r.at =< MaxFloatingDelayedMatch}

\* However the stream is cut into writes, and wherever the ring wraps: when a
\* write returns, every program due in the bytes so far has run at its own
\* offset, and nothing has run twice.
EachRunsOnceWhenDue ==
    ~scanning =>
        /\ {r \in Range(played) :
               r.kind = "delayed" => r.at =< MaxFloatingDelayedMatch}
           = Due(offset)
        /\ \A i, j \in DOMAIN played : played[i] = played[j] => i = j

\* Programs run in the order of their offsets, and at one offset the queued
\* ones run before the literal that ends there ("delayed literals need to be
\* delivered before real literals").
RunInOrder ==
    \A i \in 1 .. Len(played) - 1 :
        LET a == played[i]
            b == played[i + 1]
        IN  a.at < b.at \/ (a.at = b.at /\ (a.kind = "floating" => b.kind = "floating"))
=============================================================================
