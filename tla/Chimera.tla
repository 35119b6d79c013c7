------------------------------ MODULE Chimera ------------------------------
(***************************************************************************)
(* A Chimera scan (chimera/ch_runtime.c).                                  *)
(*                                                                         *)
(* Chimera reports the matches PCRE would, in the order of their ends, and *)
(* uses the multi-pattern matcher to know where to look.  A pattern is     *)
(*   "fixed"      of a fixed width: the matcher's own matches are reported;*)
(*   "confirm"    prefiltered: at the matcher's first hit PCRE scans it;   *)
(*   "unguarded"  unknown to the matcher: PCRE scans it from the outset.   *)
(* A priority queue in the scratch holds the next match of each pattern;   *)
(* reporting one makes PCRE look for the next match of its pattern.        *)
(*                                                                         *)
(* A text is given by what the patterns match in it: for each pattern a    *)
(* function from the starts of matches to their ends.  The scratch is not  *)
(* cleared between scans: one scan is modelled, on a scratch that is new or*)
(* has what an earlier scan, of another text, left in it.                  *)
(***************************************************************************)
EXTENDS Integers, FiniteSets, FiniteSetsExt, Sequences

CONSTANTS
    Databases,     \* name -> sequence of patterns: [kind, width, single, utf8,
                   \*   unordered, matches (the functions it may have)]
    Blocks         \* texts: [length, cont (offsets inside a codepoint),
                   \*   valid (whether it is UTF-8)]

CH_SUCCESS         == 0
CH_SCAN_TERMINATED == -3
CH_FAIL_INTERNAL   == -32
CH_INVALID         == -1

CH_CALLBACK_CONTINUE     == 0
CH_CALLBACK_TERMINATE    == 1
CH_CALLBACK_SKIP_PATTERN == 2
Replies == {CH_CALLBACK_CONTINUE, CH_CALLBACK_TERMINATE,
            CH_CALLBACK_SKIP_PATTERN}

VARIABLES
    name,          \* the database's name
    block,         \* the text, and
    match,         \* match[id]: start -> end of what PCRE matches in it
    hits,          \* what the multi-matcher has yet to report: <<id, to>>
    active,        \* patterns seen in this scan
    scanStart,     \* scanStart[id]: where PCRE goes on
    captured,      \* captured[id]: the match whose groups the scratch holds
    pq,            \* the queue, of [from, to, id]
    in_use,
    ret,           \* scratch->ret
    pc,
    incoming,      \* the match catchupPcre was called with
    result,        \* what ch_scan returned last
    reported,      \* ghost: reported[id]: starts of the matches reported
    last,          \* ghost: the end of the last match reported
    skipped,       \* ghost: patterns the user skipped or PCRE gave up on
    stray,         \* ghost: a report repeated, or of a pattern skipped, or
                   \*   made after a callback said to stop
    outcome,       \* ghost: how the scan should end
    turn           \* ghost: flipped by every report, so that each is a step

scratch == <<active, scanStart, captured, pq, in_use, ret>>
text    == <<name, block, match>>
ghosts  == <<reported, last, skipped, stray, outcome, turn>>
vars    == <<text, hits, scratch, pc, incoming, result, ghosts>>

db        == Databases[name]
Ids       == DOMAIN db
Fixed     == {id \in Ids : db[id].kind = "fixed"}
Unguarded == {id \in Ids : db[id].kind = "unguarded"}

ALL_CONFIRM   == Fixed = {}
ALL_SINGLE    == \A id \in Ids : db[id].single
NO_MULTIMATCH == Ids = Unguarded

Item(from, to, id) == [from |-> from, to |-> to, id |-> id]

\* Mutant of PQ_COMP: starts are compared first.
PQ_COMP_StartFirst(a, b) ==
    \/ a.from < b.from
    \/ a.from = b.from /\ a.to < b.to
    \/ a.from = b.from /\ a.to = b.to /\ a.id < b.id

\* The queue compares ends, then starts, then ids.
PQ_COMP(a, b) ==
    \/ a.to < b.to
    \/ a.to = b.to /\ a.from < b.from
    \/ a.to = b.to /\ a.from = b.from /\ a.id < b.id

PQ == INSTANCE PQueue WITH PQ_COMP <- PQ_COMP

----------------------------------------------------------------------------
(* PCRE and the multi-matcher.                                             *)

\* What a pattern may match in a block.  PCRE never splits a codepoint.
MatchesIn(pattern, b) ==
    {f \in pattern.matches :
        /\ \A x \in DOMAIN f : x =< f[x] /\ f[x] =< b.length
        /\ pattern.utf8 => \A x \in DOMAIN f : {x, f[x]} \cap b.cont = {}}

\* The matcher reports the ends of all matches of a pattern it knows, and
\* for one that is prefiltered may report ends that are no match's.
Ends(id, f) == {<<id, f[x]>> : x \in DOMAIN f}

HitsOf(d, b, m) ==
    LET known == {id \in DOMAIN d : d[id].kind # "unguarded"}
        sure  == UNION {Ends(id, m[id]) : id \in known}
        false == {<<id, to>> : id \in {i \in known : d[i].kind = "confirm"},
                               to \in {b.length \div 2}}
    IN  {sure \cup extra : extra \in SUBSET false}

\* Hits come in the order of their ends; that of an unordered pattern, seen
\* one byte late, may come after those that end one byte later.
MayComeNext(h) ==
    \A g \in hits :
        h[2] =< g[2] \/ (db[g[1]].unordered /\ h[2] =< g[2] + 1)

\* Mutants of NextStart: one byte on, codepoint or not; no progress.
NextStartOneByte(id, from, to) == IF from # to THEN to ELSE to + 1

NextStartAtEnd(id, from, to) == to

\* Where PCRE goes on after a match: after its end, or one byte or codepoint
\* on from an empty one, so that it always progresses.
NextStart(id, from, to) ==
    IF from # to THEN to
    ELSE IF db[id].utf8
    THEN Min({x \in to + 1 .. block.length + 1 : x \notin block.cont})
    ELSE to + 1

\* What scanPcre may find from an offset on: the next match, or none, or a
\* limit that PCRE hits, for which the user's error callback is asked.
scanPcre(id, start) ==
    LET starts == {x \in DOMAIN match[id] : x >= start}
        None(r, limit) == [found |-> FALSE, ret |-> r, limit |-> limit]
    IN  IF db[id].utf8 /\ ~block.valid
        THEN {None(CH_FAIL_INTERNAL, FALSE)}
        ELSE {None(r, TRUE) : r \in Replies} \cup
             {IF starts = {} THEN None(CH_SUCCESS, FALSE)
              ELSE [found |-> TRUE, ret |-> CH_SUCCESS, limit |-> FALSE,
                    from |-> Min(starts), to |-> match[id][Min(starts)]]}

\* A match found goes into the queue, its groups into the pattern's data.
Enqueue(queue, id, from, to) ==
    /\ pq' = PQ!pq_insert(queue, Item(from, to, id))
    /\ captured' = [captured EXCEPT ![id] = <<from, to>>]
    /\ scanStart' = [scanStart EXCEPT ![id] = NextStart(id, from, to)]

\* How scanPcre leaves the scratch; where nothing is found its caller may
\* move scanStart.
Scanned(queue, id, o, start) ==
    IF o.found
    THEN Enqueue(queue, id, o.from, o.to)
    ELSE /\ pq' = queue
         /\ scanStart' = [scanStart EXCEPT ![id] = start]
         /\ UNCHANGED captured

\* Ghosts: the user, or an error, ends the scan or the pattern.
Note(id, o) ==
    /\ skipped' = IF o.limit THEN skipped \cup {id} ELSE skipped
    /\ outcome' = CASE o.ret = CH_CALLBACK_TERMINATE -> CH_SCAN_TERMINATED
                    [] o.ret = CH_FAIL_INTERNAL -> CH_FAIL_INTERNAL
                    [] OTHER -> outcome

----------------------------------------------------------------------------
MatchChoices(d, b) ==
    LET funs == UNION {MatchesIn(d[id], b) : id \in DOMAIN d}
    IN  {m \in [DOMAIN d -> funs] : \A id \in DOMAIN d :
             m[id] \in MatchesIn(d[id], b)}

\* What an earlier scan, stopped by its user, may have left.
Leftover ==
    /\ active = Ids
    /\ scanStart = [id \in Ids |-> 2]
    /\ captured = [id \in Ids |-> <<1, 2>>]
    /\ pq = <<Item(1, 2, 1)>>
    /\ ret = CH_SCAN_TERMINATED

Allocated ==
    /\ active = {}
    /\ scanStart = [id \in Ids |-> 0]
    /\ captured = [id \in Ids |-> <<>>]
    /\ pq = <<>>
    /\ ret = CH_SUCCESS

Init ==
    /\ name \in DOMAIN Databases
    /\ block \in Blocks       \* the encoding matters to UTF-8 patterns only
    /\ (\E id \in Ids : db[id].utf8) \/ (block.valid /\ block.cont = {})
    /\ match \in MatchChoices(db, block)
    /\ hits \in HitsOf(db, block, match)
    /\ Allocated \/ Leftover
    /\ in_use = FALSE
    /\ pc = "idle"
    /\ incoming = Item(0, 0, 0)
    /\ result = CH_SUCCESS
    /\ reported = [id \in Ids |-> {}]
    /\ last = 0
    /\ skipped = {}
    /\ stray = FALSE
    /\ outcome = CH_SUCCESS
    /\ turn = FALSE

\* The scan begins, up to the clearing initQueue starts with.
ch_scan ==
    /\ pc = "idle" /\ ~in_use
    /\ in_use' = TRUE
    /\ pq' = <<>>
    /\ ret' = CH_SUCCESS
    /\ active' = {}
    /\ pc' = "init"
    /\ UNCHANGED <<text, hits, scanStart, captured, incoming, result, ghosts>>

\* A block longer than INT_MAX is refused.
ch_scan_too_long ==
    /\ pc = "idle" /\ ~in_use
    /\ pc' = "done"
    /\ result' = CH_INVALID
    /\ outcome' = CH_INVALID
    /\ UNCHANGED <<text, hits, scratch, incoming, reported, last, skipped,
                   stray, turn>>

\* ch_scan returns.
Return(r) ==
    /\ in_use' = FALSE
    /\ pc' = "done"
    /\ result' = r

Stay(at) == pc' = at /\ UNCHANGED <<in_use, result>>

\* The final catchup is given an id no pattern has.
Flush ==
    /\ Stay("catchup")
    /\ incoming' = Item(block.length, block.length, 0)

\* PCRE finds the first match of each unguarded pattern.
initQueue ==
    /\ pc = "init"
    /\ UNCHANGED <<text, hits, ret, reported, last, stray, turn>>
    /\ IF Unguarded \subseteq active
       THEN /\ IF NO_MULTIMATCH THEN Flush ELSE Stay("hs") /\ UNCHANGED incoming
            /\ UNCHANGED <<active, scanStart, captured, pq, skipped, outcome>>
       ELSE LET id == Min(Unguarded \ active)
            IN  /\ active' = active \cup {id}
                /\ \E o \in scanPcre(id, 0) :
                      /\ Scanned(pq, id, o, IF o.ret = CH_CALLBACK_SKIP_PATTERN
                                            THEN block.length
                                            ELSE scanStart[id])
                      /\ Note(id, o)
                      /\ CASE o.ret = CH_CALLBACK_TERMINATE ->
                                  Return(CH_SCAN_TERMINATED)
                           [] o.ret = CH_FAIL_INTERNAL -> Return(o.ret)
                           [] OTHER -> Stay("init")
                /\ UNCHANGED incoming

\* Mutant of AfterHyperscan: every stop is taken for one that Chimera asked for.
AfterHyperscanFlushing(r) == Flush

\* The multi-matcher has stopped, by itself or because multiCallback returned
\* non-zero; scratch->ret tells which errors are PCRE's.
AfterHyperscan(r) ==
    IF r = CH_CALLBACK_TERMINATE
    THEN Return(CH_SCAN_TERMINATED) /\ UNCHANGED incoming
    ELSE IF r # CH_SUCCESS
    THEN Return(r) /\ UNCHANGED incoming
    ELSE Flush

scanHyperscanEnds ==
    /\ pc = "hs"
    /\ hits = {}
    /\ AfterHyperscan(ret)
    /\ UNCHANGED <<text, hits, active, scanStart, captured, pq, ret, ghosts>>

\* The matcher fails before it reports anything (a database for another
\* platform, for one).
HyperscanFails ==
    /\ pc = "hs"
    /\ active = Unguarded
    /\ Return(CH_INVALID)
    /\ outcome' = CH_INVALID
    /\ UNCHANGED <<text, hits, active, scanStart, captured, pq, ret, incoming,
                   reported, last, skipped, stray, turn>>

----------------------------------------------------------------------------
(* multiCallback.                                                          *)

\* It has no use for the hit, and stops the matcher once it can have none.
Ignore(useless) ==
    /\ IF useless /\ active = Ids
       THEN AfterHyperscan(ret)
       ELSE Stay("hs") /\ UNCHANGED incoming
    /\ UNCHANGED <<active, scanStart, captured, pq, ret, skipped, outcome>>

\* The first hit of a prefiltered pattern: PCRE scans from the start.
Confirm(id) ==
    /\ active' = active \cup {id}
    /\ \E o \in scanPcre(id, 0) :
          /\ Scanned(pq, id, o, IF o.ret = CH_CALLBACK_SKIP_PATTERN
                                THEN block.length ELSE 0)
          /\ Note(id, o)
          /\ ret' = IF o.ret = CH_CALLBACK_SKIP_PATTERN
                    THEN CH_SUCCESS ELSE o.ret
          /\ IF o.ret \in {CH_CALLBACK_TERMINATE, CH_FAIL_INTERNAL}
             THEN AfterHyperscan(o.ret)
             ELSE Stay("hs") /\ UNCHANGED incoming

\* Mutant of Overlaps: a hit that overlaps is taken all the same.
OverlapsNever(id, to) == FALSE

\* A hit that starts before the pattern's last match has ended.
Overlaps(id, to) == to < scanStart[id] + db[id].width

multiCallback(h) ==
    LET id == h[1] to == h[2] from == h[2] - db[h[1]].width
        again == id \in Fixed \cap active
    IN  /\ pc = "hs" /\ h \in hits /\ MayComeNext(h)
        /\ hits' = hits \ {h}
        /\ CASE id \notin Fixed /\ id \in active -> Ignore(ALL_CONFIRM)
             [] id \notin Fixed /\ id \notin active -> Confirm(id)
             [] again /\ Overlaps(id, to) -> Ignore(FALSE)
             [] again /\ ~Overlaps(id, to) /\ db[id].single ->
                   Ignore(ALL_SINGLE)
             [] again /\ ~Overlaps(id, to) /\ ~db[id].single ->
                   /\ pc' = "catchup"
                   /\ incoming' = Item(from, to, id)
                   /\ UNCHANGED <<scratch, result, skipped, outcome>>
             [] OTHER ->
                   /\ active' = active \cup {id}
                   /\ Enqueue(pq, id, from, to)
                   /\ Stay("hs")
                   /\ UNCHANGED <<ret, incoming, skipped, outcome>>
        /\ UNCHANGED <<text, reported, last, stray, turn>>

----------------------------------------------------------------------------
(* catchupPcre, an iteration of its loop at a time.                        *)

\* catchupPcre returns: to ch_scan_i, or to multiCallback, which queues the
\* hit it was called for unless the pattern is done with.
CatchupReturns(queue, starts, r) ==
    IF incoming.id = 0
    THEN /\ Return(r)
         /\ pq' = queue
         /\ scanStart' = starts
         /\ UNCHANGED <<captured, ret, incoming>>
    ELSE /\ ret' = r
         /\ IF starts[incoming.id] >= block.length
            THEN pq' = queue /\ scanStart' = starts /\ UNCHANGED captured
            ELSE Enqueue(queue, incoming.id, incoming.from, incoming.to)
         /\ IF r = CH_SUCCESS
            THEN Stay("hs") /\ UNCHANGED incoming
            ELSE AfterHyperscan(r)

\* The next match of the pattern just reported.
Replace(id, queue) ==
    \E o \in scanPcre(id, scanStart[id]) :
        /\ Note(id, o)
        /\ CASE o.ret = CH_CALLBACK_TERMINATE ->
                    CatchupReturns(queue, scanStart, CH_SCAN_TERMINATED)
             [] o.ret = CH_FAIL_INTERNAL ->
                    CatchupReturns(queue, scanStart, o.ret)
             [] OTHER ->
                    /\ Scanned(queue, id, o, block.length)
                    /\ Stay("catchup")
                    /\ UNCHANGED <<ret, incoming>>

\* The user's callback gets a match.
Report(top) ==
    /\ reported' = [reported EXCEPT ![top.id] = @ \cup {top.from}]
    /\ last' = top.to
    /\ stray' = (stray \/ top.from \in reported[top.id] \/ top.id \in skipped
                       \/ outcome # CH_SUCCESS)
    /\ turn' = ~turn

\* Mutant of IsIncoming: a match of the incoming hit's pattern is replaced like any other.
IsIncomingNever(top) == FALSE

\* The match the incoming hit is to replace.
IsIncoming(top) == top.id = incoming.id

catchupPcre ==
    /\ pc = "catchup"
    /\ UNCHANGED <<text, hits, active>>
    /\ IF pq = <<>>
       THEN /\ CatchupReturns(pq, scanStart, CH_SUCCESS)
            /\ UNCHANGED ghosts
       ELSE LET top   == PQ!pq_top(pq)
                queue == PQ!pq_pop(pq)
            IN  IF top.to > incoming.to
                THEN /\ CatchupReturns(PQ!pq_insert(pq, incoming), scanStart,
                                       CH_SUCCESS)
                     /\ UNCHANGED ghosts
                ELSE \E r \in Replies :
                     /\ Report(top)
                     /\ CASE r = CH_CALLBACK_TERMINATE ->
                               /\ CatchupReturns(queue, scanStart,
                                                 CH_SCAN_TERMINATED)
                               /\ outcome' = CH_SCAN_TERMINATED
                               /\ UNCHANGED skipped
                          [] r = CH_CALLBACK_SKIP_PATTERN ->
                               /\ LET starts == [scanStart EXCEPT ![top.id] =
                                                     block.length]
                                  IN  IF IsIncoming(top)
                                      THEN CatchupReturns(queue, starts,
                                                          CH_SUCCESS)
                                      ELSE /\ pq' = queue
                                           /\ scanStart' = starts
                                           /\ Stay("catchup")
                                           /\ UNCHANGED <<captured, ret,
                                                          incoming>>
                               /\ skipped' = skipped \cup {top.id}
                               /\ UNCHANGED outcome
                          [] OTHER ->
                               IF IsIncoming(top)
                               THEN /\ CatchupReturns(queue, scanStart,
                                                      CH_SUCCESS)
                                    /\ UNCHANGED <<skipped, outcome>>
                               ELSE IF /\ block.length >= scanStart[top.id]
                                       /\ ~db[top.id].single
                               THEN Replace(top.id, queue)
                               ELSE /\ pq' = queue
                                    /\ Stay("catchup")
                                    /\ UNCHANGED <<scanStart, captured, ret,
                                                   incoming, skipped, outcome>>

----------------------------------------------------------------------------
\* What the scanning thread does once it is inside ch_scan.
Step ==
    \/ initQueue
    \/ scanHyperscanEnds
    \/ HyperscanFails
    \/ \E h \in hits : multiCallback(h)
    \/ catchupPcre

Next ==
    \/ ch_scan
    \/ ch_scan_too_long
    \/ Step

Spec == Init /\ [][Next]_vars /\ WF_vars(Step)

----------------------------------------------------------------------------
(* Properties.                                                             *)

\* A scan's state; its queue never outgrows the patternCount items that
\* alloc_scratch makes room for.
TypeOK ==
    /\ block \in Blocks
    /\ hits \subseteq Ids \X (0 .. block.length)
    /\ active \subseteq Ids
    /\ \A id \in Ids : scanStart[id] \in Nat
    /\ Len(pq) =< Len(db)
    /\ \A i \in DOMAIN pq : pq[i].id \in Ids
    /\ in_use \in BOOLEAN
    /\ ret \in {CH_SUCCESS, CH_CALLBACK_TERMINATE, CH_SCAN_TERMINATED,
                CH_FAIL_INTERNAL}
    /\ pc \in {"idle", "init", "hs", "catchup", "done"}
    /\ result \in {CH_SUCCESS, CH_SCAN_TERMINATED, CH_FAIL_INTERNAL, CH_INVALID}

\* While a scan runs the queue can be trusted: its top is its least item,
\* however the items came and went; a pattern has at most one match in it,
\* and the groups the scratch holds for the pattern are those of that match,
\* so the callback never gets the groups of another.
QueueSound ==
    in_use => /\ \A i \in DOMAIN pq : ~PQ_COMP(pq[i], pq[1])
              /\ \A i \in DOMAIN pq :
                     captured[pq[i].id] = <<pq[i].from, pq[i].to>>
              /\ \A i, j \in DOMAIN pq : pq[i].id = pq[j].id => i = j

\* "multiple matches will be reported in order by end offset": the callback
\* never gets a match that ends before one it already got, whichever of the
\* matcher and PCRE found them and however late a hit came.
InOrder == [][in_use /\ in_use' => last =< last']_vars

\* The matches of a pattern PCRE would report scanning on from each match:
\* those that start where no earlier one of them is still open.
NonOverlapping(id) ==
    LET f == match[id]
        taken[x \in 0 .. block.length] ==
            /\ x \in DOMAIN f
            /\ \A y \in 0 .. x - 1 : taken[y] => f[y] =< x
        all == {x \in 0 .. block.length : taken[x]}
    IN  IF db[id].single /\ all # {} THEN {Min(all)} ELSE all

\* A scan that succeeds has reported exactly the non-overlapping matches of
\* every pattern, once each, for a single-match pattern the first; for one
\* that was skipped it reported the first few and nothing after the skip.
GlobalMatches ==
    /\ ~stray
    /\ \A id \in Ids :
          /\ reported[id] \subseteq NonOverlapping(id)
          /\ \A x \in reported[id], y \in NonOverlapping(id) :
                 y < x => y \in reported[id]
          /\ (pc = "done" /\ result = CH_SUCCESS /\ id \notin skipped) =>
                 reported[id] = NonOverlapping(id)

\* ch_scan tells how the scan ended, though the answer goes through two
\* callbacks, the matcher and scratch->ret: CH_SCAN_TERMINATED exactly if a
\* callback asked to terminate, CH_FAIL_INTERNAL if PCRE failed.
ResultTellsOutcome == pc = "done" => result = outcome

\* PCRE is run with PCRE_NO_UTF8_CHECK, so it must never be started inside a
\* codepoint: not after a match, an empty one included, and not with what
\* another text left in the scratch.
StartsAtCodepoint ==
    \A i \in DOMAIN pq :
        in_use /\ db[pq[i].id].utf8 => scanStart[pq[i].id] \notin block.cont

\* Every scan returns, and gives the scratch back: PCRE's matches, empty ones
\* included, do not keep the queue filled for ever.
ScanReturns == in_use ~> ~in_use
=============================================================================
