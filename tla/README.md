# Verification of vectorscan-rs

TLA+ models of the run time behind the `vectorscan-rs` crates, checked with TLC
on small instances, and for the scratch life cycle, streams, the deduper, logical
combinations, the multibit and the Rust bindings proved with TLAPS for every
instance. Paths below are relative to `src/`; `V` is `vectorscan-rs-sys/vectorscan/src` and `C` is
`vectorscan-rs-sys/vectorscan/chimera`.

## The system

A program compiles patterns into an immutable *database*, allocates a *scratch*
region that is large enough for it, and scans: a *block* in one call, a list of
blocks in one call (*vectored*), or a *stream* in any number of writes. Matches
are handed to a callback during the call; the callback may stop the matching,
and may call the library again with another scratch.

| Part | Code | State | Operations |
|---|---|---|---|
| Rust bindings | `vectorscan-rs/src` | owned C objects, borrows | new, clone, drop, open_stream, scan, close, the callback trampoline |
| Scratch | `V/scratch.c`, `scratch.h` | region headers, `in_use` | alloc and grow, clone, free, mark, unmark |
| Stream runtime | `V/runtime.c`, `stream_compress*` | offset, history, status, exhaustion vector | open, scan, close, reset, copy, compress, expand, hs_scan, hs_scan_vector |
| Combinations | `V/report.h`, `rose/program_runtime.c` | lvec, cvec, `lastCombMatchOffset` | report, flush, purely negative check |
| Deduper | `V/report.h`, `som/som_runtime.c` | logs of two parities, held starts | dedupe, hold, flush |
| Delayed and anchored literals | `V/rose/match.c`, `stream.c` | ring of slots, anchored log | push, play back, clean up, rebuild |
| Bounded repeats | `V/nfa/repeat*`, `lbr*` | ring, range list, bitmap, trailer or patches of tops | store, next match, match test, pack, unpack |
| Multibit | `V/util/multibit*` | tree of blocks | set, unset, clear, ranges, iterators, compress, expand |
| Chimera | `C/ch_runtime.c`, `V/util/pqueue.h` | priority queue, positions of PCRE | ch_scan, its callbacks, catch-up |
| SOM slots, NFA queues, catch-up | `V/som`, `V/nfa`, `V/rose/catchup.c` | per-stream engine state | not modelled |
| Literal matchers, engines | `V/hwlm`, `V/fdr`, `V/nfa` | SIMD registers | abstracted to the matches they find |
| Compiler | `V/compiler`, `V/nfagraph`, `V/rose/rose_build*` | compile time only | its results are CONSTANTs |
| Database serialisation | `V/database.c` | bytes | not modelled |

How they interact: the bindings call the C API; every scanning call marks the
scratch, fills in its core info, runs engines that report through deduper and
combinations to the callback, and unmarks it. A stream keeps its own state
between calls, but combinations, deduper and delay slots also keep state in the
scratch, which other streams use in between. That is where most of the hard
behaviour is: state that outlives a call in the wrong place, work put off to a
later call, calls made from callbacks, and threads that share a scanner. Below
them are data structures that are lazy about memory they are given dirty
(multibits, repeat stores), and beside them Chimera, which merges the matches
of PCRE and of a database's own scan through a queue in its scratch. The
full list, with the line each hazard bites at and the properties that watch it,
is in `PROJECT.json` under `hazards`.

## Modules

| Module | Lines up with |
|---|---|
| `Scratch` | One action per API call (`hs_alloc_scratch` has one disjunct per way it can end); a scan is two steps, `ScanBegin` and `ScanEnd`, and any call may come between them, as from a callback. `asked` records which databases a region was allocated for. |
| `ScratchProofs` | The proofs about `Scratch`. |
| `Matching` | Pattern sets and the ways reports can reach a callback that may stop at any of them. |
| `StreamSpec` | The abstract specification: a stream is the data written to it, and a call reports what is due for the whole data and not yet reported. |
| `StreamRuntime` | What the code keeps instead of the data. One action per API call. `KeepsPromise` is `StreamSpec!Spec` under the mapping of status flags to phases and of buffers to saved streams. |
| `Combination` | The phases of a scan, close and block call as actions, so that calls on different streams and scratches interleave where the code allows it. A report has an adjustment of 0 or -1 (`OffsetAdjust`), which `SET_LOGICAL` adds to the offset it keeps and the flush does not. `Skipped` and `ByRose` are the early exits of `hs_scan`, `roseStreamExec` and `roseStreamEodExec` and the small-write engine; `OutfixDies` is a sole engine that runs out of states. |
| `CombinationInv`, `CombinationSteps`, `CombinationBase`, `CombinationProofs` | The invariants of `Combination` and its actions place by place; that every action is such a step, and what a match and a flush do to what waits; what holds of every database; what holds if the offset in the scratch is kept. |
| `Deduper` | `dedupeCatchup`, `flushStoredSomMatches` and `populateCoreInfo`, over successive calls on one scratch. `raised` and `delivered` are history variables. |
| `DelaySlots` | `roseStreamExec` with the anchored table, `roseFloatingCallback`, `flushQueuedLiterals` and `cleanUpDelayed`. The text is which literals end where. |
| `Bindings` | Rust variables as slots. Guards are borrow-checker rules read off the method signatures. `markScratchInUse` is two steps, so threads interleave inside it. |
| `BindingsProofs` | The proofs about `Bindings`: what borrows keep allocated, that a stop is final, the invariant of the `in_use` bytes and what follows from it. |
| `StreamProofs` | The proofs about `StreamRuntime`, its refinement of `StreamSpec` included. |
| `DeduperProofs` | The proofs about `Deduper`. |
| `PQueue` | `pqueue.h` on the array, parameterised by the comparison. |
| `Chimera` | `ch_scan_i` as steps: the queue's setup, a hit of the multi-matcher (`multiCallback`), each report of `catchupPcre`, the flush, the return. The user's and PCRE's answers are chosen at each. A text is given by what each pattern matches in it. The scratch is new or has what an earlier scan left. |
| `Repeat` | The compiler's choice of a store (`RepeatStateInfo`, `chooseRepeatType`), the operations of each store, and the large bounded repeat engine that drives one: `Top` of a live repeat, `TopScan` of a dead one (the reverse scan for an escape behind the top, and `lastEscape`, below which tops are skipped), `Advance` over bytes in the class, `Escape`, `StreamBoundary` (pack and unpack), `SwitchOff`. `can_reset` and `minPeriod` are what the compiler found about the triggers; `is_reset` decides with them for a store of one offset. `tops` is the history variable the answers are compared with; `escapes` has the escapes found ahead of the scan, so that what is scanned later agrees with what was found. |
| `KeySet` | The abstract specification of a multibit: a set of keys. |
| `Multibit` | The blocks in memory and the operations that write them. `ImplementsKeySet` is `KeySet!Spec` for the keys whose bit is on at every level. |
| `MultibitProofs` | The proof of that refinement. |
| `MultibitFlat` | The flat form of a multibit, a bit vector: iteration, bounds, any and all, ranges and sparse iterators, each with its single-block shortcut. Also the layout of sparse iterators, which both forms share. |
| `MultibitScan` | What reads the tree of blocks: iteration, bounds, sparse iterators, compression. Adds sparse unset and expansion over dirty memory to the steps, and checks `MultibitFlat` for two widths of block and byte. |
| `MC*` | Constants for TLC. |

What the data is reduced to: bytes are two letters, patterns are literals and
the boundary patterns at offset 0 and at end of data, a scratch header is its
size fields, a log is a set of keys, a block of a multibit the set of its bits.
Statements over several kinds of user (`Applications` of the stream runtime,
`Programs` of the bindings) choose one in the initial state and keep it.
`U32` and `U64` are scaled down but kept as moduli where the code depends on
wrapping or truncation.

## Runs that pass

| Run | States | Instance | Shows |
|---|---|---|---|
| `scratch` | 10,516 | 2 pointers, 2 blocks, 4 databases: two of block mode neither of which dominates the other, one vectored, one streaming | a scratch serves every database it was allocated for; pointers own live blocks across failed allocations; marked exactly while scanning; a running scan keeps its region |
| `combination` | 105,652 | a stream and block scans taking turns on one scratch; full Rose with an EOD program and a small-write engine; 3 sub-expressions, two of them with adjusted reports, 3 combinations, 2 bytes | combinations raised only where due and none missed, negative ones at the end of data, silence after a stop, the offset in the scratch never ahead of the scan |
| `streams` | 32,044 | 1 stream and 1 buffer with all pattern kinds; 2 streams of single-match literals; block and vectored scans with and without boundary patterns; 3 bytes, writes of 0 to 2, history of 2 | refinement of `StreamSpec` with copies, resets, compress and expand, exhausted streams and one-call scans; history and exhaustion vector are right |
| `deduper` | 27,477 | 3 keys, 2 of them start-of-match, offsets 0 to 3, 3 reports a call | each match once, with its leftmost start, on dirty logs |
| `delay_slots` | 145,442 | ring of 4, delays 1 to 3, 9 bytes, 3 literals | each program once, when due, in order |
| `bindings` | 190,918 | 1 thread, 2 scanners, 2 streams, calls 3 deep; 2 threads with a scanner each | nothing dangles, one call per scratch, results say whether the callback stopped, clones stay apart, drops do not panic |
| `chimera` | 69,279 | 5 databases of 2 to 4 patterns, texts of 0 and 3 bytes, one with a two-byte codepoint, one not UTF-8; new and dirty scratch | the queue is a heap of one match per pattern and its groups; matches are PCRE's, once and in order; the result tells how the scan ended; a scan returns |
| `repeat` | 2,399,846 | 16 repeats, word of 4 bits, offsets to 15 | stores stay in their memory; every answer about matches is exact, after packing too; the engine reports every match |
| `multibit` | 6,489 | 7 keys in 3 levels of 2-bit blocks, all-zero and all-one memory | the tree is a set of keys; all readers agree with it; flat multibits of 1 to 7 keys, in blocks of 2 and of 4 bits, are sets too |

Why the bounds are enough: the history of 2 is shorter than the text and longer
than a write of 1, so literals span up to three writes and history is both
partly and wholly replaced. Nine bytes go round a ring of four twice. Offsets 0
to 3 let the deduper's scan stay, advance by one, skip, and start at the wrap of
`~0 + 1`. Two databases of which neither dominates need a scratch larger than
either. Two blocks and two pointers let a growth run out of memory while a
clone holds the other block. Repeats: the thresholds that choose a store are
scaled down with the word (4 for 64, 8 range slots for 16, period 1 for 6), so
that each store is met just under, at and just over its edges, and 15 offsets
go round the longest ring twice (17 pass as well, in four minutes). A store of one
offset is met for each of its three reasons: minimum 0, triggers that reset the
repeat, and a period beyond the maximum. Multibit: seven keys in blocks of two end
every level in a runt; three levels are a root, a middle and a bottom. Flat
multibits of one to seven keys, with blocks of two one-bit bytes and of two two-bit
bytes, are one block or less, several whole blocks, and several with a runt that
ends at or within a byte. Combinations: two bytes give two writes, a match in each
and two at one end, which is where an adjustment of -1 makes a difference; the
instance with three bytes is `MCCombinationBi.cfg`. Chimera:
the texts have empty, overlapping, spanning and codepoint-splitting candidates,
and four unguarded patterns give the queue a second level.

`MCMultibit` has a VIEW: states are told apart by the memory alone. The other
variable, `call`, records the last call and its result; no guard reads it and
the properties use it only primed, in the step that sets it, which TLC
evaluates for every transition, to a state seen before or not. `MCRepeat` has one
that leaves `lastEscape` out once no top can be below it: `Skips` compares it with
an offset that only grows. The code stores in `lastEscape` the location of the
escape in the buffer and compares it with a stream offset; `TopScan` leaves open
where the buffer begins, so it covers both. A location is no larger than the
offset, so the difference only lets through tops that another scan then drops.

Choices in `combination` keep known disagreements (below) out of it: the
database has an EOD program, which sets the offset in the scratch again at
close; the sub-expression a boundary program reports is quiet, so that a
boundary program cannot be stopped by the callback; no block is too short to be
scanned, and no stream is given up as exhausted. What `NegativesRaised` and
`SilentAfterStop` say is therefore said of databases like that, as the theorems
state it, and the configurations below show what happens in the others.

`RaisedWhereDue` and `NoneMissed` are stated for adjusted reports. The offset a
combination is raised at is then that of the last report before the flush, with
its adjustment, and the flush compares the unadjusted end with it. So with an
adjustment of -1 the combination may be raised one offset before the match's
end, and a second match with the same end flushes what the first one set before
it is taken into account. If no report is adjusted, `Heard` and `RaisedFor` have
one member each, and the two properties say exactly what the documentation does.

Deadlock is checked except in `Combination`, `DelaySlots`, `Chimera` and
`Repeat`, where the length of the data is bounded and a finished scan or stream
has nothing left to do.

Fairness is assumed in one place. `ScanReturns` of `Chimera`, that a scan in
progress ends, is under weak fairness of `Step`, the next step of that scan:
`ch_scan` is one thread that runs on, provided the user's callbacks, PCRE and
the multi-matcher return, as they do in the code. The choice among their
answers is not fair. Elsewhere no liveness is claimed: the library has no
threads, waits or retries of its own, and every step is a call of its user.

## Where the code and its documentation disagree

Each run below checks one property, taken from the documentation, a comment or
an assertion, that the code does not keep. `PROJECT.json` quotes the lines of
the first three under `findings`.

| Run | What the trace shows |
|---|---|
| `combination_shared_scratch` | Stream 1 of a pure-literal database leaves a combination pending. Stream 2, at offset 0, is closed with the same scratch, which sets `lastCombMatchOffset` to 0. Closing stream 1 reports its combination at 0, where nothing matched. With `RequiresEodCheck = FALSE` and no `TailKeys`, `MCCombinationRose.cfg` refutes `LastCombInOrder`: full Rose databases without an EOD program are affected too. A pure-literal stream that keeps its scratch to itself is not (`MCCombinationOwn.cfg`). |
| `compress_past_u32` | A stream whose offset is a multiple of 2^32 is compressed without history, and the expanded stream matches against bytes that were never written. |
| `bindings_shared_scanner` | Two threads scan streams of one `StreamingScanner`; both pass `markScratchInUse`, and the second to finish finds the mark cleared. |

Seven more configurations, to be run by hand, show the following. They all end
with the named property violated.

| Configuration | Property | Documentation | What the trace shows |
|---|---|---|---|
| `MCCombinationStop.cfg` | `SilentAfterStop` | `V/hs_runtime.h:120`, "Non-zero if the matching should cease" | The callback stops a block scan in the boundary program at offset 0; `hs_scan` (`runtime.c:456`) still runs the last flush and calls back. `report_eod_matches` (`runtime.c:703`) has the test that `hs_scan` lacks. |
| `MCCombinationShort.cfg` | `NegativesRaised` | `compilation.rst:616-618`, "report the match for combination at end of data if no patterns have matched" | A block shorter than the shortest pattern returns at `runtime.c:346`, before the last flush. |
| `MCCombinationExhaust.cfg` | `NegativesRaised` | the same | A stream of anchored patterns is marked exhausted at `rose/stream.c:682`; its close returns at `runtime.c:641`. |
| `MCCombinationOutfix.cfg` | `NoneMissed` | `compilation.rst:565`, "will raise matches at every offset where one of its sub-expressions matches" | The only engine of a database dies and `soleOutfixStreamExec` (`runtime.c:865`) marks the stream exhausted; its close returns before the last flush, and a pending combination is lost. |
| `MCCombinationAdjusted.cfg` | `ReportsMoveOn` | `V/rose/runtime.h:135`, "assert(offset >= tctxt->lastCombMatchOffset);" | A match is reported unadjusted, and another with the same end adjusted by -1 (`rose/program_runtime.c:3012`): the offset kept in the scratch moves back. |
| `MCBindingsLeak.cfg` | `EveryStreamClosed` | `V/hs_runtime.h:202`, "must be called for any stream" | A dropped `StreamScanner` leaves its `hs_stream_t` with nothing to close it. |
| `MCBindingsClose.cfg` | `CloseFrees` | `V/hs_runtime.h:196`, "frees the memory associated with the stream state" | `close` in a callback of the same scanner is refused, the value is consumed and the stream leaks. |

Two more configurations, also to be run by hand, pass: `MCCombinationOwn.cfg`, and
`MCCombinationBi.cfg`, a database of patterns anchored at both ends, whose longer
data is not scanned.

## Proofs

### Scratch

`ScratchProofs` proves, for any sets of databases, pointers and blocks and any
sizes, `TypeOK`, `ServesEveryDatabase`, `PointersOwnLiveBlocks`,
`MarkedExactlyWhileScanning` and `ScanKeepsItsScratch`.

Assumptions: sizes are natural numbers and NULL is not a block
(`RoseAssumption`), and a database with more dedupe keys does not have a smaller
log (`LogAssumption`; the log is a bit set over the keys). TLC evaluates both on
the instance of `scratch`.

The inductive invariant `IInv` is the four invariants and two strengthenings.
`CallsOnLive`, that a scan runs on an allocated region, is needed to show that a
new region is not born with a call on it. `LogsSuffice`, that a region's log is
large enough for every database with no more keys than the region counts, is
needed because `hs_alloc_scratch` raises `dkey_count` and `log_size` together
under a test of the first only: without it, growing for a database whose keys
already fit could leave a log that is too small. The proof has lemmas about the
computed header (`Proto*`), one lemma per action, and `NextIInv`; the action
property follows from `IInv` and a case split on the actions.

### Streams

`StreamProofs` proves `HistoryIsTail` of the `streams` run for any patterns,
applications, history length and length of data: the history of a live stream
that can still match is the end of what was written to it.

Assumptions: `StreamAssumption` and `ApplicationAssumption`, which TLC evaluates
on its instances, and `OffsetsFit`, that the data is shorter than 2^32, stated
in the theorem itself. The last is needed: it is what `compress_past_u32`
refutes the invariant without.

`HistoryIsTail` speaks of streams and is not inductive, since a stream may be
overwritten by any other stream or by a compressed one. `IInv` adds that what a
buffer holds (`Packs`) is the end of the data of the stream it was made from,
and that `offset` is the length of the data, with the types both need. `Keeps`
speaks of each byte of the history buffer that lies within the data, so that it
survives `maintainHistoryBuffer` whether a write is shorter or longer than the
history (`MaintainKeeps`); `CompressPacks` and `ExpandKeeps` go between the two
forms. `ScanOutcome` covers every way a scan can end, and `NextStep` has one case
per API call. That `Keeps` gives the sequence `HistoryIsTail` names is
`KeepsIsTail`.

Under the same assumptions `StreamProofs` proves that the runtime implements
`StreamSpec` (`StreamKeepsPromise`) and that the exhaustion vector records what
was reported (`StreamEvecRecordsReports`). Neither follows from the history
alone. `RInv` adds what a stream has reported: unless a callback stopped it, it
has reported exactly what is due for its data, its exhaustion vector names the
single-match patterns among that, and its status says exhausted only if every
pattern is in the vector. The same holds of what a compressed buffer keeps. The
argument has three parts. A scan that sees the end of the old data and the new
data finds the literals that end in the new data and no others; this is where
`ApplicationAssumption` is needed, that no literal is longer than the history and
one byte. Adding them to what was reported is reporting what is due for the
longer data, single-match patterns included, and a stream that is given up as
exhausted has nothing more to report, whatever is written to it afterwards. Each
call of the API is then a step of `StreamSpec` or leaves it unchanged, with
`phase` read off the status. Block and vectored scans report what is due for
their data at its end.

### Deduper

`DeduperProofs` proves `TypeOK`, `DeliversLeftmost` and `DeliversOnce` for any
number of dedupe keys, any split into plain and start-of-match keys, any offsets
and any number of reports and of calls on the scratch, stopped ones included.

Assumptions: `DeduperAssumption`, that keys, offsets and the modulus are numbers,
that 2^64 is even, and that offsets of reports stay clear of the sentinel `~0`.

The properties speak of the callback and are not inductive. `Inv` says what the
logs know. Once a call has reported at an offset, the log of each of the two live
end offsets holds exactly the keys reported for it (`Logged`, `Held`), a
start-of-match key with the leftmost start; a dirty bit that is down means an
empty log (`Clean`); and the callback has everything that ends earlier (`Got`).
Before the first report of a call nothing is known of the logs, which hold what
earlier calls left: `populateCoreInfo` sets `current_report_offset` to `~0` and a
dirty bit, and `CatchUpFirst` shows that this makes the first report clear what
it will read. `FlushRaises` shows that a flush raises what is due and keeps the
rest when the scan moves by one byte, by more, or ends; at offset 0 the end
offset before wraps to `~0`, whose parity is that of the log that must be empty.
`CatchUp` puts these together, and `SomCaught`, `PlainSquashed` and
`PlainDelivered` follow the report itself. After a callback that stops the scan
only `Fine` is left, that what it got is right as far as it goes.

### Multibit

`MultibitProofs` proves `Spec => ImplementsKeySet` for any depth, digits, keys
and ranges and any content of the memory before the first clear. Assumptions:
`MultibitAssumption` and `MemoryAssumption`, types only.

The inductive invariant is the type of the memory: there is deliberately no
other fact about the blocks, because the code keeps none (summary bits need not
have a key below them, and blocks that are not valid hold anything). The work is
in `PartingLevel`, that two keys share their blocks down to one level and no
block below it, which makes the blocks `mmbit_set` overwrites invisible to any
other key that is on (`SetFrom`), and in `InitRangeSets`. Each operation then
has a lemma that maps it to the step of `KeySet`, and the temporal step combines
them. The theorem is about the operations that write the tree; the readers of
`MultibitScan`, its sparse unset and compression are recursive and only
model-checked.

### Rust bindings

For any number of threads, databases, scanners, streams and nested calls.
Assumption: `BindingsAssumption`, types only.

`BindingsProofs` proves `TypeOK` and `NothingDangles` for every program.
`NothingDangles` says of a call only that its objects are allocated, which no
step preserves by itself. `IInv` adds `AllSound`, which borrow keeps them so: a
block scan holds its scanner, a stream scan its `StreamScanner`, and a close,
whose value is already gone, the scanner and the `hs_stream_t` themselves, in a
slot that must stay empty. `ClosedOnce`, that no two calls close one stream, is
needed where a close frees it. There is one lemma per group of actions; every
step of a C call goes through `KeepingStep`.

`NoCallbackAfterTerminate` and `TerminateIffAsked` follow, also for every
program, from `Stops`: a call that matches finds its stream running, and a scan
knows whether its stream was told to stop. `BusyOnce`, that a stream has one
call at a time, is what keeps other calls from changing the stream's status
under it; `Sound` supplies the borrow.

`BindingsProofs` further proves `OneCallPerScratch`, `DropNeverPanics`,
`UnmarkFindsMark` and `InUseOnlyWhenUsed` under `KeepToOwn`, stated in each
theorem: no scanner is used from two threads. This is what
`vectorscan-rs/src/error.rs:69` asks of callers, and the bindings do not enforce
it for streams: `bindings_shared_scanner` refutes `UnmarkFindsMark` without it.
In the invariant `JInv`, `Marks` relates the
`in_use` byte to the calls, including the one that has read it and not yet
written it; that read stays good because the thread's other calls are in
callbacks (`Stacked`) and other threads have other scanners (`Owned`), which is
`MarkedStep`. `HeldOnce` is needed where an unmark clears the byte.

### Combinations

For any database, number of streams and scratches, and any sharing of
scratches among streams and block scans. Assumption: `CombinationAssumption`,
what the compiler guarantees of keys and of the trees of operations, which TLC
evaluates on each instance.

`CombinationSteps` proves that every action is one of eight kinds of step
(`Steps`, in `CombinationInv`), each given by what it does to the one data and
the one scratch it touches; the invariants are then shown step by step, and
the data and scratches a step does not touch by a frame argument
(`OnlyHere`).

`BInv` holds of every database: types, how the phase of a call relates to its
offsets, and that `lvec` is what has matched. From it `CombinationBase` proves
`TypeOK`; `SilentAfterStop`, with `SilentOK`, under `NoStopAtBoundary`; and
`NegativesRaised`, with `NegativeOK`, under `AlwaysFlushed`.

`KInv` is behind `RaisedWhereDue`, `NoneMissed` and `LastCombInOrder`, in
`CombinationProofs`, under `OffsetKept`, with `OutfixLives` for `NoneMissed`.
Its core is `Stage`: there is an end `p` of the last matches, no further than the
scan, that all the combinations waiting in `cvec` were touched at (`Kept`). Where
`lastCombMatchOffset` is that of the data it is an adjustment of `p`, and where
Rose will restore it `p` is where the stream stands (`Pending`). `RaisedBy` says
that what was raised was allowed, `Settled` that everything due for earlier ends
has been raised, `Once` that exhaustion keys allowed only the first, and `Waits`
that without adjustments nothing touched at `p` has been evaluated early. The
`p` is needed because an adjusted offset no longer tells where the match ended.
What a combination evaluates to when a sub-expression is added is by induction on
the tree of operations, as the least node at which two evaluations differ
(`LeastNat`).

Each condition is stated in its theorem and each is needed:

| Condition | Says | Without it |
|---|---|---|
| `OffsetKept` | the scratch serves one stream alone, or Rose restores the offset before anything can be reported, also at close, which takes data no longer than the longest pattern if all are anchored at both ends | `combination_shared_scratch` |
| `OutfixLives` | the database is not run by a single engine that can die before the data ends | `MCCombinationOutfix.cfg` |
| `NoStopAtBoundary` | no boundary report of a block can be stopped by the callback | `MCCombinationStop.cfg` |
| `AlwaysFlushed` | no block is shorter than the shortest pattern and no stream is given up as exhausted, `OutfixLives` included | `MCCombinationShort.cfg`, `MCCombinationExhaust.cfg` |

The instance of the run `combination` satisfies all four, with adjusted reports. The
theorems hold for any adjustments of 0 and -1. `CombinationOffsets` is about the
assertions of the flush instructions; the one of `updateLastCombMatchOffset` is
refuted by `MCCombinationAdjusted.cfg`.

### Only model-checked

`DelaySlots`, `PQueue`, `Chimera`, `Repeat`, `MultibitFlat` and `MultibitScan`, and `ScanReturns`,
since liveness is out of the prover's reach.

## Not modelled

- The search kernels (literal matchers, NFA and DFA engines, accelerators):
  vectorised code without protocol state.
- The pattern compiler: only the numbers the run time depends on.
- `STATUS_ERROR`: nothing reachable sets it.
- Malformed compressed streams; layouts of bytes in memory.
- Groups and roles of Rose programs; SOM slots; the NFA queue protocol and
  catch-up of engines; small-write engines. Their state is spread over the
  bytecode of a database, which is a product of the compiler.
- Serialisation of databases (`V/database.c`): byte layouts and a checksum. What
  deserialising in place leaves in memory when the checksum fails is not covered.
- In Chimera, allocation and clone of its scratch, running out of memory there
  included, and the compiler; in the repeats, the vectorised search for an escape,
  whose outcome is a choice; in multibits, the single-bit operations of the flat
  form and compressed buffers that are too short.
- Size queries, version and platform calls, error texts, allocator setters.
- Panics inside a Rust callback: the process aborts at the FFI boundary.

The share of the source that is modelled is small because most of it is not
run-time protocol: the parser, the graph compiler, the builders in `V/rose` and
`V/nfa`, unit tests, tools, and vectorised kernels for several architectures.

## Plan

1. The queue protocol of the engines (`mq`) and Rose's catch-up, with `PQueue`:
   the order in which `Matching` delivers reports would follow from it.
2. SOM slots and their store in a stream, composed with `Deduper`.
3. `Multibit` in place of the sets in `DelaySlots` and `Combination`.
4. Proofs: `RunInOrder`.
