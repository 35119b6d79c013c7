------------------------------ MODULE Scratch ------------------------------
(***************************************************************************)
(* Life cycle of scratch regions: hs_alloc_scratch, hs_clone_scratch and   *)
(* hs_free_scratch (scratch.c), the validity test validScratch and the     *)
(* in_use marker every scanning call takes and gives back (runtime.c,      *)
(* scratch.h).                                                             *)
(*                                                                         *)
(* A scratch region is a heap block whose header holds the size of each    *)
(* working area.  A handle is a caller's hs_scratch_t pointer variable.    *)
(* Calls are atomic here, except that a scan is two steps: between them    *)
(* the match callback runs, and may call any entry point again.  How two   *)
(* threads interleave inside the marker itself is module Bindings.         *)
(***************************************************************************)
EXTENDS Integers

CONSTANTS
    Databases,     \* compiled databases
    Handles,       \* the callers' pointer variables
    Blocks,        \* addresses the allocator can return
    Rose,          \* Rose[d]: the sizes database d's bytecode asks for
    StreamHeader,  \* sizeof(struct hs_stream)
    NULL, NoCall

\* Header fields that hs_alloc_scratch raises straight from the field of the
\* same meaning in the bytecode.
SizeFields ==
    {"anchored_literal_region_len", "anchored_literal_fatbit_size",
     "delay_fatbit_size", "handledKeyFatbitSize", "tStateSize",
     "som_store_count", "som_fatbit_size", "queueCount",
     "activeQueueArraySize", "fullStateSize"}

Fields == SizeFields \cup {"bStateSize", "dkey_count", "log_size"}

Modes == {"BLOCK", "STREAM", "VECTORED"}

ASSUME RoseAssumption ==
    /\ NULL \notin Blocks
    /\ NoCall \notin Databases
    /\ StreamHeader \in Nat
    /\ Rose \in [Databases -> [mode : Modes, stateEnd : Nat, dkeyCount : Nat,
                               dkeyLogSize : Nat, size : [SizeFields -> Nat]]]

\* The deduper's log is a bit set over its keys: more keys never need a
\* smaller log.
ASSUME LogAssumption ==
    \A d, e \in Databases :
        Rose[d].dkeyCount =< Rose[e].dkeyCount
            => Rose[d].dkeyLogSize =< Rose[e].dkeyLogSize

VARIABLES
    heap,    \* heap[b]: header of the scratch at b; meaningful when b is live
    live,    \* blocks allocated and not freed
    in_use,  \* blocks whose in_use byte is set
    ptr,     \* value of each pointer variable
    call,    \* call[b]: database being scanned with the scratch at b
    asked    \* asked[b]: databases b was allocated or grown for (history)

vars == <<heap, live, in_use, ptr, call, asked>>

Headers == [Fields -> Nat]

TypeOK ==
    /\ heap \in [Blocks -> Headers]
    /\ live \subseteq Blocks
    /\ in_use \subseteq Blocks
    /\ ptr \in [Handles -> Blocks \cup {NULL}]
    /\ call \in [Blocks -> Databases \cup {NoCall}]
    /\ asked \in [Blocks -> SUBSET Databases]

\* Mutant: the header of a first scratch is not cleared.
ZeroedUncleared == [f \in Fields |-> -1]

\* The cleared prototype that a first allocation starts from.
Zeroed == [f \in Fields |-> 0]

Init ==
    /\ heap = [b \in Blocks |-> Zeroed]
    /\ live = {}
    /\ in_use = {}
    /\ ptr = [h \in Handles |-> NULL]
    /\ call = [b \in Blocks |-> NoCall]
    /\ asked = [b \in Blocks |-> {}]

-----------------------------------------------------------------------------
\* Block-mode state lives in the scratch, and a vectored scan keeps a whole
\* stream there, header included.
bStateSize(d) ==
    IF Rose[d].mode = "BLOCK" THEN Rose[d].stateEnd
    ELSE IF Rose[d].mode = "VECTORED" THEN StreamHeader + Rose[d].stateEnd
    ELSE 0

MaxOf(a, b) == IF a > b THEN a ELSE b

\* Mutant: the block state is sized for this database alone.
ProtoForgetsMax(p, d) ==
    [f \in Fields |->
        IF f = "log_size" THEN IF Rose[d].dkeyCount > p["dkey_count"]
                               THEN Rose[d].dkeyLogSize ELSE p[f]
        ELSE IF f = "bStateSize" THEN bStateSize(d)
        ELSE MaxOf(p[f], IF f = "dkey_count" THEN Rose[d].dkeyCount
                         ELSE Rose[d].size[f])]

\* The prototype header that hs_alloc_scratch computes from the present
\* header p and the bytecode of d.
Proto(p, d) ==
    [f \in Fields |->
        IF f = "log_size" THEN IF Rose[d].dkeyCount > p["dkey_count"]
                               THEN Rose[d].dkeyLogSize ELSE p[f]
        ELSE MaxOf(p[f], IF f = "bStateSize" THEN bStateSize(d)
                         ELSE IF f = "dkey_count" THEN Rose[d].dkeyCount
                         ELSE Rose[d].size[f])]

\* markScratchInUse and unmarkScratchInUse.
markScratchInUse(b)   == b \notin in_use /\ in_use' = in_use \cup {b}
unmarkScratchInUse(b) == in_use' = in_use \ {b}

\* Mutant: the marker copied with the prototype is not cleared.
AllocKeepsMark(b, p, freed) ==
    /\ b \notin live \/ b \in freed
    /\ live' = (live \ freed) \cup {b}
    /\ heap' = [heap EXCEPT ![b] = p]
    /\ UNCHANGED in_use

\* alloc_scratch: a fresh block with header p, not in use.
alloc_scratch(b, p, freed) ==
    /\ b \notin live \/ b \in freed
    /\ live' = (live \ freed) \cup {b}
    /\ heap' = [heap EXCEPT ![b] = p]
    /\ in_use' = in_use \ {b}

\* What an existing pointer frees when the scratch is replaced or lost.
Held(h) == IF ptr[h] = NULL THEN {} ELSE {ptr[h]}

\* No scratch, or not a bigger one, is needed: the marker taken at the start
\* of the call is given back.
AllocFits(h, d) ==
    /\ ptr[h] # NULL
    /\ ptr[h] \notin in_use
    /\ Proto(heap[ptr[h]], d) = heap[ptr[h]]
    /\ asked' = [asked EXCEPT ![ptr[h]] = @ \cup {d}]
    /\ UNCHANGED <<heap, live, in_use, ptr, call>>

\* hs_alloc_scratch on a null pointer, or on a scratch that is too small: the
\* old region is freed, then the bigger one allocated.
AllocGrow(h, d) ==
    LET old == IF ptr[h] = NULL THEN Zeroed ELSE heap[ptr[h]]
        for == IF ptr[h] = NULL THEN {} ELSE asked[ptr[h]]
    IN  /\ ptr[h] = NULL \/ Proto(old, d) # old
        /\ ptr[h] \notin in_use
        /\ \E b \in Blocks :
              /\ alloc_scratch(b, Proto(old, d), Held(h))
              /\ ptr' = [ptr EXCEPT ![h] = b]
              /\ asked' = [asked EXCEPT ![b] = for \cup {d}]
        /\ UNCHANGED call

\* Mutant: the pointer keeps the address of the freed scratch.
AllocFailDangles(h, d) ==
    /\ ptr[h] \notin in_use
    /\ live' = live \ Held(h)
    /\ in_use' = in_use \cup Held(h)
    /\ UNCHANGED <<heap, ptr, call, asked>>

\* The allocator fails, for the prototype or for the region itself: the old
\* scratch is gone and the caller's pointer is null (HS_NOMEM).
AllocFail(h, d) ==
    /\ ptr[h] \notin in_use
    /\ live' = live \ Held(h)
    /\ in_use' = in_use \cup Held(h)
    /\ ptr' = [ptr EXCEPT ![h] = NULL]
    /\ UNCHANGED <<heap, call, asked>>

\* The scratch is marked: HS_SCRATCH_IN_USE and nothing changes.
AllocInUse(h, d) ==
    /\ ptr[h] \in in_use
    /\ UNCHANGED vars

hs_alloc_scratch(h, d) ==
    AllocFits(h, d) \/ AllocGrow(h, d) \/ AllocFail(h, d) \/ AllocInUse(h, d)

\* hs_clone_scratch into a null pointer.  The source may be in the middle of
\* a scan; its header, marker included, is the prototype of the copy.
hs_clone_scratch(src, dest) ==
    /\ ptr[src] # NULL /\ ptr[dest] = NULL
    /\ \/ \E b \in Blocks :
             /\ alloc_scratch(b, heap[ptr[src]], {})
             /\ ptr' = [ptr EXCEPT ![dest] = b]
             /\ asked' = [asked EXCEPT ![b] = asked[ptr[src]]]
       \/ UNCHANGED <<heap, live, in_use, ptr, asked>>      \* HS_NOMEM
    /\ UNCHANGED call

\* Mutant: the marker is not tested before the region is freed.
FreeUnchecked(h) ==
    /\ ptr[h] # NULL
    /\ live' = live \ {ptr[h]}
    /\ ptr' = [ptr EXCEPT ![h] = NULL]
    /\ UNCHANGED <<heap, in_use, call, asked>>

\* hs_free_scratch; the caller forgets the pointer when it succeeds.
hs_free_scratch(h) ==
    /\ ptr[h] # NULL
    /\ \/ /\ markScratchInUse(ptr[h])
          /\ live' = live \ {ptr[h]}
          /\ ptr' = [ptr EXCEPT ![h] = NULL]
       \/ ptr[h] \in in_use /\ UNCHANGED <<in_use, live, ptr>>
    /\ UNCHANGED <<heap, call, asked>>

\* The test every scanning entry point makes before it touches the scratch.
validScratch(d, b) ==
    /\ b \in live
    /\ Rose[d].mode = "BLOCK" => Rose[d].stateEnd =< heap[b]["bStateSize"]
    /\ Rose[d].size["queueCount"] =< heap[b]["queueCount"]

\* A scanning call, up to its first callback.  The caller keeps the contract
\* of hs_scan: the scratch was allocated for the database.
ScanBegin(h, d) ==
    /\ ptr[h] # NULL
    /\ d \in asked[ptr[h]]
    /\ validScratch(d, ptr[h])
    /\ markScratchInUse(ptr[h])
    /\ call' = [call EXCEPT ![ptr[h]] = d]
    /\ UNCHANGED <<heap, live, ptr, asked>>

\* The rest of the scanning call.
ScanEnd(b) ==
    /\ call[b] # NoCall
    /\ unmarkScratchInUse(b)
    /\ call' = [call EXCEPT ![b] = NoCall]
    /\ UNCHANGED <<heap, live, ptr, asked>>

Next ==
    \/ \E h \in Handles, d \in Databases : hs_alloc_scratch(h, d) \/ ScanBegin(h, d)
    \/ \E h, g \in Handles : hs_clone_scratch(h, g)
    \/ \E h \in Handles : hs_free_scratch(h)
    \/ \E b \in Blocks : ScanEnd(b)

Spec == Init /\ [][Next]_vars

-----------------------------------------------------------------------------
\* What a scan of d reads and writes: every area at least as large as d's
\* bytecode asks for.
Enough(p, d) ==
    /\ \A f \in SizeFields : Rose[d].size[f] =< p[f]
    /\ bStateSize(d) =< p["bStateSize"]
    /\ Rose[d].dkeyCount =< p["dkey_count"]
    /\ Rose[d].dkeyCount > 0 => Rose[d].dkeyLogSize =< p["log_size"]

\* However often hs_alloc_scratch grew a scratch, and for whatever databases
\* in whatever order, every area of it suffices for each of them: growing for
\* one never shrinks what another needs, and a clone is as good as its source.
\* validScratch tests two of the thirteen sizes; this is the rest.
ServesEveryDatabase ==
    \A h \in Handles : ptr[h] # NULL =>
        \A d \in asked[ptr[h]] : Enough(heap[ptr[h]], d)

\* Each pointer is null or the only pointer to a live block, and each live
\* block has one: the failure paths of hs_alloc_scratch, which free before
\* they allocate, leave neither a dangling pointer nor a leak.
PointersOwnLiveBlocks ==
    /\ \A h \in Handles : ptr[h] # NULL => ptr[h] \in live
    /\ \A h, g \in Handles : ptr[h] = ptr[g] /\ ptr[h] # NULL => h = g
    /\ \A b \in live : \E h \in Handles : ptr[h] = b

\* The marker is set exactly while a scan runs: no path of the allocation
\* calls leaves it set, and a clone taken from a callback is not born in use.
MarkedExactlyWhileScanning ==
    \A b \in live : b \in in_use <=> call[b] # NoCall

\* A step that leaves the scratch of a running scan alone.
KeepsScannedBlocks ==
    \A b \in Blocks : call[b] # NoCall =>
        /\ b \in live /\ b \in live'
        /\ heap'[b] = heap[b]

\* While a scan runs, no call (made from its callbacks) frees, moves or
\* resizes the scratch under it.
ScanKeepsItsScratch == [][KeepsScannedBlocks]_vars
=============================================================================
