------------------------------ MODULE Bindings ------------------------------
(***************************************************************************)
(* The safe Rust interface (native.rs, wrapper.rs, error.rs): databases,   *)
(* scanners and streams as Rust values that own objects of the C library,  *)
(* used by several threads, with match callbacks that may call back in.    *)
(*                                                                         *)
(* A slot is a Rust variable.  A guard on a slot is a rule of the borrow   *)
(* checker, and comes from the signature of the method: &self, &mut self,  *)
(* self, and the references that the structs hold.  A StreamScanner holds  *)
(* a raw pointer, so it stays with the thread that opened it; the other    *)
(* types are declared Send + Sync and move or are shared freely.           *)
(*                                                                         *)
(* Of the C library this module keeps which objects are allocated, the     *)
(* in_use byte of a scratch, read and written in two steps as              *)
(* markScratchInUse does, and whether a stream was told to stop.           *)
(***************************************************************************)
EXTENDS Integers, Sequences, FiniteSets

CONSTANTS
    Programs,    \* the programs that may use the interface
    None

VARIABLE program \* the program, chosen once

Threads   == program.threads
Databases == program.databases  \* slots for a BlockDatabase or StreamingDatabase
Scanners  == program.scanners   \* slots for a BlockScanner or StreamingScanner
Streams   == program.streams    \* slots for a StreamScanner
MayUse    == program.mayUse     \* MayUse[t]: the scanners used from thread t
MaxDepth  == program.maxDepth   \* bound on calls made from within callbacks

ASSUME BindingsAssumption ==
    \A p \in Programs :
        /\ p.mayUse \in [p.threads -> SUBSET p.scanners]
        /\ p.maxDepth \in Nat
        /\ None \notin p.databases \cup p.scanners

VARIABLES
    database,  \* database[d]: "none", or the ScanMode of the value in d
    scanner,   \* scanner[k]: None, or the database that the value in k borrows
    in_use,    \* in_use[k]: the in_use byte of k's scratch
    stream,    \* stream[x]: [scanner, owner] of the value in x, None if empty
    c_stream,  \* c_stream[x]: the hs_stream_t x was opened with
    calls,     \* calls[t]: the calls that thread t is in, innermost last
    result     \* result[t]: the latest Result that thread t was returned

vars == <<program, database, scanner, in_use, stream, c_stream, calls, result>>

Values == <<program, database, scanner, stream>>

-----------------------------------------------------------------------------
(* Errors: AsResult for hs_error_t, From<hs_error_t>, and the match on the *)
(* result that scan and close share.                                       *)

ErrorCode(code) ==
    [HS_NOMEM |-> "Nomem", HS_SCAN_TERMINATED |-> "ScanTerminated",
     HS_SCRATCH_IN_USE |-> "ScratchInUse"][code]

ok(code) == IF code = "HS_SUCCESS" THEN "Ok" ELSE ErrorCode(code)

\* Mutant of ScanResult: every code but HS_SUCCESS is handed on as an error.
ScanResultRaw(code) == IF ok(code) = "Ok" THEN "Continue" ELSE ok(code)

ScanResult(code) ==
    IF ok(code) = "Ok" THEN "Continue"
    ELSE IF ok(code) = "ScanTerminated" THEN "Terminate"
    ELSE ok(code)

\* A method returns value to t.
Give(t, value) ==
    result' = [result EXCEPT ![t] = [op |-> "other", value |-> value, asked |-> FALSE]]

-----------------------------------------------------------------------------
(* What the borrow checker knows.                                          *)

Frames == UNION {{calls[t][i] : i \in 1 .. Len(calls[t])} : t \in Threads}

\* A thread runs the program's own code when it is in no call, or in a callback.
Top(t) == calls[t][Len(calls[t])]
Running(t) == calls[t] # <<>> => Top(t).pc = "callback"

\* &mut self of a BlockScanner or StreamScanner lasts as long as the call.
Borrowed(op, slot) == \E f \in Frames : f.op \in op /\ f.slot = slot
ScannerBusy(k) == Borrowed({"block"}, k)
StreamBusy(x) == Borrowed({"scan", "close"}, x)

HasStreams(k) == \E x \in Streams : stream[x] # None /\ stream[x].scanner = k
\* close takes its StreamScanner by value and keeps the borrow to the end.
Closing(k) == \E f \in Frames : f.op = "close" /\ f.scanner = k
HasScanners(d) == \E k \in Scanners : scanner[k] = d

ModeOf(k) == database[scanner[k]]

-----------------------------------------------------------------------------
(* Databases and scanners.                                                 *)

Init ==
    /\ program \in Programs
    /\ database = [d \in Databases |-> "none"]
    /\ scanner = [k \in Scanners |-> None]
    /\ in_use = [k \in Scanners |-> FALSE]
    /\ stream = [x \in Streams |-> None]
    /\ c_stream = [x \in Streams |-> "none"]
    /\ calls = [t \in Threads |-> <<>>]
    /\ result = [t \in Threads |-> [op |-> "other", value |-> "Ok", asked |-> FALSE]]

\* Database::new.  A NUL byte in a pattern, too many patterns and a compiler
\* error leave nothing allocated: the error object is dropped on the way out.
DatabaseNew(t, d, mode) ==
    /\ Running(t) /\ database[d] = "none"
    /\ \/ Give(t, "Ok") /\ database' = [database EXCEPT ![d] = mode]
       \/ /\ \E e \in {"Nul", "InputTooLarge", "HyperscanCompile"} : Give(t, e)
          /\ UNCHANGED database
    /\ UNCHANGED <<program, scanner, in_use, stream, c_stream, calls>>

\* Clone for Database: serialize, then deserialize, which frees the bytes.
DatabaseClone(t, d, from) ==
    /\ Running(t) /\ database[d] = "none" /\ database[from] # "none"
    /\ database' = [database EXCEPT ![d] = database[from]]
    /\ UNCHANGED <<program, scanner, in_use, stream, c_stream, calls, result>>

\* Mutant of DatabaseDrop: a scanner does not borrow its database.
DatabaseDropUnborrowed(t, d) ==
    /\ Running(t) /\ database[d] # "none"
    /\ database' = [database EXCEPT ![d] = "none"]
    /\ UNCHANGED <<program, scanner, in_use, stream, c_stream, calls, result>>

DatabaseDrop(t, d) ==
    /\ Running(t) /\ database[d] # "none"
    /\ ~HasScanners(d)
    /\ database' = [database EXCEPT ![d] = "none"]
    /\ UNCHANGED <<program, scanner, in_use, stream, c_stream, calls, result>>

\* create_scanner: Scratch::new over the borrowed database.
ScannerNew(t, k, d) ==
    /\ Running(t) /\ scanner[k] = None /\ database[d] # "none" /\ k \in MayUse[t]
    /\ \/ /\ Give(t, "Ok")
          /\ scanner' = [scanner EXCEPT ![k] = d]
          /\ in_use' = [in_use EXCEPT ![k] = FALSE]
       \/ Give(t, ok("HS_NOMEM")) /\ UNCHANGED <<scanner, in_use>>
    /\ UNCHANGED <<program, database, stream, c_stream, calls>>

\* Mutant of ScannerClone: the copy of the scratch keeps the in_use byte.
ScannerCloneMarked(t, k, from) ==
    /\ Running(t) /\ scanner[k] = None /\ scanner[from] # None /\ k \in MayUse[t]
    /\ ~ScannerBusy(from)
    /\ scanner' = [scanner EXCEPT ![k] = scanner[from]]
    /\ in_use' = [in_use EXCEPT ![k] = in_use[from]]
    /\ UNCHANGED <<program, database, stream, c_stream, calls, result>>

\* Clone for a scanner: hs_clone_scratch gives the copy a fresh in_use byte.
ScannerClone(t, k, from) ==
    /\ Running(t) /\ scanner[k] = None /\ scanner[from] # None /\ k \in MayUse[t]
    /\ ~ScannerBusy(from)
    /\ scanner' = [scanner EXCEPT ![k] = scanner[from]]
    /\ in_use' = [in_use EXCEPT ![k] = FALSE]
    /\ UNCHANGED <<program, database, stream, c_stream, calls, result>>

\* scratch_drop: panics if hs_free_scratch finds the scratch in use.
ScannerDrop(t, k) ==
    /\ Running(t) /\ scanner[k] # None
    /\ ~ScannerBusy(k) /\ ~HasStreams(k) /\ ~Closing(k)
    /\ IF in_use[k] THEN Give(t, "panic") /\ UNCHANGED scanner
       ELSE scanner' = [scanner EXCEPT ![k] = None] /\ UNCHANGED result
    /\ UNCHANGED <<program, database, in_use, stream, c_stream, calls>>

-----------------------------------------------------------------------------
(* Streams.                                                                *)

open_stream(t, x, k) ==
    /\ Running(t) /\ scanner[k] # None /\ ModeOf(k) = "STREAM" /\ k \in MayUse[t]
    /\ stream[x] = None /\ c_stream[x] = "none"
    /\ \/ /\ Give(t, "Ok")
          /\ stream' = [stream EXCEPT ![x] = [scanner |-> k, owner |-> t]]
          /\ c_stream' = [c_stream EXCEPT ![x] = "open"]
       \/ Give(t, ok("HS_NOMEM")) /\ UNCHANGED <<stream, c_stream>>
    /\ UNCHANGED <<program, database, scanner, in_use, calls>>

\* Neither Stream nor StreamScanner implements Drop: the hs_stream_t stays.
StreamScannerDrop(t, x) ==
    /\ Running(t) /\ stream[x] # None /\ stream[x].owner = t /\ ~StreamBusy(x)
    /\ stream' = [stream EXCEPT ![x] = None]
    /\ UNCHANGED <<program, database, scanner, in_use, c_stream, calls, result>>

-----------------------------------------------------------------------------
(* The methods that scan, and the steps of the C call each of them makes.  *)

Enter(t, op, slot, k, asked) ==
    calls' = [calls EXCEPT ![t] = Append(@,
        [op |-> op, slot |-> slot, scanner |-> k, pc |-> "test", asked |-> asked])]

\* The method may start: t runs the program's code, and not too deep in it.
CanCall(t) == Running(t) /\ Len(calls[t]) < MaxDepth

\* BlockScanner::scan.  The length is converted before the C call.
BlockScan(t, k) ==
    /\ CanCall(t) /\ scanner[k] # None /\ ModeOf(k) = "BLOCK" /\ k \in MayUse[t]
    /\ ~ScannerBusy(k)
    /\ \/ Enter(t, "block", k, k, FALSE) /\ UNCHANGED result
       \/ Give(t, "InputTooLarge") /\ UNCHANGED calls
    /\ UNCHANGED <<Values, in_use, c_stream>>

\* StreamScanner::scan.
StreamScan(t, x) ==
    /\ CanCall(t) /\ stream[x] # None /\ stream[x].owner = t /\ ~StreamBusy(x)
    /\ \/ /\ Enter(t, "scan", x, stream[x].scanner, c_stream[x] = "TERMINATED")
          /\ UNCHANGED result
       \/ Give(t, "InputTooLarge") /\ UNCHANGED calls
    /\ UNCHANGED <<Values, in_use, c_stream>>

\* StreamScanner::close takes self: the value is gone whatever the outcome.
StreamClose(t, x) ==
    /\ CanCall(t) /\ stream[x] # None /\ stream[x].owner = t /\ ~StreamBusy(x)
    /\ Enter(t, "close", x, stream[x].scanner, FALSE)
    /\ stream' = [stream EXCEPT ![x] = None]
    /\ UNCHANGED <<program, database, scanner, in_use, c_stream, result>>

At(t, pc) == calls[t] # <<>> /\ Top(t).pc = pc

Goto(t, pc, asked) ==
    calls' = [calls EXCEPT ![t][Len(calls[t])].pc = pc, ![t][Len(calls[t])].asked = asked]

\* The C call of t's innermost method returns code.
Return(t, code) ==
    /\ calls' = [calls EXCEPT ![t] = SubSeq(@, 1, Len(@) - 1)]
    /\ result' = [result EXCEPT ![t] =
                    [op |-> Top(t).op, value |-> ScanResult(code), asked |-> Top(t).asked]]

\* Mutant of MarkTest: the byte is not looked at.
MarkUntested(t) ==
    /\ At(t, "test")
    /\ Goto(t, "mark", Top(t).asked) /\ UNCHANGED result
    /\ UNCHANGED <<Values, in_use, c_stream>>

\* markScratchInUse, first half: read in_use.
MarkTest(t) ==
    /\ At(t, "test")
    /\ IF in_use[Top(t).scanner] THEN Return(t, "HS_SCRATCH_IN_USE")
       ELSE Goto(t, "mark", Top(t).asked) /\ UNCHANGED result
    /\ UNCHANGED <<Values, in_use, c_stream>>

\* Mutant of MarkSet: a terminated stream is scanned all the same.
MarkSetAnyStatus(t) ==
    /\ At(t, "mark")
    /\ in_use' = [in_use EXCEPT ![Top(t).scanner] = TRUE]
    /\ Goto(t, "match", Top(t).asked)
    /\ UNCHANGED <<Values, c_stream, result>>

\* Second half: write it.  A stream that was told to stop is not scanned.
MarkSet(t) ==
    /\ At(t, "mark")
    /\ in_use' = [in_use EXCEPT ![Top(t).scanner] = TRUE]
    /\ Goto(t, IF Top(t).op # "block" /\ c_stream[Top(t).slot] = "TERMINATED"
               THEN "unmark" ELSE "match", Top(t).asked)
    /\ UNCHANGED <<Values, c_stream, result>>

\* on_match_trampoline: a match enters the closure.
Trampoline(t) ==
    /\ At(t, "match") /\ Goto(t, "callback", Top(t).asked)
    /\ UNCHANGED <<Values, in_use, c_stream, result>>

\* The closure returns: Scan::Continue is 0 and matching goes on, Terminate is
\* 1 and the status of the scan, or of the stream, becomes TERMINATED.
TrampolineReturn(t) ==
    /\ At(t, "callback")
    /\ \/ Goto(t, "match", Top(t).asked) /\ UNCHANGED c_stream
       \/ /\ Goto(t, "unmark", TRUE)
          /\ c_stream' = IF Top(t).op = "scan"
                         THEN [c_stream EXCEPT ![Top(t).slot] = "TERMINATED"]
                         ELSE c_stream
    /\ UNCHANGED <<Values, in_use, result>>

\* No match is left.
ScanDone(t) ==
    /\ At(t, "match") /\ Goto(t, "unmark", Top(t).asked)
    /\ UNCHANGED <<Values, in_use, c_stream, result>>

\* unmarkScratchInUse and the return; hs_close_stream frees the stream and
\* reports success even if its callback asked to stop.
Unmark(t) ==
    /\ At(t, "unmark")
    /\ in_use' = [in_use EXCEPT ![Top(t).scanner] = FALSE]
    /\ IF Top(t).op = "close"
       THEN Return(t, "HS_SUCCESS") /\ c_stream' = [c_stream EXCEPT ![Top(t).slot] = "none"]
       ELSE /\ Return(t, IF Top(t).asked THEN "HS_SCAN_TERMINATED" ELSE "HS_SUCCESS")
            /\ UNCHANGED c_stream
    /\ UNCHANGED Values

CallStep(t) ==
    MarkTest(t) \/ MarkSet(t) \/ Trampoline(t) \/ TrampolineReturn(t) \/ ScanDone(t) \/ Unmark(t)

Next ==
    \E t \in Threads :
        \/ \E d \in Databases, m \in {"BLOCK", "STREAM"} : DatabaseNew(t, d, m)
        \/ \E d, e \in Databases : DatabaseClone(t, d, e)
        \/ \E d \in Databases : DatabaseDrop(t, d)
        \/ \E k \in Scanners, d \in Databases : ScannerNew(t, k, d)
        \/ \E k, l \in Scanners : ScannerClone(t, k, l)
        \/ \E k \in Scanners : ScannerDrop(t, k)
        \/ \E x \in Streams, k \in Scanners : open_stream(t, x, k)
        \/ \E x \in Streams : StreamScannerDrop(t, x)
        \/ \E k \in Scanners : BlockScan(t, k)
        \/ \E x \in Streams : StreamScan(t, x)
        \/ \E x \in Streams : StreamClose(t, x)
        \/ CallStep(t)

Spec == Init /\ [][Next]_vars

-----------------------------------------------------------------------------
(* Properties.                                                             *)

Results ==
    {"Ok", "Continue", "Terminate", "Nomem", "Nul", "InputTooLarge",
     "HyperscanCompile", "ScratchInUse", "panic"}
FrameType ==
    [op : {"block", "scan", "close"}, slot : Scanners \cup Streams, scanner : Scanners,
     pc : {"test", "mark", "match", "callback", "unmark"}, asked : BOOLEAN]

\* Every value has the type its Rust declaration gives it.
TypeOK ==
    /\ database \in [Databases -> {"none", "BLOCK", "STREAM"}]
    /\ scanner \in [Scanners -> Databases \cup {None}]
    /\ in_use \in [Scanners -> BOOLEAN]
    /\ stream \in [Streams -> [scanner : Scanners, owner : Threads] \cup {None}]
    /\ c_stream \in [Streams -> {"none", "open", "TERMINATED"}]
    /\ calls \in [Threads -> Seq(FrameType)]
    /\ result \in [Threads -> [op : {"other", "block", "scan", "close"},
                              value : Results, asked : BOOLEAN]]

\* Inside(k): the calls that hold scratch k, from the mark to the unmark.
Inside(k) ==
    {w \in Threads \X (1 .. MaxDepth) :
        /\ w[2] =< Len(calls[w[1]])
        /\ calls[w[1]][w[2]].scanner = k
        /\ calls[w[1]][w[2]].pc \in {"match", "callback", "unmark"}}

\* markScratchInUse and unmarkScratchInUse keep a scratch to one call at a
\* time, whatever the callbacks call, and in_use says whether there is one.
OneCallPerScratch ==
    \A k \in Scanners : scanner[k] # None =>
        /\ Cardinality(Inside(k)) =< 1
        /\ in_use[k] <=> Inside(k) # {}

\* assert(scratch->in_use == 1) of unmarkScratchInUse.
UnmarkFindsMark == \A t \in Threads : At(t, "unmark") => in_use[Top(t).scanner]

\* The lifetimes of the structs keep every C object that a value or a call in
\* progress refers to allocated: no scanner outlives its database, no stream
\* its scanner, and no drop or close frees what a call further out still uses.
NothingDangles ==
    /\ \A k \in Scanners : scanner[k] # None => database[scanner[k]] # "none"
    /\ \A x \in Streams : stream[x] # None =>
        scanner[stream[x].scanner] # None /\ c_stream[x] # "none"
    /\ \A f \in Frames :
        /\ scanner[f.scanner] # None
        /\ f.op # "block" => c_stream[f.slot] # "none"

\* scratch_drop never panics: no scanner can be dropped with its in_use byte set.
DropNeverPanics == \A t \in Threads : result[t].value # "panic"

\* A scan that was not refused returns Scan::Terminate if and only if a
\* callback of it, or of an earlier scan of its stream, returned it.
TerminateIffAsked ==
    \A t \in Threads :
        result[t].op \in {"block", "scan"} /\ result[t].value # "ScratchInUse"
            => result[t].value = (IF result[t].asked THEN "Terminate" ELSE "Continue")

\* Once a callback stopped a stream, no later scan or close of it calls back.
NoCallbackAfterTerminate ==
    \A f \in Frames :
        f.op # "block" /\ f.pc \in {"match", "callback"} => c_stream[f.slot] = "open"

\* ScratchInUse is returned only to a call that would have run inside another
\* call with the same scratch.
RefusedOnlyInside ==
    \A t \in Threads :
        Len(calls'[t]) < Len(calls[t]) /\ result'[t].value = "ScratchInUse"
            => Inside(Top(t).scanner) # {}
InUseOnlyWhenUsed == [][RefusedOnlyInside]_vars

\* "This function must be called for any stream created with hs_open_stream()":
\* an hs_stream_t that is allocated has a StreamScanner, or a close under way.
EveryStreamClosed ==
    \A x \in Streams : c_stream[x] # "none" =>
        stream[x] # None \/ Borrowed({"close"}, x)

\* "frees the memory associated with the stream state": when close returns, the
\* stream is freed.
ReturnFromClose ==
    \A t \in Threads :
        Len(calls'[t]) < Len(calls[t]) /\ Top(t).op = "close" => c_stream'[Top(t).slot] = "none"
CloseFrees == [][ReturnFromClose]_vars
=============================================================================
