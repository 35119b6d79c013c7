--------------------------- MODULE BindingsProofs ---------------------------
(***************************************************************************)
(* Proofs about the Rust interface, for any number of threads, databases,  *)
(* scanners, streams and nested calls: borrows keep every C object that a  *)
(* value or a call refers to allocated.                                    *)
(***************************************************************************)
EXTENDS Bindings, FiniteSetTheorems, TLAPS

\* Where a call can be, where calls are, and what their steps do to them.
Pcs == {"test", "mark", "match", "callback", "unmark"}

Positions(t) == 1 .. Len(calls[t])

Moved(f, pc, asked) == [f EXCEPT !.pc = pc, !.asked = asked]

Push(t, f) == calls' = [calls EXCEPT ![t] = Append(@, f)]

CallTypes == calls \in [Threads -> Seq(FrameType)]

-----------------------------------------------------------------------------
(* What the steps do to the calls in progress.                             *)

\* The program does not change.
LEMMA SlotsStay ==
    ASSUME program' = program
    PROVE  /\ Threads' = Threads /\ Databases' = Databases /\ Scanners' = Scanners
           /\ Streams' = Streams /\ MayUse' = MayUse /\ MaxDepth' = MaxDepth
           /\ FrameType' = FrameType
BY Zenon DEF Threads, Databases, Scanners, Streams, MayUse, MaxDepth, FrameType

\* The innermost call of a thread that is in a call.
LEMMA TopType ==
    ASSUME CallTypes, NEW t \in Threads, calls[t] # <<>>
    PROVE  /\ Len(calls[t]) \in Positions(t) /\ Len(calls[t]) \in Nat
           /\ Top(t) = calls[t][Len(calls[t])]
           /\ Top(t) \in FrameType
<1> DEFINE s == calls[t]
<1>1. s \in Seq(FrameType) /\ s # <<>>
  BY Zenon DEF CallTypes
<1> HIDE DEF s
<1>2. Len(s) \in Nat /\ Len(s) >= 1 /\ s[Len(s)] \in FrameType
  BY <1>1
<1> QED BY <1>2 DEF s, Positions, Top

\* A step of the innermost call changes where that call is, and nothing else.
LEMMA GotoKeeps ==
    ASSUME CallTypes, NEW t \in Threads, calls[t] # <<>>,
           NEW pc \in Pcs, NEW asked \in BOOLEAN, Goto(t, pc, asked)
    PROVE  /\ calls' \in [Threads -> Seq(FrameType)]
           /\ \A u \in Threads :
                 /\ Len(calls'[u]) = Len(calls[u])
                 /\ \A i \in Positions(u) :
                       calls'[u][i] = IF u = t /\ i = Len(calls[t])
                                      THEN Moved(calls[u][i], pc, asked)
                                      ELSE calls[u][i]
<1> DEFINE s == calls[t]
           n == Len(s)
           f == Moved(s[n], pc, asked)
           z == [s EXCEPT ![n] = f]
<1>1. s \in Seq(FrameType) /\ n \in 1 .. Len(s) /\ s[n] \in FrameType
  BY Zenon, TopType DEF CallTypes, Positions, Top
<1>2. calls' = [calls EXCEPT ![t] = z]
  BY Zenon, <1>1 DEF Goto, CallTypes, Moved
<1>3. f \in FrameType
  BY Zenon, <1>1 DEF FrameType, Pcs, Moved
<1> HIDE DEF f
<1>4. z \in Seq(FrameType) /\ Len(z) = Len(s)
      /\ \A i \in 1 .. Len(s) : z[i] = IF i = n THEN f ELSE s[i]
  BY <1>1, <1>3
<1> HIDE DEF z
<1>5. calls' \in [Threads -> Seq(FrameType)]
  BY Zenon, <1>2, <1>4 DEF CallTypes
<1>6. ASSUME NEW u \in Threads PROVE calls'[u] = IF u = t THEN z ELSE calls[u]
  BY Zenon, <1>2 DEF CallTypes
<1> QED BY Zenon, <1>4, <1>5, <1>6 DEF f, Positions

\* What is left of a sequence without its last element.
LEMMA AllButLast ==
    ASSUME NEW S, NEW s \in Seq(S), Len(s) >= 1
    PROVE  LET z == SubSeq(s, 1, Len(s) - 1)
           IN  /\ z \in Seq(S) /\ Len(z) = Len(s) - 1
               /\ \A i \in 1 .. Len(z) : i \in 1 .. Len(s) /\ z[i] = s[i]
<1> DEFINE n == Len(s) - 1
           z == SubSeq(s, 1, n)
<1>1. n \in Nat /\ Len(s) = n + 1 /\ \A i \in 1 .. n : s[i] \in S
  OBVIOUS
<1> HIDE DEF n
<1>2. /\ z \in Seq(S)
      /\ Len(z) = IF 1 <= n THEN n - 1 + 1 ELSE 0
      /\ \A i \in 1 .. n - 1 + 1 : z[i] = s[1 + i - 1]
  BY <1>1
<1>3. Len(z) = n /\ \A i \in 1 .. n : z[i] = s[i]
  BY <1>1, <1>2
<1> QED BY <1>1, <1>2, <1>3 DEF n

\* A return ends the innermost call and leaves the others as they are.
LEMMA ReturnKeeps ==
    ASSUME CallTypes, NEW t \in Threads, calls[t] # <<>>, NEW code, Return(t, code)
    PROVE  /\ calls' \in [Threads -> Seq(FrameType)]
           /\ \A u \in Threads :
                 /\ Len(calls'[u]) = IF u = t THEN Len(calls[t]) - 1 ELSE Len(calls[u])
                 /\ \A i \in 1 .. Len(calls'[u]) : i \in Positions(u) /\ calls'[u][i] = calls[u][i]
<1> DEFINE s == calls[t]
           z == SubSeq(s, 1, Len(s) - 1)
<1>1. s \in Seq(FrameType) /\ Len(s) \in Nat /\ Len(s) >= 1
  BY TopType DEF CallTypes, Positions
<1>2. calls' = [calls EXCEPT ![t] = z]
  BY Zenon DEF Return
<1> HIDE DEF s
<1>3. z \in Seq(FrameType) /\ Len(z) = Len(s) - 1
      /\ \A i \in 1 .. Len(z) : i \in 1 .. Len(s) /\ z[i] = s[i]
  BY Zenon, <1>1, AllButLast
<1> HIDE DEF z
<1>4. calls' \in [Threads -> Seq(FrameType)]
  BY Zenon, <1>2, <1>3 DEF CallTypes
<1>5. ASSUME NEW u \in Threads PROVE calls'[u] = IF u = t THEN z ELSE calls[u]
  BY Zenon, <1>2 DEF CallTypes
<1>6. \A u \in Threads : calls[u] \in Seq(FrameType)
  BY Zenon DEF CallTypes
<1> QED BY Zenon, <1>3, <1>4, <1>5, <1>6 DEF s, Positions

\* A method that is entered becomes the innermost call.
LEMMA EnterKeeps ==
    ASSUME CallTypes, NEW t \in Threads, NEW f \in FrameType, Push(t, f)
    PROVE  /\ calls' \in [Threads -> Seq(FrameType)]
           /\ \A u \in Threads :
                 /\ Len(calls'[u]) = IF u = t THEN Len(calls[t]) + 1 ELSE Len(calls[u])
                 /\ \A i \in 1 .. Len(calls'[u]) :
                       \/ i \in Positions(u) /\ calls'[u][i] = calls[u][i]
                       \/ u = t /\ i = Len(calls[t]) + 1 /\ calls'[u][i] = f
<1> DEFINE s == calls[t]
           z == Append(s, f)
<1>1. s \in Seq(FrameType) /\ Len(s) \in Nat
  BY DEF CallTypes
<1>2. calls' = [calls EXCEPT ![t] = z]
  BY Zenon DEF Push
<1> HIDE DEF s
<1>3. z \in Seq(FrameType) /\ Len(z) = Len(s) + 1
      /\ \A i \in 1 .. Len(z) : (i \in 1 .. Len(s) /\ z[i] = s[i]) \/ (i = Len(s) + 1 /\ z[i] = f)
  BY <1>1
<1> HIDE DEF z
<1>4. calls' \in [Threads -> Seq(FrameType)]
  BY Zenon, <1>2, <1>3 DEF CallTypes
<1>5. ASSUME NEW u \in Threads PROVE calls'[u] = IF u = t THEN z ELSE calls[u]
  BY Zenon, <1>2 DEF CallTypes
<1>6. \A u \in Threads : calls[u] \in Seq(FrameType)
  BY Zenon DEF CallTypes
<1> QED BY Zenon, <1>3, <1>4, <1>5, <1>6 DEF s, Positions

-----------------------------------------------------------------------------
(* Nothing dangles.                                                        *)

\* A value refers to live objects.
Lives ==
    /\ \A k \in Scanners : scanner[k] # None => database[scanner[k]] # "none"
    /\ \A x \in Streams : stream[x] # None =>
          scanner[stream[x].scanner] # None /\ c_stream[x] # "none"

\* So does a call in progress, each kind through the borrow it holds: a block
\* scan its scanner, a stream scan its StreamScanner, a close, whose value is
\* gone, the scanner and the hs_stream_t themselves.
Sound(f) ==
    /\ f.op = "block" => f.slot = f.scanner /\ scanner[f.scanner] # None
    /\ f.op = "scan" =>
          f.slot \in Streams /\ stream[f.slot] # None /\ stream[f.slot].scanner = f.scanner
    /\ f.op = "close" =>
          /\ f.slot \in Streams /\ stream[f.slot] = None /\ c_stream[f.slot] # "none"
          /\ scanner[f.scanner] # None

AllSound == \A t \in Threads : \A i \in Positions(t) : Sound(calls[t][i])

\* A stream is closed by one call.
ClosedOnce ==
    \A t, u \in Threads : \A i \in Positions(t), j \in Positions(u) :
        calls[t][i].op = "close" /\ calls[u][j].op = "close"
        /\ calls[t][i].slot = calls[u][j].slot => t = u /\ i = j

IInv == program \in Programs /\ TypeOK /\ Lives /\ AllSound /\ ClosedOnce

\* Frames has every call in progress.
LEMMA InFrames ==
    ASSUME NEW t \in Threads, NEW i \in Positions(t)
    PROVE  calls[t][i] \in Frames
BY DEF Frames, Positions

\* A method returns a Result.
LEMMA GiveType ==
    ASSUME TypeOK, NEW t \in Threads, NEW value \in Results, Give(t, value)
    PROVE  result' \in [Threads -> [op : {"other", "block", "scan", "close"},
                                    value : Results, asked : BOOLEAN]]
BY Zenon DEF TypeOK, Give

\* Databases come and go, and none that a scanner borrows goes.
LEMMA DatabaseStep ==
    ASSUME IInv, NEW t \in Threads, NEW d \in Databases,
           \/ \E m \in {"BLOCK", "STREAM"} : DatabaseNew(t, d, m)
           \/ \E e \in Databases : DatabaseClone(t, d, e)
           \/ DatabaseDrop(t, d)
    PROVE  IInv'
<1>1. UNCHANGED <<program, scanner, in_use, stream, c_stream, calls>>
  BY Zenon DEF DatabaseNew, DatabaseClone, DatabaseDrop
<1>2. /\ database' \in [Databases -> {"none", "BLOCK", "STREAM"}]
      /\ \A e \in Databases : database'[e] # database[e] =>
            database[e] = "none" \/ ~HasScanners(e)
  BY Zenon DEF IInv, TypeOK, DatabaseNew, DatabaseClone, DatabaseDrop
<1>3. result' \in [Threads -> [op : {"other", "block", "scan", "close"},
                               value : Results, asked : BOOLEAN]]
  <2>1. CASE \E m \in {"BLOCK", "STREAM"} : DatabaseNew(t, d, m)
    <3>1. PICK value \in Results : Give(t, value)
      BY Zenon, <2>1 DEF DatabaseNew, Results
    <3> QED BY Zenon, <3>1, GiveType DEF IInv
  <2>2. CASE UNCHANGED result
    BY Zenon, <2>2 DEF IInv, TypeOK
  <2> QED BY Zenon, <2>1, <2>2 DEF DatabaseClone, DatabaseDrop
<1>4. TypeOK'
  BY Zenon, <1>1, <1>2, <1>3, SlotsStay DEF IInv, TypeOK
<1>5. Lives'
  <2>1. \A k \in Scanners : scanner[k] # None => scanner[k] \in Databases
    BY Zenon DEF IInv, TypeOK
  <2>2. \A k \in Scanners : scanner[k] # None => HasScanners(scanner[k])
    BY Zenon DEF HasScanners
  <2> QED BY Zenon, <1>1, <1>2, <2>1, <2>2, SlotsStay DEF IInv, Lives
<1> QED BY <1>1, <1>4, <1>5, SlotsStay DEF IInv, AllSound, Sound, ClosedOnce, Positions

\* Scanners come and go, and none that a stream or a call borrows goes.
LEMMA ScannerStep ==
    ASSUME IInv, NEW t \in Threads, NEW k \in Scanners,
           \/ \E d \in Databases : ScannerNew(t, k, d)
           \/ \E l \in Scanners : ScannerClone(t, k, l)
           \/ ScannerDrop(t, k)
    PROVE  IInv'
<1>1. UNCHANGED <<program, database, stream, c_stream, calls>>
  BY Zenon DEF ScannerNew, ScannerClone, ScannerDrop
<1>2. /\ scanner' \in [Scanners -> Databases \cup {None}]
      /\ in_use' \in [Scanners -> BOOLEAN]
  <2>1. \/ UNCHANGED scanner
        \/ \E d \in Databases \cup {None} : scanner' = [scanner EXCEPT ![k] = d]
    BY Zenon DEF IInv, TypeOK, ScannerNew, ScannerClone, ScannerDrop
  <2>2. UNCHANGED in_use \/ in_use' = [in_use EXCEPT ![k] = FALSE]
    BY Zenon DEF ScannerNew, ScannerClone, ScannerDrop
  <2>3. scanner \in [Scanners -> Databases \cup {None}] /\ in_use \in [Scanners -> BOOLEAN]
    BY Zenon DEF IInv, TypeOK
  <2>4. scanner' \in [Scanners -> Databases \cup {None}]
    BY Zenon, <2>1, <2>3
  <2>5. in_use' \in [Scanners -> BOOLEAN]
    BY Zenon, <2>2, <2>3
  <2> QED BY Zenon, <2>4, <2>5
<1>3. result' \in [Threads -> [op : {"other", "block", "scan", "close"},
                               value : Results, asked : BOOLEAN]]
  <2>1. CASE UNCHANGED result
    BY Zenon, <2>1 DEF IInv, TypeOK
  <2>2. CASE \E value \in Results : Give(t, value)
    BY Zenon, <2>2, GiveType DEF IInv
  <2>3. ok("HS_NOMEM") \in Results
    BY Zenon DEF ok, ErrorCode, Results
  <2>4. "Ok" \in Results /\ "panic" \in Results
    BY Zenon DEF Results
  <2> QED BY Zenon, <2>1, <2>2, <2>3, <2>4 DEF ScannerNew, ScannerClone, ScannerDrop
<1>4. TypeOK'
  BY Zenon, <1>1, <1>2, <1>3, SlotsStay DEF IInv, TypeOK
<1>5. \A l \in Scanners : scanner'[l] # None => database[scanner'[l]] # "none"
  BY ZenonT(30) DEF IInv, TypeOK, Lives, ScannerNew, ScannerClone, ScannerDrop
<1>6. \A l \in Scanners : scanner'[l] = None =>
        scanner[l] = None \/ (~ScannerBusy(l) /\ ~HasStreams(l) /\ ~Closing(l))
  <2>1. CASE ScannerDrop(t, k)
    BY Zenon, <2>1 DEF IInv, TypeOK, ScannerDrop
  <2>2. \A d \in Databases : d # None
    BY Zenon, BindingsAssumption DEF IInv, Databases
  <2>3. CASE \E d \in Databases : ScannerNew(t, k, d)
    BY Zenon, <2>2, <2>3 DEF IInv, TypeOK, ScannerNew
  <2>4. CASE \E l \in Scanners : ScannerClone(t, k, l)
    BY Zenon, <2>4 DEF IInv, TypeOK, ScannerClone
  <2> QED BY Zenon, <2>1, <2>3, <2>4
<1>7. Lives'
  <2>1. \A x \in Streams : stream[x] # None =>
            stream[x].scanner \in Scanners /\ HasStreams(stream[x].scanner)
    BY Zenon DEF IInv, TypeOK, HasStreams
  <2> QED BY Zenon, <1>1, <1>5, <1>6, <2>1, SlotsStay DEF IInv, Lives
<1>8. AllSound'
  <2> SUFFICES ASSUME NEW u \in Threads, NEW i \in Positions(u) PROVE Sound(calls[u][i])'
    BY Zenon, <1>1, SlotsStay DEF AllSound, Positions
  <2> DEFINE f == calls[u][i]
  <2>1. f \in FrameType /\ f \in Frames /\ Sound(f)
    BY InFrames DEF IInv, TypeOK, AllSound, Positions
  <2>2. calls'[u][i] = f
    BY Zenon, <1>1
  <2> HIDE DEF f
  <2>3. f.scanner \in Scanners
    BY Zenon, <2>1 DEF FrameType
  <2>4. f.op = "block" => ScannerBusy(f.scanner)
    BY Zenon, <2>1 DEF ScannerBusy, Borrowed, Sound
  <2>5. f.op = "close" => Closing(f.scanner)
    BY Zenon, <2>1 DEF Closing
  <2> QED BY Zenon, <1>1, <1>6, <2>1, <2>2, <2>3, <2>4, <2>5, SlotsStay DEF Sound
<1> QED BY <1>1, <1>4, <1>7, <1>8, SlotsStay DEF IInv, ClosedOnce, Positions

\* A stream is opened in a slot whose last hs_stream_t is gone.
LEMMA OpenStep ==
    ASSUME IInv, NEW t \in Threads, NEW x \in Streams, NEW k \in Scanners,
           open_stream(t, x, k)
    PROVE  IInv'
<1>1. UNCHANGED <<program, database, scanner, in_use, calls>>
  BY Zenon DEF open_stream
<1>2. stream[x] = None /\ c_stream[x] = "none" /\ scanner[k] # None
  BY Zenon DEF open_stream
<1>3. \/ UNCHANGED <<stream, c_stream>>
      \/ /\ stream' = [stream EXCEPT ![x] = [scanner |-> k, owner |-> t]]
         /\ c_stream' = [c_stream EXCEPT ![x] = "open"]
  BY Zenon DEF open_stream
<1>4. stream' \in [Streams -> [scanner : Scanners, owner : Threads] \cup {None}]
  <2> DEFINE r == [scanner |-> k, owner |-> t]
             T == [scanner : Scanners, owner : Threads] \cup {None}
  <2>1. r \in T /\ stream \in [Streams -> T]
    BY Zenon DEF IInv, TypeOK
  <2>2. UNCHANGED stream \/ stream' = [stream EXCEPT ![x] = r]
    BY Zenon, <1>3
  <2> HIDE DEF r, T
  <2>3. stream' \in [Streams -> T]
    BY Zenon, <2>1, <2>2
  <2> QED BY Zenon, <2>3 DEF T
<1>5. c_stream' \in [Streams -> {"none", "open", "TERMINATED"}]
  BY Zenon, <1>3 DEF IInv, TypeOK
<1>6. result' \in [Threads -> [op : {"other", "block", "scan", "close"},
                               value : Results, asked : BOOLEAN]]
  <2>1. ok("HS_NOMEM") \in Results /\ "Ok" \in Results
    BY Zenon DEF ok, ErrorCode, Results
  <2>2. Give(t, "Ok") \/ Give(t, ok("HS_NOMEM"))
    BY Zenon DEF open_stream
  <2> QED BY Zenon, <2>1, <2>2, GiveType DEF IInv
<1>7. TypeOK'
  BY Zenon, <1>1, <1>4, <1>5, <1>6, SlotsStay DEF IInv, TypeOK
<1>8. \A y \in Streams : y # x => stream'[y] = stream[y] /\ c_stream'[y] = c_stream[y]
  BY Zenon, <1>3 DEF IInv, TypeOK
<1>9. stream'[x] # None => stream'[x].scanner = k /\ c_stream'[x] = "open"
  BY <1>2, <1>3 DEF IInv, TypeOK
<1>10. Lives'
  BY Zenon, <1>1, <1>2, <1>8, <1>9, SlotsStay DEF IInv, Lives
<1>11. AllSound'
  <2> SUFFICES ASSUME NEW u \in Threads, NEW i \in Positions(u) PROVE Sound(calls[u][i])'
    BY Zenon, <1>1, SlotsStay DEF AllSound, Positions
  <2> DEFINE f == calls[u][i]
  <2>1. Sound(f) /\ calls'[u][i] = f
    BY Zenon, <1>1 DEF IInv, AllSound
  <2> HIDE DEF f
  <2>2. f.op \in {"scan", "close"} => f.slot # x
    BY Zenon, <1>2, <2>1 DEF Sound
  <2> QED BY Zenon, <1>1, <1>8, <2>1, <2>2, SlotsStay DEF Sound
<1> QED BY <1>1, <1>7, <1>10, <1>11, SlotsStay DEF IInv, ClosedOnce, Positions

\* Dropping a StreamScanner takes the value and nothing else.
LEMMA StreamDropStep ==
    ASSUME IInv, NEW t \in Threads, NEW x \in Streams, StreamScannerDrop(t, x)
    PROVE  IInv'
<1>1. UNCHANGED <<program, database, scanner, in_use, c_stream, calls, result>>
  BY Zenon DEF StreamScannerDrop
<1>2. stream[x] # None /\ ~StreamBusy(x) /\ stream' = [stream EXCEPT ![x] = None]
  BY Zenon DEF StreamScannerDrop
<1>3. TypeOK'
  BY Zenon, <1>1, <1>2, SlotsStay DEF IInv, TypeOK
<1>4. stream'[x] = None /\ \A y \in Streams : y # x => stream'[y] = stream[y]
  BY Zenon, <1>2 DEF IInv, TypeOK
<1>5. Lives'
  BY Zenon, <1>1, <1>4, SlotsStay DEF IInv, Lives
<1>6. AllSound'
  <2> SUFFICES ASSUME NEW u \in Threads, NEW i \in Positions(u) PROVE Sound(calls[u][i])'
    BY Zenon, <1>1, SlotsStay DEF AllSound, Positions
  <2> DEFINE f == calls[u][i]
  <2>1. Sound(f) /\ calls'[u][i] = f /\ f \in Frames
    BY Zenon, <1>1, InFrames DEF IInv, AllSound
  <2> HIDE DEF f
  <2>2. f.op = "scan" => f.slot # x
    BY Zenon, <1>2, <2>1 DEF StreamBusy, Borrowed
  <2> QED BY Zenon, <1>1, <1>4, <2>1, <2>2, SlotsStay DEF Sound
<1> QED BY <1>1, <1>3, <1>5, <1>6, SlotsStay DEF IInv, ClosedOnce, Positions

\* A scan starts: its frame is sound since its scanner or stream is there.
LEMMA ScanStep ==
    ASSUME IInv, NEW t \in Threads,
           \/ \E k \in Scanners : BlockScan(t, k)
           \/ \E x \in Streams : StreamScan(t, x)
    PROVE  IInv'
<1>1. UNCHANGED <<program, database, scanner, in_use, stream, c_stream>>
  BY Zenon DEF BlockScan, StreamScan, Values
<1>2. CASE Give(t, "InputTooLarge") /\ UNCHANGED calls
  <2>1. result' \in [Threads -> [op : {"other", "block", "scan", "close"},
                                 value : Results, asked : BOOLEAN]]
    BY Zenon, <1>2, GiveType DEF IInv, Results
  <2>2. TypeOK'
    BY Zenon, <1>1, <1>2, <2>1, SlotsStay DEF IInv, TypeOK
  <2> QED BY <1>1, <1>2, <2>2, SlotsStay
          DEF IInv, Lives, AllSound, Sound, ClosedOnce, Positions
<1>3. ASSUME NEW f \in FrameType, Sound(f), f.op # "close", UNCHANGED result,
             Push(t, f)
      PROVE  IInv'
  <2>1. CallTypes
    BY Zenon DEF IInv, TypeOK, CallTypes
  <2>2. /\ calls' \in [Threads -> Seq(FrameType)]
        /\ \A u \in Threads : \A i \in 1 .. Len(calls'[u]) :
              \/ i \in Positions(u) /\ calls'[u][i] = calls[u][i]
              \/ calls'[u][i] = f
    BY Zenon, <1>3, <2>1, EnterKeeps
  <2>3. TypeOK'
    BY Zenon, <1>1, <1>3, <2>2, SlotsStay DEF IInv, TypeOK
  <2>4. \A g : Sound(g)' <=> Sound(g)
    BY Zenon, <1>1, SlotsStay DEF Sound
  <2>5. AllSound'
    BY Zenon, <1>1, <1>3, <2>2, <2>4, SlotsStay DEF IInv, AllSound, Positions
  <2>6. ClosedOnce'
    <3> SUFFICES ASSUME NEW u \in Threads, NEW v \in Threads,
                      NEW i \in 1 .. Len(calls'[u]), NEW j \in 1 .. Len(calls'[v]),
                      calls'[u][i].op = "close", calls'[v][j].op = "close",
                      calls'[u][i].slot = calls'[v][j].slot
               PROVE  u = v /\ i = j
    BY <1>1, SlotsStay DEF ClosedOnce, Positions
    <3>1. /\ i \in Positions(u) /\ calls'[u][i] = calls[u][i]
          /\ j \in Positions(v) /\ calls'[v][j] = calls[v][j]
      BY Zenon, <1>3, <2>2
    <3> QED BY <3>1 DEF IInv, ClosedOnce
  <2> QED BY Zenon, <1>1, <2>3, <2>5, <2>6, SlotsStay DEF IInv, Lives
<1>4. CASE \E k \in Scanners : BlockScan(t, k)
  <2>1. PICK k \in Scanners : BlockScan(t, k)
    BY Zenon, <1>4
  <2> DEFINE f == [op |-> "block", slot |-> k, scanner |-> k, pc |-> "test", asked |-> FALSE]
  <2>2. f \in FrameType /\ Sound(f) /\ f.op # "close"
    BY Zenon, <2>1 DEF FrameType, Sound, BlockScan
  <2>3. \/ Give(t, "InputTooLarge") /\ UNCHANGED calls
        \/ Push(t, f) /\ UNCHANGED result
    BY Zenon, <2>1 DEF BlockScan, Enter, Push
  <2> HIDE DEF f
  <2> QED BY Zenon, <1>2, <1>3, <2>2, <2>3
<1>5. CASE \E x \in Streams : StreamScan(t, x)
  <2>1. PICK x \in Streams : StreamScan(t, x)
    BY Zenon, <1>5
  <2> DEFINE asked == c_stream[x] = "TERMINATED"
             f == [op |-> "scan", slot |-> x, scanner |-> stream[x].scanner,
                   pc |-> "test", asked |-> asked]
  <2>2. stream[x] # None /\ stream[x].scanner \in Scanners /\ asked \in BOOLEAN
    BY Zenon, <2>1 DEF StreamScan, IInv, TypeOK
  <2>3. \/ Give(t, "InputTooLarge") /\ UNCHANGED calls
        \/ Push(t, f) /\ UNCHANGED result
    BY Zenon, <2>1 DEF StreamScan, Enter, Push
  <2> HIDE DEF asked
  <2>4. f \in FrameType /\ Sound(f) /\ f.op # "close"
    BY Zenon, <2>2 DEF FrameType, Sound
  <2> HIDE DEF f
  <2> QED BY Zenon, <1>2, <1>3, <2>3, <2>4
<1> QED BY Zenon, <1>4, <1>5

\* A close starts: no scan is using the StreamScanner it takes, and no other
\* close is under way.
LEMMA CloseStep ==
    ASSUME IInv, NEW t \in Threads, NEW x \in Streams, StreamClose(t, x)
    PROVE  IInv'
<1> DEFINE k == stream[x].scanner
           f == [op |-> "close", slot |-> x, scanner |-> k, pc |-> "test", asked |-> FALSE]
<1>1. UNCHANGED <<program, database, scanner, in_use, c_stream, result>>
  BY Zenon DEF StreamClose
<1>2. stream[x] # None /\ ~StreamBusy(x) /\ stream' = [stream EXCEPT ![x] = None]
  BY Zenon DEF StreamClose
<1>3. Push(t, f)
  BY Zenon DEF StreamClose, Enter, Push
<1>4. k \in Scanners /\ scanner[k] # None /\ c_stream[x] # "none"
  BY Zenon, <1>2 DEF IInv, TypeOK, Lives
<1> HIDE DEF k
<1>5. f \in FrameType
  BY Zenon, <1>4 DEF FrameType
<1>6. f.op = "close" /\ f.slot = x /\ f.scanner = k
  BY Zenon
<1> HIDE DEF f
<1>7. CallTypes
  BY Zenon DEF IInv, TypeOK, CallTypes
<1>8. /\ calls' \in [Threads -> Seq(FrameType)]
      /\ \A u \in Threads : \A i \in 1 .. Len(calls'[u]) :
            \/ i \in Positions(u) /\ calls'[u][i] = calls[u][i]
            \/ u = t /\ i = Len(calls[t]) + 1 /\ calls'[u][i] = f
  BY Zenon, <1>3, <1>5, <1>7, EnterKeeps
<1>9. TypeOK'
  <2>1. stream' \in [Streams -> [scanner : Scanners, owner : Threads] \cup {None}]
    BY Zenon, <1>2 DEF IInv, TypeOK
  <2> QED BY Zenon, <1>1, <1>8, <2>1, SlotsStay DEF IInv, TypeOK
<1>10. stream'[x] = None /\ \A y \in Streams : y # x => stream'[y] = stream[y]
  BY Zenon, <1>2 DEF IInv, TypeOK
<1>11. Lives'
  BY Zenon, <1>1, <1>10, SlotsStay DEF IInv, Lives
<1>12. ASSUME NEW u \in Threads, NEW i \in Positions(u)
       PROVE  calls[u][i].op \in {"scan", "close"} => calls[u][i].slot # x
  <2>1. calls[u][i] \in Frames
    BY Zenon, InFrames
  <2> QED BY Zenon, <1>2, <2>1 DEF StreamBusy, Borrowed
<1>13. \A g : Sound(g) /\ (g.op \in {"scan", "close"} => g.slot # x) => Sound(g)'
  BY Zenon, <1>1, <1>10, SlotsStay DEF Sound
<1>14. \A g : g.op = "close" /\ g.slot = x /\ g.scanner = k => Sound(g)'
  BY <1>1, <1>4, <1>10, SlotsStay DEF Sound
<1>15. AllSound'
  BY Zenon, <1>1, <1>6, <1>8, <1>12, <1>13, <1>14, SlotsStay DEF IInv, AllSound, Positions
<1>16. ClosedOnce'
  <2> SUFFICES ASSUME NEW u \in Threads, NEW v \in Threads,
                      NEW i \in 1 .. Len(calls'[u]), NEW j \in 1 .. Len(calls'[v]),
                      calls'[u][i].op = "close", calls'[v][j].op = "close",
                      calls'[u][i].slot = calls'[v][j].slot
               PROVE  u = v /\ i = j
    BY <1>1, SlotsStay DEF ClosedOnce, Positions
  <2>1. CASE i \in Positions(u) /\ calls'[u][i] = calls[u][i]
    <3>1. j \in Positions(v) /\ calls'[v][j] = calls[v][j]
      BY ZenonT(30), <1>6, <1>8, <1>12, <2>1
    <3> QED BY ZenonT(30), <2>1, <3>1 DEF IInv, ClosedOnce
  <2>2. CASE u = t /\ i = Len(calls[t]) + 1 /\ calls'[u][i] = f
    <3>1. v = t /\ j = Len(calls[t]) + 1
      BY ZenonT(30), <1>6, <1>8, <1>12, <2>2
    <3> QED BY Zenon, <2>2, <3>1
  <2> QED BY Zenon, <1>8, <2>1, <2>2
<1> QED BY Zenon, <1>1, <1>9, <1>11, <1>15, <1>16 DEF IInv

\* A step of a call in progress, but the return of a close, keeps the calls or
\* ends one; it frees nothing.
LEMMA KeepingStep ==
    ASSUME IInv, UNCHANGED <<program, database, scanner, stream>>,
           in_use' \in [Scanners -> BOOLEAN],
           c_stream' \in [Streams -> {"none", "open", "TERMINATED"}],
           calls' \in [Threads -> Seq(FrameType)],
           result' \in [Threads -> [op : {"other", "block", "scan", "close"},
                                    value : Results, asked : BOOLEAN]],
           \A u \in Threads : \A i \in 1 .. Len(calls'[u]) :
              /\ i \in Positions(u)
              /\ calls'[u][i].op = calls[u][i].op
              /\ calls'[u][i].slot = calls[u][i].slot
              /\ calls'[u][i].scanner = calls[u][i].scanner,
           \A x \in Streams : c_stream'[x] = "none" /\ c_stream[x] # "none" =>
              /\ stream[x] = None
              /\ \A u \in Threads : \A i \in 1 .. Len(calls'[u]) :
                    calls'[u][i].op = "close" => calls'[u][i].slot # x
    PROVE  IInv'
<1>1. TypeOK'
  BY Zenon, SlotsStay DEF IInv, TypeOK
<1>2. Lives'
  BY Zenon, SlotsStay DEF IInv, Lives
<1>3. ASSUME NEW u \in Threads, NEW i \in 1 .. Len(calls'[u]) PROVE Sound(calls[u][i])'
  <2>1. i \in Positions(u) /\ Sound(calls[u][i])
    BY Zenon DEF IInv, AllSound
  <2>2. /\ calls'[u][i].op = calls[u][i].op
        /\ calls'[u][i].slot = calls[u][i].slot
        /\ calls'[u][i].scanner = calls[u][i].scanner
    BY Zenon
  <2> QED BY Zenon, <2>1, <2>2, SlotsStay DEF Sound
<1>4. AllSound'
  BY Zenon, <1>3, SlotsStay DEF AllSound, Positions
<1>5. ClosedOnce'
  <2> SUFFICES ASSUME NEW u \in Threads, NEW v \in Threads,
                      NEW i \in 1 .. Len(calls'[u]), NEW j \in 1 .. Len(calls'[v]),
                      calls'[u][i].op = "close", calls'[v][j].op = "close",
                      calls'[u][i].slot = calls'[v][j].slot
               PROVE  u = v /\ i = j
    BY SlotsStay DEF ClosedOnce, Positions
  <2>1. /\ i \in Positions(u) /\ calls[u][i].op = "close"
        /\ j \in Positions(v) /\ calls[v][j].op = "close"
        /\ calls[u][i].slot = calls[v][j].slot
    BY Zenon
  <2> QED BY <2>1 DEF IInv, ClosedOnce
<1> QED BY Zenon, <1>1, <1>2, <1>4, <1>5 DEF IInv

\* What ScanResult makes of the codes the C calls return.
LEMMA CodesGiveResults ==
    /\ ScanResult("HS_SUCCESS") \in Results
    /\ ScanResult("HS_SCAN_TERMINATED") \in Results
    /\ ScanResult("HS_SCRATCH_IN_USE") \in Results
BY Zenon DEF ScanResult, ok, ErrorCode, Results

\* A C call returns a Result.
LEMMA ReturnType ==
    ASSUME TypeOK, NEW t \in Threads, calls[t] # <<>>,
           NEW code \in {"HS_SUCCESS", "HS_SCAN_TERMINATED", "HS_SCRATCH_IN_USE"},
           Return(t, code)
    PROVE  result' \in [Threads -> [op : {"other", "block", "scan", "close"},
                                    value : Results, asked : BOOLEAN]]
<1> DEFINE r == [op |-> Top(t).op, value |-> ScanResult(code), asked |-> Top(t).asked]
           T == [op : {"other", "block", "scan", "close"}, value : Results, asked : BOOLEAN]
<1>1. Top(t) \in FrameType
  BY Zenon, TopType DEF TypeOK, CallTypes
<1>2. Top(t).op \in {"block", "scan", "close"} /\ Top(t).asked \in BOOLEAN
  BY Zenon, <1>1 DEF FrameType
<1>3. r \in T
  BY Zenon, <1>2, CodesGiveResults
<1>4. result' = [result EXCEPT ![t] = r] /\ result \in [Threads -> T]
  BY Zenon DEF Return, TypeOK
<1> HIDE DEF r, T
<1>5. result' \in [Threads -> T]
  BY Zenon, <1>3, <1>4
<1> QED BY Zenon, <1>5 DEF T

\* Every step of a C call keeps IInv.
LEMMA CallStepKeeps ==
    ASSUME IInv, NEW t \in Threads, CallStep(t)
    PROVE  IInv'
<1> DEFINE f == Top(t)
           n == Len(calls[t])
           ResultTypes == [Threads -> [op : {"other", "block", "scan", "close"},
                                       value : Results, asked : BOOLEAN]]
<1>1. UNCHANGED <<program, database, scanner, stream>>
  BY Zenon DEF CallStep, MarkTest, MarkSet, Trampoline, TrampolineReturn, ScanDone, Unmark, Values
<1>2. calls[t] # <<>> /\ CallTypes
  BY Zenon DEF CallStep, MarkTest, MarkSet, Trampoline, TrampolineReturn, ScanDone, Unmark, At,
         IInv, TypeOK, CallTypes
<1>3. /\ n \in Positions(t) /\ f = calls[t][n] /\ f \in FrameType /\ Sound(f)
      /\ n \in Nat
  BY Zenon, <1>2, TopType DEF IInv, AllSound
<1>4. f.scanner \in Scanners /\ f.asked \in BOOLEAN
      /\ (f.op # "block" => f.op \in {"scan", "close"} /\ f.slot \in Streams)
  BY Zenon, <1>3 DEF FrameType, Sound
<1>5. /\ in_use \in [Scanners -> BOOLEAN]
      /\ c_stream \in [Streams -> {"none", "open", "TERMINATED"}]
      /\ result \in ResultTypes
  BY Zenon DEF IInv, TypeOK
<1> HIDE DEF f, n, ResultTypes
<1>6. ASSUME NEW pc \in Pcs, NEW asked \in BOOLEAN, Goto(t, pc, asked)
      PROVE  /\ calls' \in [Threads -> Seq(FrameType)]
             /\ \A u \in Threads : \A i \in 1 .. Len(calls'[u]) :
                   /\ i \in Positions(u)
                   /\ calls'[u][i].op = calls[u][i].op
                   /\ calls'[u][i].slot = calls[u][i].slot
                   /\ calls'[u][i].scanner = calls[u][i].scanner
  <2>1. /\ calls' \in [Threads -> Seq(FrameType)]
        /\ \A u \in Threads :
              /\ Len(calls'[u]) = Len(calls[u])
              /\ \A i \in Positions(u) :
                    calls'[u][i] = IF u = t /\ i = Len(calls[t])
                                   THEN Moved(calls[u][i], pc, asked)
                                   ELSE calls[u][i]
    BY <1>2, <1>6, GotoKeeps
  <2>2. \A g \in FrameType : LET h == Moved(g, pc, asked)
                             IN  h.op = g.op /\ h.slot = g.slot /\ h.scanner = g.scanner
    BY Zenon DEF FrameType, Moved
  <2>3. \A u \in Threads : \A i \in Positions(u) : calls[u][i] \in FrameType
    BY <1>2 DEF CallTypes, Positions
  <2> QED BY <2>1, <2>2, <2>3 DEF Positions
<1>7. CASE MarkTest(t)
  <2>1. UNCHANGED <<in_use, c_stream>>
    BY Zenon, <1>7 DEF MarkTest
  <2>2. CASE Return(t, "HS_SCRATCH_IN_USE")
    <3>1. result' \in ResultTypes
      BY Zenon, <1>2, <2>2, ReturnType DEF IInv, ResultTypes
    <3>2. /\ calls' \in [Threads -> Seq(FrameType)]
          /\ \A u \in Threads : \A i \in 1 .. Len(calls'[u]) :
                i \in Positions(u) /\ calls'[u][i] = calls[u][i]
      BY Zenon, <1>2, <2>2, ReturnKeeps
    <3> QED BY Zenon, <1>1, <1>5, <2>1, <3>1, <3>2, KeepingStep DEF ResultTypes
  <2>3. CASE Goto(t, "mark", f.asked) /\ UNCHANGED result
    BY Zenon, <1>1, <1>4, <1>5, <1>6, <2>1, <2>3, KeepingStep DEF ResultTypes, Pcs
  <2> QED BY Zenon, <1>7, <2>2, <2>3 DEF MarkTest, f
<1>8. CASE MarkSet(t)
  <2>1. UNCHANGED <<c_stream, result>> /\ in_use' \in [Scanners -> BOOLEAN]
    BY Zenon, <1>4, <1>5, <1>8 DEF MarkSet, f
  <2>2. Goto(t, "unmark", f.asked) \/ Goto(t, "match", f.asked)
    BY Zenon, <1>8 DEF MarkSet, f
  <2> QED BY Zenon, <1>1, <1>4, <1>5, <1>6, <2>1, <2>2, KeepingStep DEF ResultTypes, Pcs
<1>9. CASE Trampoline(t) \/ ScanDone(t)
  <2>1. UNCHANGED <<in_use, c_stream, result>>
    BY Zenon, <1>9 DEF Trampoline, ScanDone
  <2>2. Goto(t, "callback", f.asked) \/ Goto(t, "unmark", f.asked)
    BY Zenon, <1>9 DEF Trampoline, ScanDone, f
  <2> QED BY Zenon, <1>1, <1>4, <1>5, <1>6, <2>1, <2>2, KeepingStep DEF ResultTypes, Pcs
<1>10. CASE TrampolineReturn(t)
  <2>1. UNCHANGED <<in_use, result>>
    BY Zenon, <1>10 DEF TrampolineReturn
  <2>2. Goto(t, "match", f.asked) \/ Goto(t, "unmark", TRUE)
    BY Zenon, <1>10 DEF TrampolineReturn, f
  <2>3. \/ UNCHANGED c_stream
        \/ f.op = "scan" /\ c_stream' = [c_stream EXCEPT ![f.slot] = "TERMINATED"]
    BY Zenon, <1>10 DEF TrampolineReturn, f
  <2>4. /\ c_stream' \in [Streams -> {"none", "open", "TERMINATED"}]
        /\ \A x \in Streams : c_stream'[x] = "none" => c_stream[x] = "none"
    BY Zenon, <1>4, <1>5, <2>3
  <2> QED BY Zenon, <1>1, <1>4, <1>5, <1>6, <2>1, <2>2, <2>4, KeepingStep DEF ResultTypes, Pcs
<1>11. CASE Unmark(t)
  <2>1. in_use' \in [Scanners -> BOOLEAN]
    BY Zenon, <1>4, <1>5, <1>11 DEF Unmark, f
  <2>2. PICK code \in {"HS_SUCCESS", "HS_SCAN_TERMINATED", "HS_SCRATCH_IN_USE"} : Return(t, code)
    BY Zenon, <1>11 DEF Unmark
  <2>3. result' \in ResultTypes
    BY Zenon, <1>2, <2>2, ReturnType DEF IInv, ResultTypes
  <2>4. /\ calls' \in [Threads -> Seq(FrameType)]
        /\ \A u \in Threads :
              /\ Len(calls'[u]) = IF u = t THEN Len(calls[t]) - 1 ELSE Len(calls[u])
              /\ \A i \in 1 .. Len(calls'[u]) : i \in Positions(u) /\ calls'[u][i] = calls[u][i]
    BY Zenon, <1>2, <2>2, ReturnKeeps
  <2>5. \/ UNCHANGED c_stream
        \/ f.op = "close" /\ c_stream' = [c_stream EXCEPT ![f.slot] = "none"]
    BY Zenon, <1>11 DEF Unmark, f
  <2>6. c_stream' \in [Streams -> {"none", "open", "TERMINATED"}]
    BY Zenon, <1>4, <1>5, <2>5
  <2>7. ASSUME NEW x \in Streams, c_stream'[x] = "none", c_stream[x] # "none"
        PROVE  /\ stream[x] = None
               /\ \A u \in Threads : \A i \in 1 .. Len(calls'[u]) :
                     calls'[u][i].op = "close" => calls'[u][i].slot # x
    <3>1. f.op = "close" /\ f.slot = x
      BY Zenon, <1>4, <1>5, <2>5, <2>7
    <3>2. stream[x] = None
      BY Zenon, <1>3, <3>1 DEF Sound
    <3>3. ASSUME NEW u \in Threads, NEW i \in 1 .. Len(calls'[u]),
                 calls'[u][i].op = "close", calls'[u][i].slot = x
          PROVE  FALSE
      <4>1. i \in Positions(u) /\ calls[u][i].op = "close" /\ calls[u][i].slot = x
        BY Zenon, <2>4, <3>3
      <4>2. u = t /\ i = n
        BY Zenon, <1>3, <3>1, <4>1 DEF IInv, ClosedOnce
      <4> QED BY <1>3, <2>4, <4>2 DEF n
    <3> QED BY Zenon, <3>2, <3>3
  <2> QED BY Zenon, <1>1, <2>1, <2>3, <2>4, <2>6, <2>7, KeepingStep DEF ResultTypes
<1> QED BY Zenon, <1>7, <1>8, <1>9, <1>10, <1>11 DEF CallStep

\* Nothing is there at first.
LEMMA InitHolds == Init => IInv
<1> SUFFICES ASSUME Init PROVE IInv
  BY Zenon
<1>1. \A t \in Threads : calls[t] = <<>> /\ Positions(t) = {}
  BY DEF Init, Positions
<1>2. calls \in [Threads -> Seq(FrameType)]
  BY DEF Init
<1>3. TypeOK
  BY Zenon, <1>2 DEF Init, TypeOK, Results
<1>4. Lives /\ AllSound /\ ClosedOnce
  BY Zenon, <1>1 DEF Init, Lives, AllSound, ClosedOnce
<1> QED BY Zenon, <1>3, <1>4 DEF Init, IInv

\* Every step keeps IInv.
LEMMA NextHolds == IInv /\ [Next]_vars => IInv'
<1> SUFFICES ASSUME IInv, [Next]_vars PROVE IInv'
  BY Zenon
<1>1. CASE UNCHANGED vars
  <2>1. TypeOK
    BY Zenon DEF IInv
  <2> QED BY Zenon, <1>1, <2>1, KeepingStep DEF vars, TypeOK, Positions
<1>2. CASE Next
  <2>1. PICK t \in Threads :
          \/ \E d \in Databases, m \in {"BLOCK", "STREAM"} : DatabaseNew(t, d, m)
          \/ \E d, e \in Databases : DatabaseClone(t, d, e)
          \/ \E d \in Databases : DatabaseDrop(t, d)
          \/ \E k \in Scanners, d \in Databases : ScannerNew(t, k, d)
          \/ \E k, l \in Scanners : ScannerClone(t, k, l)
          \/ \E k \in Scanners : ScannerDrop(t, k)
          \/ \E x \in Streams, k \in Scanners : open_stream(t, x, k)
          \/ \E x \in Streams : StreamScannerDrop(t, x)
          \/ \E k \in Scanners : BlockScan(t, k)
          \/ \E x \in Streams : StreamScan(t, x)
          \/ \E x \in Streams : StreamClose(t, x)
          \/ CallStep(t)
    BY Zenon, <1>2 DEF Next
  <2> QED BY Zenon, <2>1, DatabaseStep, ScannerStep, OpenStep, StreamDropStep, ScanStep,
             CloseStep, CallStepKeeps
<1> QED BY Zenon, <1>1, <1>2

\* Every value of the Rust interface, every call in progress and every result
\* has its type, for any program.
THEOREM BindingsTypes == Spec => []TypeOK
<1>1. IInv => TypeOK
  BY Zenon DEF IInv
<1> QED BY <1>1, InitHolds, NextHolds, PTL DEF Spec

\* Whatever the threads of a program do, callbacks included, borrows keep each
\* database, scanner and stream that a value or a call refers to allocated.
THEOREM BindingsDangleNothing == Spec => []NothingDangles
<1>1. IInv => NothingDangles
  <2> SUFFICES ASSUME IInv PROVE NothingDangles
    BY Zenon
  <2>1. ASSUME NEW f \in Frames
        PROVE  scanner[f.scanner] # None /\ (f.op # "block" => c_stream[f.slot] # "none")
    <3>1. PICK t \in Threads : \E i \in Positions(t) : f = calls[t][i]
      BY Zenon DEF Frames, Positions
    <3>2. Sound(f) /\ f \in FrameType
      BY <3>1 DEF IInv, TypeOK, AllSound, Positions
    <3>3. f.op \in {"block", "scan", "close"}
      BY Zenon, <3>2 DEF FrameType
    <3> QED BY Zenon, <3>2, <3>3 DEF IInv, Lives, Sound
  <2> QED BY Zenon, <2>1 DEF IInv, Lives, NothingDangles
<1> QED BY <1>1, InitHolds, NextHolds, PTL DEF Spec

-----------------------------------------------------------------------------
(* A stop is final.                                                        *)

\* A StreamScanner is borrowed by one call, scan or close.
BusyOnce ==
    \A t, u \in Threads : \A i \in Positions(t), j \in Positions(u) :
        calls[t][i].op # "block" /\ calls[u][j].op # "block"
        /\ calls[t][i].slot = calls[u][j].slot => t = u /\ i = j

\* A call that matches finds its stream running, and a scan knows whether the
\* stream was told to stop.
StopOK(f) ==
    f.op # "block" =>
        /\ f.pc \in {"match", "callback"} => c_stream[f.slot] = "open"
        /\ f.op = "scan" => (f.asked <=> c_stream[f.slot] = "TERMINATED")

Stops == BusyOnce /\ \A t \in Threads : \A i \in Positions(t) : StopOK(calls[t][i])

\* A call in progress on a stream refers to one that is allocated.
LEMMA CallHasStream ==
    ASSUME IInv, NEW t \in Threads, NEW i \in Positions(t), calls[t][i].op # "block"
    PROVE  calls[t][i].slot \in Streams /\ c_stream[calls[t][i].slot] # "none"
<1>1. calls[t][i] \in FrameType /\ Sound(calls[t][i])
  BY DEF IInv, AllSound, TypeOK, Positions
<1>2. calls[t][i].op \in {"scan", "close"}
  BY Zenon, <1>1 DEF FrameType
<1> QED BY Zenon, <1>1, <1>2 DEF Sound, IInv, Lives

\* A step that leaves the calls alone, and of the streams opens at most one.
LEMMA QuietStops ==
    ASSUME IInv, Stops, UNCHANGED <<program, calls>>,
           \A x \in Streams : c_stream'[x] # c_stream[x] => c_stream[x] = "none"
    PROVE  Stops'
<1>1. Threads' = Threads /\ \A t : Positions(t)' = Positions(t)
  BY Zenon, SlotsStay DEF Positions
<1>2. ASSUME NEW t \in Threads, NEW i \in Positions(t) PROVE StopOK(calls[t][i])'
  <2>1. CASE calls[t][i].op = "block"
    BY Zenon, <2>1 DEF StopOK
  <2>2. CASE calls[t][i].op # "block"
    <3>1. c_stream'[calls[t][i].slot] = c_stream[calls[t][i].slot]
      BY Zenon, <2>2, CallHasStream
    <3>2. StopOK(calls[t][i])
      BY Zenon DEF Stops
    <3> QED BY Zenon, <3>1, <3>2 DEF StopOK
  <2> QED BY Zenon, <2>1, <2>2
<1> QED BY <1>1, <1>2 DEF Stops, BusyOnce

\* A method that scans enters the C library: no other call has its stream.
LEMMA EnterStops ==
    ASSUME IInv, Stops, NEW t \in Threads, NEW f \in FrameType, Push(t, f),
           UNCHANGED <<program, c_stream>>, StopOK(f),
           f.op # "block" => ~StreamBusy(f.slot)
    PROVE  Stops'
<1>1. CallTypes /\ Threads' = Threads
  BY Zenon, SlotsStay DEF IInv, TypeOK, CallTypes
<1>2. \A u \in Threads :
         \A i \in 1 .. Len(calls'[u]) :
               \/ i \in Positions(u) /\ calls'[u][i] = calls[u][i]
               \/ u = t /\ i = Len(calls[t]) + 1 /\ calls'[u][i] = f
  BY Zenon, <1>1, EnterKeeps
<1>3. ASSUME NEW u \in Threads, NEW i \in 1 .. Len(calls'[u]) PROVE StopOK(calls[u][i])'
  <2>1. StopOK(calls'[u][i])
    BY Zenon, <1>2 DEF Stops
  <2> QED BY Zenon, <2>1 DEF StopOK
<1>4. ASSUME NEW u \in Threads, NEW i \in Positions(u), f.op # "block", calls[u][i].op # "block"
      PROVE  calls[u][i].slot # f.slot
  <2>1. calls[u][i] \in Frames /\ calls[u][i] \in FrameType
    BY <1>1, InFrames DEF CallTypes, Positions
  <2> QED BY Zenon, <1>4, <2>1 DEF StreamBusy, Borrowed, FrameType
<1>5. ASSUME NEW u \in Threads, NEW v \in Threads,
             NEW i \in 1 .. Len(calls'[u]), NEW j \in 1 .. Len(calls'[v]),
             calls'[u][i].op # "block", calls'[v][j].op # "block",
             calls'[u][i].slot = calls'[v][j].slot
      PROVE  u = v /\ i = j
  <2>1. CASE calls'[u][i] = f /\ u = t /\ i = Len(calls[t]) + 1
    BY ZenonT(30), <1>2, <1>4, <1>5, <2>1
  <2>2. CASE i \in Positions(u) /\ calls'[u][i] = calls[u][i]
    <3>1. j \in Positions(v) /\ calls'[v][j] = calls[v][j]
      BY Zenon, <1>2, <1>4, <1>5, <2>2
    <3> QED BY <1>5, <2>2, <3>1 DEF Stops, BusyOnce
  <2> QED BY Zenon, <1>2, <2>1, <2>2
<1>6. BusyOnce'
  BY <1>1, <1>5 DEF BusyOnce, Positions
<1> QED BY Zenon, <1>1, <1>3, <1>6 DEF Stops, Positions

\* A step of t's innermost call changes that call, and no stream but its own.
LEMMA InnerStops ==
    ASSUME IInv, Stops, program' = program, NEW t \in Threads, NEW n \in Positions(t),
           \A u \in Threads : \A i \in 1 .. Len(calls'[u]) :
              /\ i \in Positions(u)
              /\ calls'[u][i].op = calls[u][i].op /\ calls'[u][i].slot = calls[u][i].slot
              /\ u = t /\ i = n => StopOK(calls[u][i])'
              /\ ~(u = t /\ i = n) => calls'[u][i] = calls[u][i],
           \A x \in Streams : c_stream'[x] # c_stream[x] =>
              calls[t][n].op # "block" /\ calls[t][n].slot = x
    PROVE  Stops'
<1>1. Threads' = Threads
  BY Zenon, SlotsStay
<1>2. ASSUME NEW u \in Threads, NEW v \in Threads,
             NEW i \in 1 .. Len(calls'[u]), NEW j \in 1 .. Len(calls'[v]),
             calls'[u][i].op # "block", calls'[v][j].op # "block",
             calls'[u][i].slot = calls'[v][j].slot
      PROVE  u = v /\ i = j
  <2>1. /\ i \in Positions(u) /\ j \in Positions(v)
        /\ calls[u][i].op # "block" /\ calls[v][j].op # "block"
        /\ calls[u][i].slot = calls[v][j].slot
    BY Zenon, <1>2
  <2> QED BY <2>1 DEF Stops, BusyOnce
<1>3. ASSUME NEW u \in Threads, NEW i \in 1 .. Len(calls'[u]) PROVE StopOK(calls[u][i])'
  <2>1. CASE u = t /\ i = n
    BY Zenon, <2>1
  <2>2. CASE ~(u = t /\ i = n)
    <3>1. i \in Positions(u) /\ calls'[u][i] = calls[u][i]
      BY Zenon, <2>2
    <3>2. CASE calls[u][i].op = "block"
      BY Zenon, <3>1, <3>2 DEF StopOK
    <3>3. CASE calls[u][i].op # "block"
      <4>1. calls[t][n].op # "block" => calls[t][n].slot # calls[u][i].slot
        BY <2>2, <3>1, <3>3 DEF Stops, BusyOnce
      <4>2. c_stream'[calls[u][i].slot] = c_stream[calls[u][i].slot]
        BY Zenon, <3>1, <3>3, <4>1, CallHasStream
      <4>3. StopOK(calls[u][i])
        BY Zenon, <3>1 DEF Stops
      <4> QED BY Zenon, <3>1, <4>2, <4>3 DEF StopOK
    <3> QED BY Zenon, <3>2, <3>3
  <2> QED BY Zenon, <2>1, <2>2
<1>4. BusyOnce'
  BY <1>1, <1>2 DEF BusyOnce, Positions
<1> QED BY Zenon, <1>1, <1>3, <1>4 DEF Stops, Positions

\* Every step of a C call keeps the streams' status right.
LEMMA CallStops ==
    ASSUME IInv, Stops, NEW t \in Threads, CallStep(t)
    PROVE  Stops'
<1> DEFINE f == Top(t)
<1>1. program' = program
  BY Zenon DEF CallStep, MarkTest, MarkSet, Trampoline, TrampolineReturn, ScanDone, Unmark, Values
<1>2. calls[t] # <<>> /\ CallTypes
  BY Zenon DEF CallStep, MarkTest, MarkSet, Trampoline, TrampolineReturn, ScanDone, Unmark, At,
         IInv, TypeOK, CallTypes
<1>3. PICK n \in Positions(t) : n = Len(calls[t]) /\ f = calls[t][n] /\ f \in FrameType /\ StopOK(f)
  BY Zenon, <1>2, TopType DEF Stops
<1>4. /\ f.asked \in BOOLEAN /\ f.op \in {"block", "scan", "close"}
      /\ f.op # "block" => f.slot \in Streams /\ c_stream[f.slot] # "none"
  BY Zenon, <1>3, CallHasStream DEF FrameType
<1>5. c_stream \in [Streams -> {"none", "open", "TERMINATED"}]
  BY Zenon DEF IInv, TypeOK
<1> HIDE DEF f
<1>6. ASSUME NEW pc \in Pcs, NEW asked \in BOOLEAN, Goto(t, pc, asked),
             \A x \in Streams : c_stream'[x] # c_stream[x] => f.op # "block" /\ f.slot = x,
             f.op # "block" /\ pc \in {"match", "callback"} => c_stream'[f.slot] = "open",
             f.op = "scan" => (asked <=> c_stream'[f.slot] = "TERMINATED")
      PROVE  Stops'
  <2>1. \A u \in Threads :
           /\ Len(calls'[u]) = Len(calls[u])
           /\ \A i \in Positions(u) :
                 calls'[u][i] = IF u = t /\ i = n THEN Moved(calls[u][i], pc, asked)
                                ELSE calls[u][i]
    BY <1>2, <1>3, <1>6, GotoKeeps
  <2>2. LET h == Moved(f, pc, asked)
        IN  h.op = f.op /\ h.slot = f.slot /\ h.pc = pc /\ h.asked = asked
    BY Zenon, <1>3 DEF FrameType, Moved
  <2>3. StopOK(calls[t][n])'
    <3>1. calls'[t][n] = Moved(f, pc, asked)
      BY Zenon, <1>3, <2>1
    <3> QED BY Zenon, <1>6, <2>2, <3>1 DEF StopOK
  <2>4. \A u \in Threads : \A i \in 1 .. Len(calls'[u]) :
           /\ i \in Positions(u)
           /\ calls'[u][i].op = calls[u][i].op /\ calls'[u][i].slot = calls[u][i].slot
           /\ ~(u = t /\ i = n) => calls'[u][i] = calls[u][i]
    BY Zenon, <1>3, <2>1, <2>2 DEF Positions
  <2>5. \A x \in Streams : c_stream'[x] # c_stream[x] =>
           calls[t][n].op # "block" /\ calls[t][n].slot = x
    BY Zenon, <1>3, <1>6
  <2> QED BY <1>1, <2>3, <2>4, <2>5, InnerStops
<1>7. ASSUME NEW code, Return(t, code),
             \A x \in Streams : c_stream'[x] # c_stream[x] => f.op # "block" /\ f.slot = x
      PROVE  Stops'
  <2>1. \A u \in Threads :
           /\ Len(calls'[u]) = IF u = t THEN Len(calls[t]) - 1 ELSE Len(calls[u])
           /\ \A i \in 1 .. Len(calls'[u]) : i \in Positions(u) /\ calls'[u][i] = calls[u][i]
    BY Zenon, <1>2, <1>7, ReturnKeeps
  <2>2. n \notin 1 .. Len(calls'[t])
    BY <1>2, <1>3, <2>1, TopType
  <2>3. \A u \in Threads : \A i \in 1 .. Len(calls'[u]) :
           /\ i \in Positions(u) /\ ~(u = t /\ i = n) /\ calls'[u][i] = calls[u][i]
           /\ calls'[u][i].op = calls[u][i].op /\ calls'[u][i].slot = calls[u][i].slot
    BY Zenon, <2>1, <2>2
  <2>4. \A x \in Streams : c_stream'[x] # c_stream[x] =>
           calls[t][n].op # "block" /\ calls[t][n].slot = x
    BY Zenon, <1>3, <1>7
  <2> QED BY <1>1, <2>3, <2>4, InnerStops
<1>8. CASE MarkTest(t)
  <2>1. UNCHANGED c_stream /\ At(t, "test")
    BY Zenon, <1>8 DEF MarkTest
  <2>2. Return(t, "HS_SCRATCH_IN_USE") \/ Goto(t, "mark", f.asked)
    BY Zenon, <1>8 DEF MarkTest, f
  <2>3. ASSUME Goto(t, "mark", f.asked) PROVE Stops'
    BY Zenon, <1>3, <1>4, <1>6, <2>1, <2>3 DEF Pcs, StopOK
  <2> QED BY Zenon, <1>7, <2>1, <2>2, <2>3
<1>9. CASE MarkSet(t)
  <2>1. UNCHANGED c_stream
        /\ Goto(t, IF f.op # "block" /\ c_stream[f.slot] = "TERMINATED"
                   THEN "unmark" ELSE "match", f.asked)
    BY Zenon, <1>9 DEF MarkSet, f
  <2>2. CASE f.op # "block" /\ c_stream[f.slot] = "TERMINATED"
    BY Zenon, <1>3, <1>4, <1>6, <2>1, <2>2 DEF Pcs, StopOK
  <2>3. CASE ~(f.op # "block" /\ c_stream[f.slot] = "TERMINATED")
    <3>1. f.op # "block" => c_stream[f.slot] = "open"
      BY Zenon, <1>4, <1>5, <2>3
    <3> QED BY Zenon, <1>3, <1>4, <1>6, <2>1, <2>3, <3>1 DEF Pcs, StopOK
  <2> QED BY Zenon, <2>2, <2>3
<1>10. CASE Trampoline(t) \/ ScanDone(t)
  <2>1. UNCHANGED c_stream /\ f.pc = "match"
        /\ (Goto(t, "callback", f.asked) \/ Goto(t, "unmark", f.asked))
    BY Zenon, <1>10 DEF Trampoline, ScanDone, At, f
  <2> QED BY Zenon, <1>3, <1>4, <1>6, <2>1 DEF Pcs, StopOK
<1>11. CASE TrampolineReturn(t)
  <2>1. /\ f.pc = "callback"
        /\ \/ Goto(t, "match", f.asked) /\ UNCHANGED c_stream
           \/ /\ Goto(t, "unmark", TRUE)
              /\ c_stream' = IF f.op = "scan" THEN [c_stream EXCEPT ![f.slot] = "TERMINATED"]
                             ELSE c_stream
    BY Zenon, <1>11 DEF TrampolineReturn, At, f
  <2>2. CASE Goto(t, "match", f.asked) /\ UNCHANGED c_stream
    BY Zenon, <1>3, <1>4, <1>6, <2>1, <2>2 DEF Pcs, StopOK
  <2>3. CASE Goto(t, "unmark", TRUE) /\ f.op = "scan"
             /\ c_stream' = [c_stream EXCEPT ![f.slot] = "TERMINATED"]
    <3>1. c_stream'[f.slot] = "TERMINATED"
          /\ \A x \in Streams : x # f.slot => c_stream'[x] = c_stream[x]
      BY Zenon, <1>4, <1>5, <2>3
    <3> QED BY Zenon, <1>6, <2>3, <3>1 DEF Pcs
  <2>4. CASE Goto(t, "unmark", TRUE) /\ f.op # "scan" /\ c_stream' = c_stream
    BY Zenon, <1>6, <2>4 DEF Pcs
  <2> QED BY Zenon, <2>1, <2>2, <2>3, <2>4
<1>12. CASE Unmark(t)
  <2>1. PICK code : Return(t, code)
    BY Zenon, <1>12 DEF Unmark
  <2>2. \/ UNCHANGED c_stream
        \/ f.op = "close" /\ c_stream' = [c_stream EXCEPT ![f.slot] = "none"]
    BY Zenon, <1>12 DEF Unmark, f
  <2>3. \A x \in Streams : c_stream'[x] # c_stream[x] => f.op # "block" /\ f.slot = x
    BY Zenon, <1>5, <2>2
  <2> QED BY Zenon, <1>7, <2>1, <2>3
<1> QED BY Zenon, <1>8, <1>9, <1>10, <1>11, <1>12 DEF CallStep

\* So does every other step.
LEMMA StopsNext == IInv /\ Stops /\ [Next]_vars => Stops'
<1> SUFFICES ASSUME IInv, Stops, [Next]_vars PROVE Stops'
  BY Zenon
<1>1. CASE UNCHANGED <<program, calls, c_stream>>
  BY Zenon, <1>1, QuietStops
<1>2. ASSUME NEW t \in Threads, NEW x \in Streams, NEW k \in Scanners, open_stream(t, x, k)
      PROVE  Stops'
  <2>1. UNCHANGED <<program, calls>> /\ c_stream[x] = "none"
        /\ (UNCHANGED c_stream \/ c_stream' = [c_stream EXCEPT ![x] = "open"])
    BY Zenon, <1>2 DEF open_stream
  <2>2. \A y \in Streams : c_stream'[y] # c_stream[y] => c_stream[y] = "none"
    BY Zenon, <2>1 DEF IInv, TypeOK
  <2> QED BY Zenon, <2>1, <2>2, QuietStops
<1>3. ASSUME NEW t \in Threads, NEW op \in {"block", "scan", "close"},
             NEW slot \in Scanners \cup Streams, NEW k \in Scanners, NEW asked \in BOOLEAN,
             Enter(t, op, slot, k, asked), UNCHANGED <<program, c_stream>>,
             op # "block" => ~StreamBusy(slot),
             op = "scan" => (asked <=> c_stream[slot] = "TERMINATED")
      PROVE  Stops'
  <2> DEFINE f == [op |-> op, slot |-> slot, scanner |-> k, pc |-> "test", asked |-> asked]
  <2>1. f \in FrameType /\ StopOK(f) /\ (f.op # "block" => ~StreamBusy(f.slot))
    BY Zenon, <1>3 DEF FrameType, StopOK
  <2>2. Push(t, f)
    BY Zenon, <1>3 DEF Enter, Push
  <2> HIDE DEF f
  <2> QED BY Zenon, <1>3, <2>1, <2>2, EnterStops
<1>4. ASSUME NEW t \in Threads, NEW k \in Scanners, BlockScan(t, k) PROVE Stops'
  <2>1. UNCHANGED <<program, c_stream>> /\ (Enter(t, "block", k, k, FALSE) \/ UNCHANGED calls)
    BY Zenon, <1>4 DEF BlockScan, Values
  <2> QED BY Zenon, <1>1, <1>3, <2>1
<1>5. ASSUME NEW x \in Streams, stream[x] # None PROVE stream[x].scanner \in Scanners
  BY Zenon, <1>5 DEF IInv, TypeOK
<1>6. ASSUME NEW t \in Threads, NEW x \in Streams, StreamScan(t, x) PROVE Stops'
  <2>1. /\ UNCHANGED <<program, c_stream>> /\ stream[x] # None /\ ~StreamBusy(x)
        /\ \/ Enter(t, "scan", x, stream[x].scanner, c_stream[x] = "TERMINATED")
           \/ UNCHANGED calls
    BY Zenon, <1>6 DEF StreamScan, Values
  <2>2. PICK asked \in BOOLEAN : asked = (c_stream[x] = "TERMINATED")
    BY Zenon
  <2>3. Enter(t, "scan", x, stream[x].scanner, asked) \/ UNCHANGED calls
    BY Zenon, <2>1, <2>2
  <2> QED BY Zenon, <1>1, <1>3, <1>5, <2>1, <2>2, <2>3
<1>7. ASSUME NEW t \in Threads, NEW x \in Streams, StreamClose(t, x) PROVE Stops'
  <2>1. /\ UNCHANGED <<program, c_stream>> /\ stream[x] # None /\ ~StreamBusy(x)
        /\ Enter(t, "close", x, stream[x].scanner, FALSE)
    BY Zenon, <1>7 DEF StreamClose
  <2> QED BY Zenon, <1>3, <1>5, <2>1
<1>8. CASE UNCHANGED vars
  BY Zenon, <1>1, <1>8 DEF vars
<1>9. CASE Next
  BY Zenon, <1>1, <1>2, <1>4, <1>6, <1>7, <1>9, CallStops
     DEF Next, DatabaseNew, DatabaseClone, DatabaseDrop, ScannerNew, ScannerClone, ScannerDrop,
         StreamScannerDrop
<1> QED BY Zenon, <1>8, <1>9

\* Once a callback stopped a stream, no later scan or close of it calls back,
\* for any program: also where callbacks scan other streams, or threads share
\* scanners.
THEOREM BindingsStopIsFinal == Spec => []NoCallbackAfterTerminate
<1>1. Init => Stops
  <2> SUFFICES ASSUME Init PROVE Stops
    BY Zenon
  <2>1. \A t \in Threads : Positions(t) = {}
    BY DEF Init, Positions
  <2> QED BY Zenon, <2>1 DEF Stops, BusyOnce
<1>2. Stops => NoCallbackAfterTerminate
  BY DEF Stops, StopOK, NoCallbackAfterTerminate, Frames, Positions
<1> QED BY <1>1, <1>2, InitHolds, NextHolds, StopsNext, PTL DEF Spec

\* Scan::Terminate is returned exactly to the calls that were asked to stop, or
\* whose stream was, for any program.
THEOREM BindingsTerminateIffAsked == Spec => []TerminateIffAsked
<1>1. Init => TerminateIffAsked
  BY DEF Init, TerminateIffAsked
<1>2. ASSUME IInv, TerminateIffAsked, [Next]_vars PROVE TerminateIffAsked'
  <2> USE <1>2
  <2> DEFINE R == [op : {"other", "block", "scan", "close"}, value : Results, asked : BOOLEAN]
             Right(r) == r.op \in {"block", "scan"} /\ r.value # "ScratchInUse"
                           => r.value = (IF r.asked THEN "Terminate" ELSE "Continue")
  <2>1. result \in [Threads -> R] /\ \A t \in Threads : Right(result[t])
    BY Zenon DEF IInv, TypeOK, TerminateIffAsked
  <2>2. program' = program /\ Threads' = Threads
    <3>1. program' = program
      BY ZenonT(30) DEF Next, vars, DatabaseNew, DatabaseClone, DatabaseDrop, ScannerNew, ScannerClone,
             ScannerDrop, open_stream, StreamScannerDrop, BlockScan, StreamScan, StreamClose,
             CallStep, MarkTest, MarkSet, Trampoline, TrampolineReturn, ScanDone, Unmark, Values
    <3> QED BY Zenon, <3>1, SlotsStay
  <2> HIDE DEF R, Right
  <2>3. ASSUME NEW u \in Threads, NEW r, result' = [result EXCEPT ![u] = r], Right(r)
        PROVE  TerminateIffAsked'
    <3>1. \A t \in Threads : Right(result'[t])
      BY Zenon, <2>1, <2>3
    <3> QED BY Zenon, <2>2, <3>1 DEF TerminateIffAsked, Right
  <2>4. CASE UNCHANGED result
    BY Zenon, <2>1, <2>2, <2>4 DEF TerminateIffAsked, Right
  <2>5. ASSUME NEW u \in Threads, NEW v, Give(u, v) PROVE TerminateIffAsked'
    <3>1. Right([op |-> "other", value |-> v, asked |-> FALSE])
      BY Zenon DEF Right
    <3> QED BY Zenon, <2>3, <2>5, <3>1 DEF Give
  <2>6. ASSUME NEW u \in Threads, CallStep(u) PROVE TerminateIffAsked'
    <3>1. CASE UNCHANGED result
      BY Zenon, <2>4, <3>1
    <3>2. ASSUME NEW code, Return(u, code),
                 Right([op |-> Top(u).op, value |-> ScanResult(code), asked |-> Top(u).asked])
          PROVE  TerminateIffAsked'
      BY Zenon, <2>3, <3>2 DEF Return
    <3>3. CASE MarkTest(u)
      <4>1. Right([op |-> Top(u).op, value |-> ScanResult("HS_SCRATCH_IN_USE"),
                   asked |-> Top(u).asked])
        BY Zenon DEF Right, ScanResult, ok, ErrorCode
      <4> QED BY Zenon, <3>1, <3>2, <3>3, <4>1 DEF MarkTest
    <3>4. CASE Unmark(u)
      <4>1. /\ ScanResult("HS_SUCCESS") = "Continue"
            /\ ScanResult("HS_SCAN_TERMINATED") = "Terminate"
        BY Zenon DEF ScanResult, ok, ErrorCode
      <4>2. CASE Top(u).op = "close"
        <5>1. Right([op |-> Top(u).op, value |-> ScanResult("HS_SUCCESS"),
                     asked |-> Top(u).asked])
          BY Zenon, <4>2 DEF Right
        <5> QED BY Zenon, <3>2, <3>4, <4>2, <5>1 DEF Unmark
      <4>3. CASE Top(u).op # "close"
        <5>1. Return(u, IF Top(u).asked THEN "HS_SCAN_TERMINATED" ELSE "HS_SUCCESS")
          BY Zenon, <3>4, <4>3 DEF Unmark
        <5>2. CASE Top(u).asked
          BY Zenon, <3>2, <4>1, <5>1, <5>2 DEF Right
        <5>3. CASE ~Top(u).asked
          BY Zenon, <3>2, <4>1, <5>1, <5>3 DEF Right
        <5> QED BY Zenon, <5>2, <5>3
      <4> QED BY Zenon, <4>2, <4>3
    <3> QED BY Zenon, <2>6, <3>1, <3>3, <3>4
            DEF CallStep, MarkSet, Trampoline, TrampolineReturn, ScanDone
  <2>7. CASE UNCHANGED vars
    BY Zenon, <2>4, <2>7 DEF vars
  <2>8. CASE Next
    BY ZenonT(30), <2>4, <2>5, <2>6, <2>8
       DEF Next, DatabaseNew, DatabaseClone, DatabaseDrop, ScannerNew, ScannerClone, ScannerDrop,
           open_stream, StreamScannerDrop, BlockScan, StreamScan, StreamClose
  <2> QED BY Zenon, <2>7, <2>8
<1>3. IInv /\ TerminateIffAsked /\ [Next]_vars => TerminateIffAsked'
  BY Zenon, <1>2
<1> QED BY <1>1, <1>3, InitHolds, NextHolds, PTL DEF Spec

-----------------------------------------------------------------------------
(* The in_use bytes, where each thread keeps to scanners of its own.       *)

\* "A separate scratch region ... is required for every concurrent caller": no
\* scanner is used from two threads.
KeepToOwn ==
    \A p \in Programs : \A t, u \in p.threads :
        t # u => p.mayUse[t] \cap p.mayUse[u] = {}

\* The call holds its scratch: it is past the mark and not past the unmark.
Holder(t, i) == calls[t][i].pc \in {"match", "callback", "unmark"}

\* A thread's streams, and its calls, use its scanners.
Owned ==
    /\ \A x \in Streams : stream[x] # None => stream[x].scanner \in MayUse[stream[x].owner]
    /\ \A t \in Threads : \A i \in Positions(t) : calls[t][i].scanner \in MayUse[t]

\* Of the calls of a thread all but the innermost are in their callbacks.
Stacked ==
    \A t \in Threads :
        /\ Len(calls[t]) =< MaxDepth
        /\ \A i \in Positions(t) : i # Len(calls[t]) => calls[t][i].pc = "callback"

\* The mark is set exactly if the scratch is held, and it is still clear when
\* a call is about to set it.
Marks ==
    /\ \A t \in Threads : \A i \in Positions(t) :
          /\ calls[t][i].pc = "mark" => ~in_use[calls[t][i].scanner]
          /\ Holder(t, i) => in_use[calls[t][i].scanner]
    /\ \A k \in Scanners : in_use[k] =>
          \E t \in Threads : \E i \in Positions(t) : Holder(t, i) /\ calls[t][i].scanner = k

\* A scratch is held by one call.
HeldOnce ==
    \A t, u \in Threads : \A i \in Positions(t), j \in Positions(u) :
        Holder(t, i) /\ Holder(u, j) /\ calls[t][i].scanner = calls[u][j].scanner
            => t = u /\ i = j

\* What every step keeps, besides IInv.
JInv == Owned /\ Stacked /\ Marks /\ HeldOnce /\ DropNeverPanics

\* Marks of the next state.
LEMMA MarksAfter ==
    ASSUME program' = program,
           \A u \in Threads : \A i \in 1 .. Len(calls'[u]) :
              /\ calls'[u][i].pc = "mark" => ~in_use'[calls'[u][i].scanner]
              /\ calls'[u][i].pc \in {"match", "callback", "unmark"}
                    => in_use'[calls'[u][i].scanner],
           \A k \in Scanners : in_use'[k] =>
              \E u \in Threads : \E i \in 1 .. Len(calls'[u]) :
                 calls'[u][i].pc \in {"match", "callback", "unmark"}
                 /\ calls'[u][i].scanner = k
    PROVE  Marks'
<1>1. Threads' = Threads /\ Scanners' = Scanners
  BY Zenon, SlotsStay
<1> QED BY Zenon, <1>1 DEF Marks, Holder, Positions

\* A call's scanner is allocated.
LEMMA ScannerOfCall ==
    ASSUME IInv, NEW t \in Threads, NEW i \in Positions(t)
    PROVE  /\ calls[t][i] \in FrameType /\ Sound(calls[t][i])
           /\ calls[t][i].scanner \in Scanners /\ scanner[calls[t][i].scanner] # None
<1>1. calls[t][i] \in FrameType /\ Sound(calls[t][i])
  BY DEF IInv, TypeOK, AllSound, Positions
<1>2. calls[t][i].scanner \in Scanners /\ calls[t][i].op \in {"block", "scan", "close"}
  BY Zenon, <1>1 DEF FrameType
<1> QED BY Zenon, <1>1, <1>2 DEF IInv, Lives, Sound

\* Steps that leave the calls alone, and clear no mark but that of a new scratch.
LEMMA QuietStep ==
    ASSUME IInv, JInv, UNCHANGED <<program, calls>>,
           \/ UNCHANGED in_use
           \/ \E k \in Scanners : scanner[k] = None /\ in_use' = [in_use EXCEPT ![k] = FALSE],
           \A x \in Streams : stream'[x] # None =>
              stream'[x] = stream[x] \/ stream'[x].scanner \in MayUse[stream'[x].owner],
           DropNeverPanics'
    PROVE  JInv'
<1>1. /\ Threads' = Threads /\ Scanners' = Scanners /\ Streams' = Streams
      /\ MayUse' = MayUse /\ MaxDepth' = MaxDepth
  BY Zenon, SlotsStay
<1>2. \A t \in Threads : \A i \in Positions(t) :
        calls[t][i].scanner \in Scanners /\ scanner[calls[t][i].scanner] # None
  BY Zenon, ScannerOfCall
<1>3. in_use \in [Scanners -> BOOLEAN]
  BY Zenon DEF IInv, TypeOK
<1>4. /\ \A k \in Scanners : scanner[k] # None => in_use'[k] = in_use[k]
      /\ \A k \in Scanners : in_use'[k] => in_use[k]
  BY Zenon, <1>3
<1>5. Marks'
  BY <1>1, <1>2, <1>4 DEF JInv, Marks, Holder, Positions
<1>6. Owned'
  BY Zenon, <1>1 DEF JInv, Owned, Positions
<1> QED BY <1>1, <1>5, <1>6 DEF JInv, Stacked, HeldOnce, Holder, Positions

\* A method is entered: the call has not looked at the mark.
LEMMA EnterStep ==
    ASSUME IInv, JInv, UNCHANGED <<program, in_use, result>>, NEW t \in Threads,
           NEW f \in FrameType, Push(t, f), f.pc = "test", f.scanner \in MayUse[t],
           CanCall(t),
           \A x \in Streams : stream'[x] # None => stream'[x] = stream[x]
    PROVE  JInv'
<1>1. /\ Threads' = Threads /\ Scanners' = Scanners /\ Streams' = Streams
      /\ MayUse' = MayUse /\ MaxDepth' = MaxDepth
  BY Zenon, SlotsStay
<1>2. CallTypes
  BY Zenon DEF IInv, TypeOK, CallTypes
<1>3. \A u \in Threads :
        /\ Len(calls'[u]) = IF u = t THEN Len(calls[t]) + 1 ELSE Len(calls[u])
        /\ \A i \in 1 .. Len(calls'[u]) :
              \/ i \in Positions(u) /\ calls'[u][i] = calls[u][i]
              \/ u = t /\ i = Len(calls[t]) + 1 /\ calls'[u][i] = f
  BY Zenon, <1>2, EnterKeeps
<1>4. \A u \in Threads : Len(calls[u]) \in Nat
  BY <1>2 DEF CallTypes
<1>5. MaxDepth \in Nat
  BY Zenon, BindingsAssumption DEF IInv, MaxDepth
<1>6. Owned'
  BY Zenon, <1>1, <1>3 DEF JInv, Owned, Positions
<1>7. Stacked'
  <2>1. \A i \in Positions(t) : calls[t][i].pc = "callback"
    <3>1. calls[t] # <<>> => calls[t][Len(calls[t])].pc = "callback"
      BY Zenon DEF CanCall, Running, Top
    <3>2. \A i \in Positions(t) : calls[t] # <<>>
      BY DEF Positions
    <3> QED BY Zenon, <3>1, <3>2 DEF JInv, Stacked
  <2>2. Len(calls[t]) < MaxDepth
    BY Zenon DEF CanCall
  <2> SUFFICES ASSUME NEW u \in Threads
               PROVE  /\ Len(calls'[u]) =< MaxDepth
                      /\ \A i \in 1 .. Len(calls'[u]) :
                            i # Len(calls'[u]) => calls'[u][i].pc = "callback"
    BY Zenon, <1>1 DEF Stacked, Positions
  <2>3. CASE u = t
    BY <1>3, <1>4, <1>5, <2>1, <2>2, <2>3
  <2>4. CASE u # t
    BY Zenon, <1>3, <2>4 DEF JInv, Stacked
  <2> QED BY Zenon, <2>3, <2>4
<1>8. \A u \in Threads : \A i \in Positions(u) :
        i \in 1 .. Len(calls'[u]) /\ calls'[u][i] = calls[u][i]
  BY <1>3, <1>4 DEF Positions
<1>9. \A u \in Threads : \A i \in 1 .. Len(calls'[u]) :
        calls'[u][i].pc # "test" => i \in Positions(u) /\ calls'[u][i] = calls[u][i]
  BY Zenon, <1>3
<1>10. Marks'
  <2>1. ASSUME NEW u \in Threads, NEW i \in 1 .. Len(calls'[u])
        PROVE  /\ calls'[u][i].pc = "mark" => ~in_use[calls'[u][i].scanner]
               /\ calls'[u][i].pc \in {"match", "callback", "unmark"}
                     => in_use[calls'[u][i].scanner]
    BY <1>9 DEF JInv, Marks, Holder
  <2>2. ASSUME NEW k \in Scanners, in_use[k]
        PROVE  \E u \in Threads : \E i \in 1 .. Len(calls'[u]) :
                  calls'[u][i].pc \in {"match", "callback", "unmark"} /\ calls'[u][i].scanner = k
    BY <1>8, <2>2 DEF JInv, Marks, Holder
  <2> QED BY Zenon, <2>1, <2>2, MarksAfter
<1>11. HeldOnce'
  <2> SUFFICES ASSUME NEW u \in Threads, NEW v \in Threads,
                      NEW i \in 1 .. Len(calls'[u]), NEW j \in 1 .. Len(calls'[v]),
                      calls'[u][i].pc \in {"match", "callback", "unmark"},
                      calls'[v][j].pc \in {"match", "callback", "unmark"},
                      calls'[u][i].scanner = calls'[v][j].scanner
               PROVE  u = v /\ i = j
    BY <1>1 DEF HeldOnce, Holder, Positions
  <2>1. /\ i \in Positions(u) /\ calls'[u][i] = calls[u][i]
        /\ j \in Positions(v) /\ calls'[v][j] = calls[v][j]
    BY Zenon, <1>9
  <2> QED BY <2>1 DEF JInv, HeldOnce, Holder
<1>12. DropNeverPanics'
  BY Zenon, <1>1 DEF JInv, DropNeverPanics
<1> QED BY Zenon, <1>6, <1>7, <1>10, <1>11, <1>12 DEF JInv

\* What a step of a thread's innermost call does to the calls.
Stepped(t, pc) ==
    LET n == Len(calls[t])
    IN  /\ \A u \in Threads : Len(calls'[u]) = Len(calls[u])
        /\ \A u \in Threads : \A i \in Positions(u) :
              u # t \/ i # n => calls'[u][i] = calls[u][i]
        /\ calls'[t][n].scanner = calls[t][n].scanner /\ calls'[t][n].pc = pc

\* Goto is such a step.
LEMMA GotoSteps ==
    ASSUME IInv, NEW t \in Threads, calls[t] # <<>>,
           NEW pc \in Pcs, NEW asked \in BOOLEAN, Goto(t, pc, asked)
    PROVE  Stepped(t, pc)
<1> DEFINE n == Len(calls[t])
<1>1. CallTypes
  BY Zenon DEF IInv, TypeOK, CallTypes
<1>2. \A u \in Threads :
        /\ Len(calls'[u]) = Len(calls[u])
        /\ \A i \in Positions(u) :
              calls'[u][i] = IF u = t /\ i = Len(calls[t])
                             THEN Moved(calls[u][i], pc, asked)
                             ELSE calls[u][i]
  BY <1>1, GotoKeeps
<1>3. n \in Positions(t) /\ calls[t][n] \in FrameType
  BY Zenon, <1>1, TopType DEF Top
<1>4. \A g \in FrameType : Moved(g, pc, asked).scanner = g.scanner /\ Moved(g, pc, asked).pc = pc
  BY Zenon DEF FrameType, Moved
<1> QED BY Zenon, <1>2, <1>3, <1>4 DEF Stepped

\* It starts and ends no call.
LEMMA SteppedPositions ==
    ASSUME NEW t \in Threads, NEW pc, Stepped(t, pc)
    PROVE  \A u \in Threads : 1 .. Len(calls'[u]) = Positions(u)
BY Zenon DEF Stepped, Positions

\* Where each call is, before and after.
LEMMA SteppedCalls ==
    ASSUME IInv, JInv, UNCHANGED <<program, stream>>, NEW t \in Threads, calls[t] # <<>>,
           NEW pc, Stepped(t, pc)
    PROVE  Owned' /\ Stacked'
<1> DEFINE n == Len(calls[t])
<1>1. /\ Threads' = Threads /\ Scanners' = Scanners /\ Streams' = Streams
      /\ MayUse' = MayUse /\ MaxDepth' = MaxDepth
  BY Zenon, SlotsStay
<1>2. n \in Positions(t)
  BY Zenon, TopType DEF IInv, TypeOK, CallTypes
<1>3. \A u \in Threads : \A i \in Positions(u) : calls'[u][i].scanner = calls[u][i].scanner
  BY Zenon DEF Stepped
<1>4. Owned'
  BY <1>1, <1>3 DEF JInv, Owned, Stepped, Positions
<1>5. Stacked'
  BY <1>1 DEF JInv, Stacked, Stepped, Positions
<1> QED BY Zenon, <1>4, <1>5

\* The innermost call saw a clear mark.
LEMMA TestedStep ==
    ASSUME IInv, JInv, UNCHANGED <<program, stream, in_use, result>>,
           NEW t \in Threads, calls[t] # <<>>, Top(t).pc = "test",
           Stepped(t, "mark"), ~in_use[Top(t).scanner]
    PROVE  JInv'
<1> DEFINE n == Len(calls[t])
<1>1. /\ Threads' = Threads /\ Scanners' = Scanners /\ MaxDepth' = MaxDepth
  BY Zenon, SlotsStay
<1>2. n \in Positions(t) /\ calls[t][n].pc = "test" /\ ~in_use[calls[t][n].scanner]
  BY Zenon, TopType DEF IInv, TypeOK, CallTypes, Top
<1>3. Marks'
  <2>1. ASSUME NEW u \in Threads, NEW i \in Positions(u)
        PROVE  /\ calls'[u][i].pc = "mark" => ~in_use[calls'[u][i].scanner]
               /\ calls'[u][i].pc \in {"match", "callback", "unmark"}
                     => in_use[calls'[u][i].scanner]
    <3>1. CASE u = t /\ i = n
      BY Zenon, <1>2, <3>1 DEF Stepped
    <3>2. CASE u # t \/ i # n
      BY <3>2 DEF Stepped, JInv, Marks, Holder
    <3> QED BY Zenon, <3>1, <3>2
  <2>2. ASSUME NEW k \in Scanners, in_use[k]
        PROVE  \E u \in Threads : \E i \in Positions(u) :
                  calls'[u][i].pc \in {"match", "callback", "unmark"} /\ calls'[u][i].scanner = k
    <3>1. PICK u \in Threads : \E i \in Positions(u) : Holder(u, i) /\ calls[u][i].scanner = k
      BY Zenon, <2>2 DEF JInv, Marks
    <3>2. PICK i \in Positions(u) : Holder(u, i) /\ calls[u][i].scanner = k
      BY Zenon, <3>1
    <3>3. u # t \/ i # n
      BY Zenon, <1>2, <3>2 DEF Holder
    <3> QED BY Zenon, <3>2, <3>3 DEF Stepped, Holder
  <2> QED BY <2>1, <2>2, SteppedPositions, MarksAfter
<1>4. HeldOnce'
  <2> SUFFICES ASSUME NEW u \in Threads, NEW v \in Threads,
                      NEW i \in Positions(u), NEW j \in Positions(v),
                      calls'[u][i].pc \in {"match", "callback", "unmark"},
                      calls'[v][j].pc \in {"match", "callback", "unmark"},
                      calls'[u][i].scanner = calls'[v][j].scanner
               PROVE  u = v /\ i = j
    BY <1>1 DEF HeldOnce, Holder, Positions, Stepped
  <2>1. calls'[u][i] = calls[u][i] /\ calls'[v][j] = calls[v][j]
    BY Zenon DEF Stepped
  <2> QED BY <2>1 DEF JInv, HeldOnce, Holder
<1>5. DropNeverPanics'
  BY Zenon, <1>1 DEF JInv, DropNeverPanics
<1> QED BY Zenon, <1>3, <1>4, <1>5, SteppedCalls DEF JInv

\* The innermost call sets the mark, which no other call can have set since it
\* was seen clear: the thread's other calls are in callbacks, and other threads
\* have other scanners.
LEMMA MarkedStep ==
    ASSUME KeepToOwn, IInv, JInv, UNCHANGED <<program, stream, result>>,
           NEW t \in Threads, calls[t] # <<>>, Top(t).pc = "mark",
           in_use' = [in_use EXCEPT ![Top(t).scanner] = TRUE],
           NEW pc \in {"match", "unmark"}, Stepped(t, pc)
    PROVE  JInv'
<1> DEFINE n == Len(calls[t])
           c == calls[t][n].scanner
<1>1. /\ Threads' = Threads /\ Scanners' = Scanners /\ MaxDepth' = MaxDepth
  BY Zenon, SlotsStay
<1>2. n \in Positions(t) /\ calls[t][n].pc = "mark" /\ Top(t) = calls[t][n]
  BY Zenon, TopType DEF IInv, TypeOK, CallTypes
<1>3. c \in Scanners /\ in_use \in [Scanners -> BOOLEAN]
  BY Zenon, <1>2, ScannerOfCall DEF IInv, TypeOK
<1>4. ~in_use[c]
  BY Zenon, <1>2 DEF JInv, Marks
<1>5. in_use'[c] = TRUE /\ \A k \in Scanners : k # c => in_use'[k] = in_use[k]
  BY Zenon, <1>2, <1>3
<1>6. ASSUME NEW u \in Threads, NEW i \in Positions(u), u # t \/ i # n,
             calls[u][i].scanner = c
      PROVE  calls[u][i].pc \notin {"mark", "match", "callback", "unmark"}
  <2>1. ~Holder(u, i)
    BY Zenon, <1>4, <1>6 DEF JInv, Marks
  <2>2. CASE u = t
    <3>1. Holder(u, i)
      BY Zenon, <1>6, <2>2 DEF JInv, Stacked, Holder
    <3> QED BY Zenon, <2>1, <3>1
  <2>3. CASE u # t
    <3>1. c \in MayUse[t] /\ c \in MayUse[u]
      BY Zenon, <1>2, <1>6 DEF JInv, Owned
    <3>2. program \in Programs
      BY Zenon DEF IInv
    <3> QED BY Zenon, <2>3, <3>1, <3>2 DEF KeepToOwn, MayUse, Threads
  <2> QED BY Zenon, <2>1, <2>2, <2>3 DEF Holder
<1>7. \A u \in Threads : \A i \in Positions(u) : calls[u][i].scanner \in Scanners
  BY Zenon, ScannerOfCall
<1>8. calls'[t][n].scanner = c /\ calls'[t][n].pc = pc
  BY Zenon DEF Stepped
<1> HIDE DEF c
<1>9. ASSUME NEW u \in Threads, NEW i \in Positions(u)
      PROVE  /\ calls'[u][i].pc = "mark" => ~in_use'[calls'[u][i].scanner]
             /\ calls'[u][i].pc \in {"match", "callback", "unmark"}
                   => in_use'[calls'[u][i].scanner]
  <2>1. CASE u = t /\ i = n
    BY Zenon, <1>5, <1>8, <2>1
  <2>2. CASE u # t \/ i # n
    <3>1. calls'[u][i] = calls[u][i]
      BY Zenon, <2>2 DEF Stepped
    <3>2. CASE calls[u][i].scanner = c
      BY Zenon, <1>6, <2>2, <3>1, <3>2
    <3>3. CASE calls[u][i].scanner # c
      <4>1. in_use'[calls[u][i].scanner] = in_use[calls[u][i].scanner]
        BY Zenon, <1>5, <1>7, <3>3
      <4>2. /\ calls[u][i].pc = "mark" => ~in_use[calls[u][i].scanner]
            /\ calls[u][i].pc \in {"match", "callback", "unmark"}
                  => in_use[calls[u][i].scanner]
        BY Zenon DEF JInv, Marks, Holder
      <4> QED BY <3>1, <4>1, <4>2, Zenon
    <3> QED BY Zenon, <3>2, <3>3
  <2> QED BY Zenon, <2>1, <2>2
<1>10. ASSUME NEW k \in Scanners, in_use'[k]
       PROVE  \E u \in Threads : \E i \in Positions(u) :
                  calls'[u][i].pc \in {"match", "callback", "unmark"} /\ calls'[u][i].scanner = k
  <2>1. CASE k = c
    BY Zenon, <1>2, <1>8, <2>1
  <2>2. CASE k # c
    <3>1. in_use[k]
      BY Zenon, <1>5, <1>10, <2>2
    <3>2. PICK u \in Threads : \E i \in Positions(u) : Holder(u, i) /\ calls[u][i].scanner = k
      BY Zenon, <3>1 DEF JInv, Marks
    <3>3. PICK i \in Positions(u) : Holder(u, i) /\ calls[u][i].scanner = k
      BY Zenon, <3>2
    <3>4. u # t \/ i # n
      BY Zenon, <1>2, <3>3 DEF Holder
    <3> QED BY Zenon, <3>3, <3>4 DEF Stepped, Holder
  <2> QED BY Zenon, <2>1, <2>2
<1>11. Marks'
  BY <1>9, <1>10, SteppedPositions, MarksAfter
<1>12. HeldOnce'
  <2> SUFFICES ASSUME NEW u \in Threads, NEW v \in Threads,
                      NEW i \in Positions(u), NEW j \in Positions(v),
                      calls'[u][i].pc \in {"match", "callback", "unmark"},
                      calls'[v][j].pc \in {"match", "callback", "unmark"},
                      calls'[u][i].scanner = calls'[v][j].scanner
               PROVE  u = v /\ i = j
    BY <1>1 DEF HeldOnce, Holder, Positions, Stepped
  <2>1. \A w \in Threads : \A m \in Positions(w) :
          calls'[w][m].pc \in {"match", "callback", "unmark"} /\ calls'[w][m].scanner = c
             => w = t /\ m = n
    BY <1>6 DEF Stepped
  <2>2. CASE calls'[u][i].scanner = c
    BY Zenon, <2>1, <2>2
  <2>3. CASE calls'[u][i].scanner # c
    <3>1. calls'[u][i] = calls[u][i] /\ calls'[v][j] = calls[v][j]
      BY Zenon, <1>8, <2>3 DEF Stepped
    <3> QED BY <3>1 DEF JInv, HeldOnce, Holder
  <2> QED BY Zenon, <2>2, <2>3
<1>13. DropNeverPanics'
  BY Zenon, <1>1 DEF JInv, DropNeverPanics
<1> QED BY Zenon, <1>11, <1>12, <1>13, SteppedCalls DEF JInv

\* The innermost call goes on, holding its scratch.
LEMMA HoldingStep ==
    ASSUME IInv, JInv, UNCHANGED <<program, stream, in_use, result>>,
           NEW t \in Threads, calls[t] # <<>>,
           Top(t).pc \in {"match", "callback", "unmark"},
           NEW pc \in {"match", "callback", "unmark"}, Stepped(t, pc)
    PROVE  JInv'
<1> DEFINE n == Len(calls[t])
<1>1. /\ Threads' = Threads /\ Scanners' = Scanners /\ MaxDepth' = MaxDepth
  BY Zenon, SlotsStay
<1>2. n \in Positions(t) /\ Top(t) = calls[t][n] /\ Holder(t, n)
  BY Zenon, TopType DEF IInv, TypeOK, CallTypes, Holder
<1>3. \A u \in Threads : \A i \in Positions(u) :
        /\ calls'[u][i].scanner = calls[u][i].scanner
        /\ calls'[u][i].pc = "mark" => calls[u][i].pc = "mark"
        /\ calls'[u][i].pc \in {"match", "callback", "unmark"} <=> Holder(u, i)
  BY Zenon, <1>2 DEF Stepped, Holder
<1>4. Marks'
  <2>1. \A u \in Threads : \A i \in Positions(u) :
          /\ calls'[u][i].pc = "mark" => ~in_use[calls'[u][i].scanner]
          /\ calls'[u][i].pc \in {"match", "callback", "unmark"}
                => in_use[calls'[u][i].scanner]
    BY <1>3 DEF JInv, Marks
  <2>2. \A k \in Scanners : in_use[k] =>
          \E u \in Threads : \E i \in Positions(u) :
              calls'[u][i].pc \in {"match", "callback", "unmark"} /\ calls'[u][i].scanner = k
    BY <1>3 DEF JInv, Marks
  <2> QED BY <2>1, <2>2, SteppedPositions, MarksAfter
<1>5. HeldOnce'
  <2> SUFFICES ASSUME NEW u \in Threads, NEW v \in Threads,
                      NEW i \in Positions(u), NEW j \in Positions(v),
                      calls'[u][i].pc \in {"match", "callback", "unmark"},
                      calls'[v][j].pc \in {"match", "callback", "unmark"},
                      calls'[u][i].scanner = calls'[v][j].scanner
               PROVE  u = v /\ i = j
    BY <1>1 DEF HeldOnce, Holder, Positions, Stepped
  <2> QED BY <1>3 DEF JInv, HeldOnce
<1>6. DropNeverPanics'
  BY Zenon, <1>1 DEF JInv, DropNeverPanics
<1> QED BY Zenon, <1>4, <1>5, <1>6, SteppedCalls DEF JInv

\* The innermost call returns: refused, or having cleared its mark.
LEMMA LeavingStep ==
    ASSUME IInv, JInv, UNCHANGED <<program, stream>>,
           NEW t \in Threads, calls[t] # <<>>,
           NEW code \in {"HS_SUCCESS", "HS_SCAN_TERMINATED", "HS_SCRATCH_IN_USE"},
           Return(t, code),
           \/ Top(t).pc = "test" /\ UNCHANGED in_use
           \/ Top(t).pc = "unmark" /\ in_use' = [in_use EXCEPT ![Top(t).scanner] = FALSE]
    PROVE  JInv'
<1> DEFINE n == Len(calls[t])
           c == calls[t][n].scanner
<1>1. /\ Threads' = Threads /\ Scanners' = Scanners /\ MaxDepth' = MaxDepth
      /\ MayUse' = MayUse /\ Streams' = Streams
  BY Zenon, SlotsStay
<1>2. CallTypes
  BY Zenon DEF IInv, TypeOK, CallTypes
<1>3. n \in Positions(t) /\ n \in Nat /\ Top(t) = calls[t][n]
  BY Zenon, <1>2, TopType
<1>4. \A u \in Threads :
        /\ Len(calls'[u]) = IF u = t THEN Len(calls[t]) - 1 ELSE Len(calls[u])
        /\ \A i \in 1 .. Len(calls'[u]) : i \in Positions(u) /\ calls'[u][i] = calls[u][i]
  BY Zenon, <1>2, ReturnKeeps
<1>5. \A u \in Threads : Len(calls[u]) \in Nat
  BY <1>2 DEF CallTypes
<1>6. \A u \in Threads : \A i \in 1 .. Len(calls'[u]) : u # t \/ i # n
  BY <1>3, <1>4
<1>7. \A u \in Threads : \A i \in Positions(u) : u # t \/ i # n => i \in 1 .. Len(calls'[u])
  BY <1>4, <1>5 DEF Positions
<1>8. c \in Scanners /\ in_use \in [Scanners -> BOOLEAN]
  BY Zenon, <1>3, ScannerOfCall DEF IInv, TypeOK
<1>9. Owned'
  BY Zenon, <1>1, <1>4 DEF JInv, Owned, Positions
<1>10. Stacked'
  <2>1. MaxDepth \in Nat
    BY Zenon, BindingsAssumption DEF IInv, MaxDepth
  <2> SUFFICES ASSUME NEW u \in Threads
               PROVE  /\ Len(calls'[u]) =< MaxDepth
                      /\ \A i \in 1 .. Len(calls'[u]) :
                            i # Len(calls'[u]) => calls'[u][i].pc = "callback"
    BY Zenon, <1>1 DEF Stacked, Positions
  <2>2. Len(calls[u]) =< MaxDepth
        /\ \A i \in Positions(u) : i # Len(calls[u]) => calls[u][i].pc = "callback"
    BY Zenon DEF JInv, Stacked
  <2>3. CASE u = t
    <3>1. Len(calls'[t]) = Len(calls[t]) - 1 /\ Len(calls[t]) \in Nat
      BY Zenon, <1>4, <1>5
    <3>2. \A i \in 1 .. Len(calls'[t]) :
            i \in Positions(t) /\ i # Len(calls[t]) /\ calls'[t][i] = calls[t][i]
      BY <1>4, <3>1
    <3> QED BY <2>1, <2>2, <2>3, <3>1, <3>2
  <2>4. CASE u # t
    BY Zenon, <1>4, <2>2, <2>4
  <2> QED BY Zenon, <2>3, <2>4
<1>11. \A u \in Threads : \A i \in Positions(u) :
         (u # t \/ i # n) /\ Holder(u, i) /\ calls[u][i].scanner = c => Top(t).pc # "unmark"
  BY <1>3 DEF JInv, HeldOnce, Holder
<1>12. \A u \in Threads : \A i \in Positions(u) : calls[u][i].scanner \in Scanners
  BY Zenon, ScannerOfCall
<1>13. /\ \A k \in Scanners : k # c => in_use'[k] = in_use[k]
       /\ in_use'[c] => in_use[c] /\ Top(t).pc = "test"
       /\ Top(t).pc # "unmark" => in_use'[c] = in_use[c]
  BY Zenon, <1>3, <1>8
<1> HIDE DEF c
<1>14. ASSUME NEW u \in Threads, NEW i \in 1 .. Len(calls'[u])
       PROVE  /\ calls'[u][i].pc = "mark" => ~in_use'[calls'[u][i].scanner]
              /\ calls'[u][i].pc \in {"match", "callback", "unmark"}
                    => in_use'[calls'[u][i].scanner]
  <2>1. i \in Positions(u) /\ calls'[u][i] = calls[u][i] /\ (u # t \/ i # n)
    BY Zenon, <1>4, <1>6
  <2>2. /\ calls[u][i].pc = "mark" => ~in_use[calls[u][i].scanner]
        /\ calls[u][i].pc \in {"match", "callback", "unmark"}
              => in_use[calls[u][i].scanner]
    BY Zenon, <2>1 DEF JInv, Marks, Holder
  <2>3. calls[u][i].scanner \in Scanners
    BY Zenon, <1>12, <2>1
  <2>4. calls[u][i].pc = "mark" => ~in_use'[calls[u][i].scanner]
    BY Zenon, <1>13, <2>2, <2>3
  <2>5. ASSUME Holder(u, i) PROVE in_use'[calls[u][i].scanner]
    <3>1. in_use[calls[u][i].scanner]
      BY Zenon, <2>2, <2>5 DEF Holder
    <3>2. calls[u][i].scanner = c => Top(t).pc # "unmark"
      BY Zenon, <1>11, <2>1, <2>5
    <3> QED BY Zenon, <1>13, <2>3, <3>1, <3>2
  <2> QED BY Zenon, <2>1, <2>4, <2>5 DEF Holder
<1>15. ASSUME NEW k \in Scanners, in_use'[k]
       PROVE  \E u \in Threads : \E i \in 1 .. Len(calls'[u]) :
                  calls'[u][i].pc \in {"match", "callback", "unmark"} /\ calls'[u][i].scanner = k
  <2>1. in_use[k] /\ (k = c => Top(t).pc = "test")
    BY Zenon, <1>13, <1>15
  <2>2. PICK u \in Threads : \E i \in Positions(u) : Holder(u, i) /\ calls[u][i].scanner = k
    BY Zenon, <2>1 DEF JInv, Marks
  <2>3. PICK i \in Positions(u) : Holder(u, i) /\ calls[u][i].scanner = k
    BY Zenon, <2>2
  <2>4. u # t \/ i # n
    BY Zenon, <1>3, <2>1, <2>3 DEF Holder, c
  <2>5. i \in 1 .. Len(calls'[u])
    BY Zenon, <1>7, <2>4
  <2> QED BY Zenon, <1>4, <2>3, <2>5 DEF Holder
<1>16. Marks'
  BY Zenon, <1>14, <1>15, MarksAfter
<1>17. HeldOnce'
  <2> SUFFICES ASSUME NEW u \in Threads, NEW v \in Threads,
                      NEW i \in 1 .. Len(calls'[u]), NEW j \in 1 .. Len(calls'[v]),
                      calls'[u][i].pc \in {"match", "callback", "unmark"},
                      calls'[v][j].pc \in {"match", "callback", "unmark"},
                      calls'[u][i].scanner = calls'[v][j].scanner
               PROVE  u = v /\ i = j
    BY <1>1 DEF HeldOnce, Holder, Positions
  <2>1. /\ i \in Positions(u) /\ calls'[u][i] = calls[u][i]
        /\ j \in Positions(v) /\ calls'[v][j] = calls[v][j]
    BY Zenon, <1>4
  <2> QED BY <2>1 DEF JInv, HeldOnce, Holder
<1>18. DropNeverPanics'
  <2>1. ScanResult(code) # "panic"
    BY DEF ScanResult, ok, ErrorCode
  <2>2. result \in [Threads -> [op : {"other", "block", "scan", "close"},
                                value : Results, asked : BOOLEAN]]
    BY Zenon DEF IInv, TypeOK
  <2>3. \A u \in Threads : result'[u].value =
            IF u = t THEN ScanResult(code) ELSE result[u].value
    BY Zenon, <2>2 DEF Return
  <2> QED BY Zenon, <1>1, <2>1, <2>3 DEF JInv, DropNeverPanics
<1> QED BY Zenon, <1>9, <1>10, <1>16, <1>17, <1>18 DEF JInv

\* No Result but that of scratch_drop is a panic.
LEMMA GivesNoPanic ==
    ASSUME IInv, JInv, UNCHANGED program, NEW t \in Threads, NEW value,
           value # "panic", Give(t, value) \/ UNCHANGED result
    PROVE  DropNeverPanics'
<1>1. Threads' = Threads
  BY Zenon, SlotsStay
<1>2. \A u \in Threads : result'[u].value = result[u].value \/ result'[u].value = value
  <2> DEFINE r == [op |-> "other", value |-> value, asked |-> FALSE]
  <2>1. r.value = value
    BY Zenon
  <2>2. result' = [result EXCEPT ![t] = r] \/ UNCHANGED result
    BY Zenon DEF Give
  <2> HIDE DEF r
  <2>3. \A u \in Threads : result'[u] = result[u] \/ result'[u] = r
    BY Zenon, <2>2 DEF IInv, TypeOK
  <2> QED BY Zenon, <2>1, <2>3
<1> QED BY Zenon, <1>1, <1>2 DEF JInv, DropNeverPanics

\* Databases, new scanners and dropped streams leave the marks alone.
LEMMA ValueSteps ==
    ASSUME IInv, JInv, NEW t \in Threads,
           \/ \E d \in Databases, m \in {"BLOCK", "STREAM"} : DatabaseNew(t, d, m)
           \/ \E d, e \in Databases : DatabaseClone(t, d, e)
           \/ \E d \in Databases : DatabaseDrop(t, d)
           \/ \E k \in Scanners, d \in Databases : ScannerNew(t, k, d)
           \/ \E k, l \in Scanners : ScannerClone(t, k, l)
           \/ \E x \in Streams : StreamScannerDrop(t, x)
    PROVE  JInv'
<1>1. UNCHANGED <<program, calls>>
  BY Zenon DEF DatabaseNew, DatabaseClone, DatabaseDrop, ScannerNew, ScannerClone, StreamScannerDrop
<1>2. \/ UNCHANGED in_use
      \/ \E k \in Scanners : scanner[k] = None /\ in_use' = [in_use EXCEPT ![k] = FALSE]
  BY Zenon DEF DatabaseNew, DatabaseClone, DatabaseDrop, ScannerNew, ScannerClone, StreamScannerDrop
<1>3. \A x \in Streams : stream'[x] # None => stream'[x] = stream[x]
  BY Zenon DEF IInv, TypeOK, DatabaseNew, DatabaseClone, DatabaseDrop, ScannerNew, ScannerClone,
         StreamScannerDrop
<1>4. \/ UNCHANGED result
      \/ \E value \in {"Ok", "Nul", "InputTooLarge", "HyperscanCompile", ok("HS_NOMEM")} :
            Give(t, value)
  BY Zenon DEF DatabaseNew, DatabaseClone, DatabaseDrop, ScannerNew, ScannerClone, StreamScannerDrop
<1>5. ok("HS_NOMEM") # "panic"
  BY Zenon DEF ok, ErrorCode
<1>6. DropNeverPanics'
  BY <1>1, <1>4, <1>5, GivesNoPanic
<1> QED BY Zenon, <1>1, <1>2, <1>3, <1>6, QuietStep

\* A scanner that may be dropped is in no call, so its mark is clear.
LEMMA DropStep ==
    ASSUME IInv, JInv, NEW t \in Threads, NEW k \in Scanners, ScannerDrop(t, k)
    PROVE  JInv'
<1>1. UNCHANGED <<program, calls, in_use, stream>>
  BY Zenon DEF ScannerDrop
<1>2. ~in_use[k]
  <2> SUFFICES ASSUME in_use[k] PROVE FALSE
    BY Zenon
  <2>1. PICK u \in Threads : \E i \in Positions(u) : Holder(u, i) /\ calls[u][i].scanner = k
    BY Zenon DEF JInv, Marks
  <2>2. PICK i \in Positions(u) : calls[u][i].scanner = k
    BY Zenon, <2>1
  <2>3. /\ calls[u][i] \in Frames
        /\ Sound(calls[u][i]) /\ calls[u][i].op \in {"block", "scan", "close"}
    BY Zenon, InFrames, ScannerOfCall DEF FrameType
  <2>4. ~ScannerBusy(k) /\ ~HasStreams(k) /\ ~Closing(k)
    BY Zenon DEF ScannerDrop
  <2>5. calls[u][i].op # "block"
    BY Zenon, <2>2, <2>3, <2>4 DEF ScannerBusy, Borrowed, Sound
  <2>6. calls[u][i].op # "scan"
    BY Zenon, <2>2, <2>3, <2>4 DEF HasStreams, Sound
  <2>7. calls[u][i].op # "close"
    BY Zenon, <2>2, <2>3, <2>4 DEF Closing
  <2> QED BY Zenon, <2>3, <2>5, <2>6, <2>7
<1>3. UNCHANGED result
  BY Zenon, <1>2 DEF ScannerDrop
<1>4. DropNeverPanics'
  BY <1>1, <1>3, GivesNoPanic
<1> QED BY Zenon, <1>1, <1>4, QuietStep

\* So does a stream that is opened, by a thread for a scanner of its own.
LEMMA OpenKeepsMarks ==
    ASSUME IInv, JInv, NEW t \in Threads, NEW x \in Streams, NEW k \in Scanners,
           open_stream(t, x, k)
    PROVE  JInv'
<1>1. UNCHANGED <<program, calls, in_use>> /\ k \in MayUse[t]
  BY Zenon DEF open_stream
<1>2. \/ UNCHANGED stream
      \/ stream' = [stream EXCEPT ![x] = [scanner |-> k, owner |-> t]]
  BY Zenon DEF open_stream
<1>3. \A y \in Streams : stream'[y] # None =>
        stream'[y] = stream[y] \/ stream'[y].scanner \in MayUse[stream'[y].owner]
  BY <1>1, <1>2 DEF IInv, TypeOK
<1>4. ok("HS_NOMEM") # "panic" /\ (Give(t, "Ok") \/ Give(t, ok("HS_NOMEM")))
  BY Zenon DEF ok, ErrorCode, open_stream
<1>5. DropNeverPanics'
  BY Zenon, <1>1, <1>4, GivesNoPanic
<1> QED BY Zenon, <1>1, <1>3, <1>5, QuietStep

\* So does a method that is entered, or refuses its input.
LEMMA EnteringSteps ==
    ASSUME IInv, JInv, NEW t \in Threads,
           \/ \E k \in Scanners : BlockScan(t, k)
           \/ \E x \in Streams : StreamScan(t, x)
           \/ \E x \in Streams : StreamClose(t, x)
    PROVE  JInv'
<1>1. UNCHANGED <<program, in_use>> /\ CanCall(t)
  BY Zenon DEF BlockScan, StreamScan, StreamClose, Values
<1>2. \A x \in Streams : stream'[x] # None => stream'[x] = stream[x]
  BY Zenon DEF IInv, TypeOK, BlockScan, StreamScan, StreamClose, Values
<1>3. CASE Give(t, "InputTooLarge") /\ UNCHANGED calls
  <2>1. DropNeverPanics'
    BY Zenon, <1>1, <1>3, GivesNoPanic
  <2> QED BY Zenon, <1>1, <1>2, <1>3, <2>1, QuietStep
<1>4. ASSUME NEW op \in {"block", "scan", "close"}, NEW slot \in Scanners \cup Streams,
             NEW k \in MayUse[t], NEW asked \in BOOLEAN, Enter(t, op, slot, k, asked),
             UNCHANGED result
      PROVE  JInv'
  <2> DEFINE f == [op |-> op, slot |-> slot, scanner |-> k, pc |-> "test", asked |-> asked]
  <2>1. k \in Scanners
    BY Zenon, BindingsAssumption DEF IInv, MayUse, Threads, Scanners
  <2>2. f \in FrameType /\ f.pc = "test" /\ f.scanner = k
    BY Zenon, <2>1 DEF FrameType
  <2>3. Push(t, f)
    BY Zenon, <1>4 DEF Enter, Push
  <2> HIDE DEF f
  <2> QED BY Zenon, <1>1, <1>2, <1>4, <2>2, <2>3, EnterStep
<1>5. ASSUME NEW k \in Scanners, BlockScan(t, k) PROVE JInv'
  BY Zenon, <1>3, <1>4, <1>5 DEF BlockScan
<1>6. ASSUME NEW x \in Streams, stream[x] # None, stream[x].owner = t
      PROVE  stream[x].scanner \in MayUse[t]
  BY Zenon, <1>6 DEF JInv, Owned
<1>7. ASSUME NEW x \in Streams, StreamScan(t, x) PROVE JInv'
  <2>1. stream[x].scanner \in MayUse[t] /\ (c_stream[x] = "TERMINATED") \in BOOLEAN
    BY Zenon, <1>6, <1>7 DEF StreamScan
  <2> QED BY Zenon, <1>3, <1>4, <1>7, <2>1 DEF StreamScan
<1>8. ASSUME NEW x \in Streams, StreamClose(t, x) PROVE JInv'
  <2>1. stream[x].scanner \in MayUse[t]
    BY Zenon, <1>6, <1>8 DEF StreamClose
  <2> QED BY Zenon, <1>4, <1>8, <2>1 DEF StreamClose
<1> QED BY Zenon, <1>5, <1>7, <1>8

\* Every step of a C call keeps the marks right.
LEMMA CallKeepsMarks ==
    ASSUME KeepToOwn, IInv, JInv, NEW t \in Threads, CallStep(t)
    PROVE  JInv'
<1>1. UNCHANGED <<program, stream>> /\ calls[t] # <<>>
  BY Zenon DEF CallStep, MarkTest, MarkSet, Trampoline, TrampolineReturn, ScanDone, Unmark, Values, At
<1>2. Top(t).asked \in BOOLEAN
  BY Zenon, <1>1, TopType DEF IInv, TypeOK, CallTypes, FrameType
<1>3. \A pc \in Pcs : \A asked \in BOOLEAN : Goto(t, pc, asked) => Stepped(t, pc)
  BY Zenon, <1>1, GotoSteps
<1>4. CASE MarkTest(t)
  <2>1. Top(t).pc = "test" /\ UNCHANGED in_use
    BY Zenon, <1>4 DEF MarkTest, At
  <2>2. CASE in_use[Top(t).scanner]
    <3>1. Return(t, "HS_SCRATCH_IN_USE")
      BY Zenon, <1>4, <2>2 DEF MarkTest
    <3> QED BY Zenon, <1>1, <2>1, <3>1, LeavingStep
  <2>3. CASE ~in_use[Top(t).scanner]
    <3>1. Goto(t, "mark", Top(t).asked) /\ UNCHANGED result
      BY Zenon, <1>4, <2>3 DEF MarkTest
    <3>2. Stepped(t, "mark")
      BY Zenon, <1>2, <1>3, <3>1 DEF Pcs
    <3> QED BY Zenon, <1>1, <2>1, <2>3, <3>1, <3>2, TestedStep
  <2> QED BY Zenon, <2>2, <2>3
<1>5. CASE MarkSet(t)
  <2>1. Top(t).pc = "mark" /\ in_use' = [in_use EXCEPT ![Top(t).scanner] = TRUE]
        /\ UNCHANGED result
    BY Zenon, <1>5 DEF MarkSet, At
  <2>2. PICK pc \in {"match", "unmark"} : Goto(t, pc, Top(t).asked)
    BY Zenon, <1>5 DEF MarkSet
  <2>3. Stepped(t, pc)
    BY Zenon, <1>2, <1>3, <2>2 DEF Pcs
  <2> QED BY Zenon, <1>1, <2>1, <2>3, MarkedStep
<1>6. CASE Trampoline(t) \/ TrampolineReturn(t) \/ ScanDone(t)
  <2>1. Top(t).pc \in {"match", "callback", "unmark"} /\ UNCHANGED <<in_use, result>>
    BY Zenon, <1>6 DEF Trampoline, TrampolineReturn, ScanDone, At
  <2>2. PICK pc \in {"match", "callback", "unmark"} : \E asked \in BOOLEAN : Goto(t, pc, asked)
    BY Zenon, <1>2, <1>6 DEF Trampoline, TrampolineReturn, ScanDone
  <2>3. Stepped(t, pc)
    BY Zenon, <1>3, <2>2 DEF Pcs
  <2> QED BY Zenon, <1>1, <2>1, <2>3, HoldingStep
<1>7. CASE Unmark(t)
  <2>1. Top(t).pc = "unmark" /\ in_use' = [in_use EXCEPT ![Top(t).scanner] = FALSE]
    BY Zenon, <1>7 DEF Unmark, At
  <2>2. Return(t, "HS_SUCCESS") \/ Return(t, "HS_SCAN_TERMINATED")
    BY Zenon, <1>7 DEF Unmark
  <2> QED BY Zenon, <1>1, <2>1, <2>2, LeavingStep
<1> QED BY Zenon, <1>4, <1>5, <1>6, <1>7 DEF CallStep

\* No scratch is marked at first.
LEMMA MarksInit == Init => JInv
<1> SUFFICES ASSUME Init PROVE JInv
  BY Zenon
<1>1. \A t \in Threads : calls[t] = <<>> /\ Len(calls[t]) = 0 /\ Positions(t) = {}
  BY DEF Init, Positions
<1>2. MaxDepth \in Nat
  BY Zenon, BindingsAssumption DEF Init, MaxDepth
<1>3. Owned /\ Stacked /\ HeldOnce
  BY <1>1, <1>2 DEF Init, Owned, Stacked, HeldOnce
<1>4. Marks /\ DropNeverPanics
  BY Zenon, <1>1 DEF Init, Marks, DropNeverPanics
<1> QED BY Zenon, <1>3, <1>4 DEF JInv

\* Every step keeps the marks right, where threads keep to their own
\* scanners.
LEMMA MarksNext ==
    ASSUME KeepToOwn
    PROVE  IInv /\ JInv /\ [Next]_vars => JInv'
<1> SUFFICES ASSUME IInv, JInv, [Next]_vars PROVE JInv'
  BY Zenon
<1>1. CASE UNCHANGED vars
  <2>1. UNCHANGED <<program, calls, in_use, stream, result>>
    BY Zenon, <1>1 DEF vars
  <2>2. DropNeverPanics'
    BY Zenon, <2>1, SlotsStay DEF JInv, DropNeverPanics
  <2> QED BY Zenon, <2>1, <2>2, QuietStep
<1>2. CASE Next
  BY Zenon, <1>2, ValueSteps, DropStep, OpenKeepsMarks, EnteringSteps, CallKeepsMarks DEF Next
<1> QED BY Zenon, <1>1, <1>2

-----------------------------------------------------------------------------
(* What the callers can rely on.                                          *)

\* A call that holds k's scratch is a position of JInv, and the other way round.
LEMMA InsideIsHolding ==
    ASSUME IInv, JInv, NEW k \in Scanners
    PROVE  /\ \A t \in Threads : \A i \in Positions(t) :
                 Holder(t, i) /\ calls[t][i].scanner = k => <<t, i>> \in Inside(k)
           /\ \A w \in Inside(k) :
                 /\ w[1] \in Threads /\ w[2] \in Positions(w[1]) /\ w = <<w[1], w[2]>>
                 /\ Holder(w[1], w[2]) /\ calls[w[1]][w[2]].scanner = k
<1>1. \A t \in Threads : Len(calls[t]) \in Nat /\ Len(calls[t]) =< MaxDepth
  BY DEF IInv, TypeOK, JInv, Stacked
<1>2. MaxDepth \in Nat
  BY Zenon, BindingsAssumption DEF IInv, MaxDepth
<1>3. ASSUME NEW t \in Threads, NEW i \in Positions(t)
      PROVE  i \in 1 .. MaxDepth /\ i =< Len(calls[t])
  BY <1>1, <1>2 DEF Positions
<1>4. ASSUME NEW w \in Inside(k)
      PROVE  /\ w[1] \in Threads /\ w[2] \in Positions(w[1]) /\ w = <<w[1], w[2]>>
             /\ Holder(w[1], w[2]) /\ calls[w[1]][w[2]].scanner = k
  BY <1>1, <1>2 DEF Inside, Holder, Positions
<1> QED BY Zenon, <1>3, <1>4 DEF Inside, Holder

\* In a program whose threads use scanners of their own, a scratch is held by
\* at most one call at a time, callbacks that scan again included, and its
\* in_use byte says whether there is one.
THEOREM BindingsOneCallPerScratch ==
    ASSUME KeepToOwn
    PROVE  Spec => []OneCallPerScratch
<1>1. IInv /\ JInv => OneCallPerScratch
  <2> SUFFICES ASSUME IInv, JInv, NEW k \in Scanners
               PROVE  Cardinality(Inside(k)) =< 1 /\ (in_use[k] <=> Inside(k) # {})
    BY DEF OneCallPerScratch
  <2>1. in_use[k] => Inside(k) # {}
    BY Zenon, InsideIsHolding DEF JInv, Marks
  <2>2. ASSUME NEW w \in Inside(k) PROVE in_use[k]
    BY InsideIsHolding DEF JInv, Marks
  <2>3. ASSUME NEW v \in Inside(k), NEW w \in Inside(k) PROVE v = w
    <3>1. v[1] = w[1] /\ v[2] = w[2]
      BY InsideIsHolding DEF JInv, HeldOnce
    <3> QED BY Zenon, <3>1, InsideIsHolding
  <2>4. CASE Inside(k) = {}
    BY <2>1, <2>4, FS_EmptySet
  <2>5. CASE Inside(k) # {}
    <3>1. PICK w : w \in Inside(k)
      BY Zenon, <2>5
    <3>2. Inside(k) = {w}
      BY Zenon, <2>3, <3>1
    <3> QED BY <2>2, <3>1, <3>2, FS_Singleton
  <2> QED BY Zenon, <2>4, <2>5
<1>2. IInv /\ JInv /\ [Next]_vars => JInv'
  BY Zenon, MarksNext
<1> QED BY <1>1, <1>2, InitHolds, NextHolds, MarksInit, PTL DEF Spec

\* In such a program scratch_drop never panics: a scanner that the borrow
\* checker lets go of is in no call, and its in_use byte is clear.
THEOREM BindingsDropNeverPanics ==
    ASSUME KeepToOwn
    PROVE  Spec => []DropNeverPanics
<1>1. JInv => DropNeverPanics
  BY Zenon DEF JInv
<1>2. IInv /\ JInv /\ [Next]_vars => JInv'
  BY Zenon, MarksNext
<1> QED BY <1>1, <1>2, InitHolds, NextHolds, MarksInit, PTL DEF Spec

\* In such a program unmarkScratchInUse finds the byte set, as it asserts.
THEOREM BindingsUnmarkFindsMark ==
    ASSUME KeepToOwn
    PROVE  Spec => []UnmarkFindsMark
<1>1. IInv /\ JInv => UnmarkFindsMark
  <2> SUFFICES ASSUME IInv, JInv, NEW t \in Threads, At(t, "unmark")
               PROVE  in_use[Top(t).scanner]
    BY Zenon DEF UnmarkFindsMark
  <2>1. CallTypes
    BY Zenon DEF IInv, TypeOK, CallTypes
  <2>2. Len(calls[t]) \in Positions(t) /\ Top(t) = calls[t][Len(calls[t])]
    BY Zenon, <2>1, TopType DEF At
  <2> QED BY <2>2 DEF JInv, Marks, Holder, At
<1>2. IInv /\ JInv /\ [Next]_vars => JInv'
  BY Zenon, MarksNext
<1> QED BY <1>1, <1>2, InitHolds, NextHolds, MarksInit, PTL DEF Spec

\* Only a return makes a thread's calls fewer, and only its own.
LEMMA OnlyReturnsShrink ==
    ASSUME IInv, [Next]_vars, NEW t \in Threads, Len(calls'[t]) < Len(calls[t])
    PROVE  /\ calls[t] # <<>>
           /\ \/ MarkTest(t) /\ in_use[Top(t).scanner]
              \/ Unmark(t)
<1>1. CallTypes /\ \A u \in Threads : Len(calls[u]) \in Nat
  BY DEF IInv, TypeOK, CallTypes
<1>2. ASSUME NEW u \in Threads, NEW f \in FrameType, Push(u, f) PROVE FALSE
  BY <1>1, <1>2, EnterKeeps
<1>3. calls' # calls
  BY <1>1
<1>4. ASSUME NEW u \in Threads, NEW op \in {"block", "scan", "close"},
             NEW slot \in Scanners \cup Streams, NEW k \in Scanners, NEW asked \in BOOLEAN,
             Enter(u, op, slot, k, asked)
      PROVE  FALSE
  <2> DEFINE f == [op |-> op, slot |-> slot, scanner |-> k, pc |-> "test", asked |-> asked]
  <2>1. f \in FrameType
    BY Zenon DEF FrameType
  <2>2. Push(u, f)
    BY Zenon, <1>4 DEF Enter, Push
  <2> HIDE DEF f
  <2> QED BY Zenon, <1>2, <2>1, <2>2
<1>5. PICK u \in Threads : CallStep(u)
  <2>1. ASSUME NEW u \in Threads, NEW k \in Scanners, BlockScan(u, k) PROVE FALSE
    BY Zenon, <1>3, <1>4, <2>1 DEF BlockScan
  <2>2. ASSUME NEW x \in Streams, stream[x] # None PROVE stream[x].scanner \in Scanners
    BY Zenon, <2>2 DEF IInv, TypeOK
  <2>3. ASSUME NEW u \in Threads, NEW x \in Streams, StreamScan(u, x) PROVE FALSE
    <3>1. stream[x].scanner \in Scanners /\ (c_stream[x] = "TERMINATED") \in BOOLEAN
      BY Zenon, <2>2, <2>3 DEF StreamScan
    <3> QED BY Zenon, <1>3, <1>4, <2>3, <3>1 DEF StreamScan
  <2>4. ASSUME NEW u \in Threads, NEW x \in Streams, StreamClose(u, x) PROVE FALSE
    <3>1. stream[x].scanner \in Scanners
      BY Zenon, <2>2, <2>4 DEF StreamClose
    <3> QED BY Zenon, <1>4, <2>4, <3>1 DEF StreamClose
  <2>5. Next
    BY Zenon, <1>3 DEF vars
  <2> QED BY Zenon, <1>3, <2>1, <2>3, <2>4, <2>5
          DEF Next, DatabaseNew, DatabaseClone, DatabaseDrop, ScannerNew, ScannerClone,
              ScannerDrop, open_stream, StreamScannerDrop
<1>6. calls[u] # <<>>
  BY Zenon, <1>5 DEF CallStep, MarkTest, MarkSet, Trampoline, TrampolineReturn, ScanDone, Unmark, At
<1>7. Top(u).asked \in BOOLEAN
  BY Zenon, <1>1, <1>6, TopType DEF FrameType
<1>8. ~\E pc \in Pcs : \E asked \in BOOLEAN : Goto(u, pc, asked)
  BY <1>1, <1>6, GotoKeeps
<1>9. \/ MarkTest(u) /\ in_use[Top(u).scanner]
      \/ Unmark(u)
  BY Zenon, <1>5, <1>7, <1>8
     DEF CallStep, MarkTest, MarkSet, Trampoline, TrampolineReturn, ScanDone, Pcs
<1>10. \E code : Return(u, code)
  BY Zenon, <1>9 DEF MarkTest, Unmark
<1>11. u = t
  BY <1>1, <1>6, <1>10, ReturnKeeps
<1> QED BY Zenon, <1>6, <1>9, <1>11

\* In such a program markScratchInUse refuses a call with ScratchInUse only while
\* another call holds the same scratch: a mark left behind never refuses one.
THEOREM BindingsRefuseOnlyInside ==
    ASSUME KeepToOwn
    PROVE  Spec => InUseOnlyWhenUsed
<1>1. IInv /\ JInv /\ [Next]_vars => RefusedOnlyInside
  <2> SUFFICES ASSUME IInv, JInv, [Next]_vars, NEW t \in Threads,
                      Len(calls'[t]) < Len(calls[t]), result'[t].value = "ScratchInUse"
               PROVE  Inside(Top(t).scanner) # {}
    BY Zenon DEF RefusedOnlyInside
  <2>1. calls[t] # <<>> /\ ((MarkTest(t) /\ in_use[Top(t).scanner]) \/ Unmark(t))
    BY Zenon, OnlyReturnsShrink
  <2>2. ~Unmark(t)
    <3> SUFFICES ASSUME Unmark(t) PROVE FALSE
      BY Zenon
    <3>1. PICK code \in {"HS_SUCCESS", "HS_SCAN_TERMINATED"} : Return(t, code)
      BY Zenon DEF Unmark
    <3>2. result'[t].value = ScanResult(code)
      BY Zenon, <3>1 DEF Return, IInv, TypeOK
    <3> QED BY <3>2 DEF ScanResult, ok, ErrorCode
  <2>3. Top(t).scanner \in Scanners
    BY Zenon, <2>1, TopType DEF IInv, TypeOK, CallTypes, FrameType
  <2> QED BY Zenon, <2>1, <2>2, <2>3, InsideIsHolding DEF JInv, Marks
<1>2. IInv /\ JInv /\ [Next]_vars => JInv'
  BY Zenon, MarksNext
<1> QED BY <1>1, <1>2, InitHolds, NextHolds, MarksInit, PTL DEF Spec, InUseOnlyWhenUsed
=============================================================================
