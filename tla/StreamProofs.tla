---------------------------- MODULE StreamProofs ----------------------------
(***************************************************************************)
(* Proofs about the stream runtime, for any history length, any patterns,  *)
(* any number of streams and buffers and data of any length that an offset *)
(* of a compressed stream can count: the history a stream keeps is the     *)
(* tail of its data; its exhaustion vector records what was reported; and  *)
(* with these two it implements StreamSpec, which sees all of the data.    *)
(***************************************************************************)
EXTENDS StreamRuntime, SequenceTheorems, TLAPS

LOCAL INSTANCE WellFoundedInduction

\* The memory of a stream, and of a compressed one.
Histories == [1 .. HistoryRequired -> Bytes \cup {Junk}]

StreamRecord ==
    [offset : Nat, history : Histories, status : SUBSET Broken, evec : SUBSET Single]

PackedRecord ==
    [offset : Nat, history : Seq(Bytes \cup {Junk}), status : SUBSET Broken,
     evec : SUBSET Single]

Texts == {t \in Seq(Bytes) : Len(t) =< MaxText}

\* The part of the history buffer that holds data holds the end of t.
Keeps(z, t) ==
    /\ z.offset = Len(t)
    /\ \A j \in 1 .. HistoryRequired :
          Len(t) - HistoryRequired + j >= 1
             => z.history[j] = t[Len(t) - HistoryRequired + j]

\* A compressed stream holds the end of t, as much of it as there is.
Packs(z, t) ==
    /\ z.offset = Len(t)
    /\ Len(z.history) = Least(Len(t), HistoryRequired)
    /\ \A i \in 1 .. Len(z.history) : z.history[i] = t[Len(t) - Len(z.history) + i]

\* Why HistoryIsTail needs strengthening: a stream may be overwritten by any
\* other stream or by a compressed one, so both must keep what they stand for.
IInv ==
    /\ live \subseteq Streams
    /\ stream \in [Streams -> StreamRecord]
    /\ text \in [Streams -> Texts]
    /\ \A s \in live : stream[s].status = {} => Keeps(stream[s], text[s])
    /\ buf = [b \in Buffers |-> buf[b]]
    /\ \A b \in Buffers :
          /\ buf[b].z \in PackedRecord
          /\ buf[b].text \in Texts
          /\ buf[b].kept /\ buf[b].z.status = {} => Packs(buf[b].z, buf[b].text)

\* Offsets of compressed streams do not wrap.
OffsetsFit == MaxText < U32

-----------------------------------------------------------------------------
\* Closed and reset streams keep nothing, and nothing has been written to them.
LEMMA InitStream ==
    ASSUME NEW h \in Histories
    PROVE  init_stream(h) \in StreamRecord /\ Keeps(init_stream(h), <<>>)
<1>1. HistoryRequired \in Nat
  BY StreamAssumption
<1> QED BY <1>1 DEF init_stream, StreamRecord, Keeps

\* The junk in a new stream's history buffer is a history.
LEMMA UninitialisedType == Uninitialised \in Histories
BY DEF Uninitialised, Histories

\* What one call may write is a sequence of bytes.
LEMMA WritesType == ASSUME NEW d \in Writes PROVE d \in Seq(Bytes) /\ Len(d) \in Nat
<1>1. PICK n \in 0 .. MaxWrite : d \in [1 .. n -> Bytes]
  BY DEF Writes
<1>2. n \in Nat
  BY StreamAssumption
<1>3. d \in Seq(Bytes)
  BY <1>1, <1>2, SeqDef
<1> QED BY <1>3

\* One byte of the history maintainHistoryBuffer leaves.
LEMMA MaintainAt ==
    ASSUME NEW h, NEW d \in Seq(Bytes), NEW k \in 1 .. HistoryRequired
    PROVE  maintainHistoryBuffer(h, d)[k]
              = IF k + Len(d) =< HistoryRequired THEN h[k + Len(d)]
                ELSE d[k + Len(d) - HistoryRequired]
<1>1. HistoryRequired \in Nat
  BY StreamAssumption
<1> QED BY <1>1 DEF maintainHistoryBuffer

\* maintainHistoryBuffer moves the older bytes up and copies the newer in.
LEMMA MaintainKeeps ==
    ASSUME NEW z \in StreamRecord, NEW t \in Seq(Bytes), NEW d \in Seq(Bytes),
           NEW y \in StreamRecord, Keeps(z, t),
           y.offset = z.offset + Len(d),
           y.history = maintainHistoryBuffer(z.history, d)
    PROVE  Keeps(y, t \o d)
<1>1. HistoryRequired \in Nat /\ Len(t) \in Nat /\ Len(d) \in Nat
  BY StreamAssumption
<1>2. /\ Len(t \o d) = Len(t) + Len(d)
      /\ \A i \in 1 .. Len(t) + Len(d) :
            (t \o d)[i] = IF i =< Len(t) THEN t[i] ELSE d[i - Len(t)]
  BY ConcatProperties
<1>3. y.offset = Len(t \o d)
  BY <1>2 DEF Keeps
<1>4. ASSUME NEW j \in 1 .. HistoryRequired, Len(t \o d) - HistoryRequired + j >= 1
      PROVE  y.history[j] = (t \o d)[Len(t \o d) - HistoryRequired + j]
  <2>1. y.history[j] = IF j + Len(d) =< HistoryRequired THEN z.history[j + Len(d)]
                       ELSE d[j + Len(d) - HistoryRequired]
    BY MaintainAt
  <2> DEFINE i == Len(t) + Len(d) - HistoryRequired + j
  <2>2. i \in 1 .. Len(t) + Len(d)
    BY <1>1, <1>2, <1>4
  <2>3. Len(t \o d) - HistoryRequired + j = i
    BY <1>1, <1>2
  <2>4. CASE j + Len(d) =< HistoryRequired
    <3>1. j + Len(d) \in 1 .. HistoryRequired /\ i =< Len(t)
      BY <1>1, <2>4
    <3>2. Len(t) - HistoryRequired + (j + Len(d)) >= 1
             /\ Len(t) - HistoryRequired + (j + Len(d)) = i
      BY <1>1, <1>2, <1>4
    <3>3. z.history[j + Len(d)] = t[Len(t) - HistoryRequired + (j + Len(d))]
      BY <3>1, <3>2 DEF Keeps
    <3>4. z.history[j + Len(d)] = t[i]
      BY <3>2, <3>3
    <3>5. (t \o d)[i] = t[i]
      BY <1>2, <2>2, <3>1
    <3> HIDE DEF i
    <3> QED BY <2>1, <2>3, <2>4, <3>4, <3>5, Zenon
  <2>5. CASE ~(j + Len(d) =< HistoryRequired)
    <3>1. ~(i =< Len(t)) /\ i - Len(t) = j + Len(d) - HistoryRequired
      BY <1>1, <2>5
    <3>2. (t \o d)[i] = d[i - Len(t)]
      BY <1>2, <2>2, <3>1
    <3> HIDE DEF i
    <3> QED BY <2>1, <2>3, <2>5, <3>1, <3>2, Zenon
  <2> QED BY ZenonT(30), <2>4, <2>5
<1> QED BY ZenonT(30), <1>3, <1>4 DEF Keeps

\* compress_stream packs the end of the data.
LEMMA CompressPacks ==
    ASSUME NEW z \in StreamRecord
    PROVE  /\ compress_stream(z) \in PackedRecord
           /\ compress_stream(z).status = z.status
           /\ \A t \in Texts : OffsetsFit /\ Keeps(z, t) => Packs(compress_stream(z), t)
<1> DEFINE n == Least(z.offset % U32, HistoryRequired)
           h == [i \in 1 .. n |-> z.history[HistoryRequired - n + i]]
<1>1. HistoryRequired \in Nat /\ U32 \in Nat \ {0} /\ z.offset \in Nat
  BY StreamAssumption DEF StreamRecord
<1>2. z.offset % U32 \in Nat
  BY <1>1
<1>3. n \in Nat /\ n =< HistoryRequired
  BY <1>1, <1>2 DEF Least
<1>4. compress_stream(z) = [offset |-> z.offset, status |-> z.status, evec |-> z.evec,
                            history |-> h]
  BY DEF compress_stream
<1>5. h \in [1 .. n -> Bytes \cup {Junk}]
  BY <1>1, <1>3 DEF StreamRecord, Histories
<1>6. h \in Seq(Bytes \cup {Junk}) /\ Len(h) = n
  <2>1. h \in Seq(Bytes \cup {Junk})
    BY <1>3, <1>5, SeqDef
  <2>2. DOMAIN h = 1 .. n
    OBVIOUS
  <2> HIDE DEF h, n
  <2>3. DOMAIN h = 1 .. Len(h) /\ Len(h) \in Nat
    BY <2>1, LenProperties
  <2> QED BY <1>3, <2>1, <2>2, <2>3
<1>7. ASSUME NEW t \in Texts, OffsetsFit, Keeps(z, t)
      PROVE  Packs(compress_stream(z), t)
  <2>1. Len(t) \in Nat /\ Len(t) < U32 /\ z.offset = Len(t)
    BY <1>7, StreamAssumption DEF Texts, OffsetsFit, Keeps
  <2>2. z.offset % U32 = Len(t)
    BY <1>1, <2>1
  <2>3. n = Least(Len(t), HistoryRequired)
    BY <2>2
  <2>4. ASSUME NEW i \in 1 .. n
        PROVE  h[i] = t[Len(t) - n + i]
    <3>1. n =< Len(t)
      BY <1>1, <2>1, <2>3 DEF Least
    <3> HIDE DEF n
    <3>2. HistoryRequired - n + i \in 1 .. HistoryRequired
      BY <1>1, <1>3
    <3>3. /\ Len(t) - HistoryRequired + (HistoryRequired - n + i) >= 1
          /\ Len(t) - HistoryRequired + (HistoryRequired - n + i) = Len(t) - n + i
      BY <1>1, <1>3, <2>1, <3>1
    <3>4. z.history[HistoryRequired - n + i]
             = t[Len(t) - HistoryRequired + (HistoryRequired - n + i)]
      BY <1>7, <3>2, <3>3 DEF Keeps
    <3> QED BY <3>3, <3>4
  <2> HIDE DEF h, n
  <2>5. compress_stream(z).offset = z.offset /\ compress_stream(z).history = h
    BY <1>4
  <2> QED BY <1>6, <2>1, <2>3, <2>4, <2>5, Zenon DEF Packs
<1> HIDE DEF h, n
<1> QED BY <1>1, <1>4, <1>6, <1>7 DEF StreamRecord, PackedRecord

\* expand_stream puts the packed bytes back at the end of the history buffer.
LEMMA ExpandKeeps ==
    ASSUME NEW z \in StreamRecord, NEW b \in PackedRecord
    PROVE  /\ expand_stream(z, b) \in StreamRecord
           /\ expand_stream(z, b).status = b.status
           /\ \A t \in Texts : Packs(b, t) => Keeps(expand_stream(z, b), t)
<1> DEFINE n == Len(b.history)
           g == [i \in 1 .. HistoryRequired |->
                    IF i - (HistoryRequired - n) >= 1
                    THEN b.history[i - (HistoryRequired - n)] ELSE z.history[i]]
<1>1. /\ HistoryRequired \in Nat /\ n \in Nat
      /\ b.history \in Seq(Bytes \cup {Junk}) /\ z.history \in Histories
  BY StreamAssumption DEF StreamRecord, PackedRecord
<1>2. expand_stream(z, b) = [offset |-> b.offset, status |-> b.status, evec |-> b.evec,
                             history |-> g]
  BY <1>1 DEF expand_stream
<1>3. g \in Histories
  <2>1. ASSUME NEW i \in 1 .. HistoryRequired, i - (HistoryRequired - n) >= 1
        PROVE  b.history[i - (HistoryRequired - n)] \in Bytes \cup {Junk}
    <3>1. i - (HistoryRequired - n) \in 1 .. n
      BY <1>1, <2>1
    <3> QED BY <1>1, <3>1, ElementOfSeq
  <2>2. ASSUME NEW i \in 1 .. HistoryRequired
        PROVE  z.history[i] \in Bytes \cup {Junk}
    BY <1>1 DEF Histories
  <2> QED BY <2>1, <2>2 DEF Histories
<1>4. ASSUME NEW t \in Texts, Packs(b, t)
      PROVE  Keeps(expand_stream(z, b), t)
  <2>1. Len(t) \in Nat /\ b.offset = Len(t) /\ n = Least(Len(t), HistoryRequired)
    BY <1>4 DEF Texts, Packs
  <2>2. ASSUME NEW j \in 1 .. HistoryRequired, Len(t) - HistoryRequired + j >= 1
        PROVE  g[j] = t[Len(t) - HistoryRequired + j]
    <3> DEFINE i == j - (HistoryRequired - n)
    <3>1. i \in 1 .. n /\ Len(t) - n + i = Len(t) - HistoryRequired + j
      <4>1. n = Len(t) \/ n = HistoryRequired
        BY <2>1 DEF Least
      <4> HIDE DEF n
      <4> QED BY <1>1, <2>1, <2>2, <4>1
    <3>2. b.history[i] = t[Len(t) - n + i]
      BY <1>4, <3>1 DEF Packs
    <3>3. i >= 1
      BY <1>1, <3>1
    <3>4. g[j] = b.history[i]
      BY <3>3
    <3> HIDE DEF i, n, g
    <3> QED BY <3>1, <3>2, <3>4
  <2>3. expand_stream(z, b).offset = b.offset /\ expand_stream(z, b).history = g
    BY <1>2
  <2> HIDE DEF g, n
  <2> QED BY <2>1, <2>2, <2>3, Zenon DEF Keeps
<1> HIDE DEF g, n
<1> QED BY <1>2, <1>3, <1>4 DEF StreamRecord, PackedRecord

\* A write leaves a stream that keeps the end of the data, or is broken.
LEMMA ScanOutcome ==
    ASSUME NEW z \in StreamRecord, NEW t \in Seq(Bytes), NEW d \in Seq(Bytes),
           NEW r \in hs_scan_stream_internal(z, d), z.status = {} => Keeps(z, t)
    PROVE  r.z \in StreamRecord /\ (r.z.status = {} => Keeps(r.z, t \o d))
<1>1. CASE z.status \cap Broken # {} \/ d = <<>>
  <2>1. r.z = z
    <3>1. r = [z |-> z, out |-> {}, halt |-> FALSE]
      BY <1>1, Zenon DEF hs_scan_stream_internal
    <3> QED BY <3>1
  <2>2. ASSUME z.status = {}
        PROVE  t \o d = t
    BY <1>1, <2>2, ConcatEmptySeq
  <2> QED BY ZenonT(30), <2>1, <2>2
<1>2. CASE ~(z.status \cap Broken # {} \/ d = <<>>)
  <2>1. z.status = {}
    BY <1>2 DEF StreamRecord
  <2>2. PICK evec, status :
           /\ evec \in SUBSET Single /\ status \in SUBSET Broken
           /\ r.z = IF status = {}
                    THEN [offset  |-> z.offset + Len(d),
                          history |-> maintainHistoryBuffer(z.history, d),
                          status  |-> status, evec |-> evec]
                    ELSE [z EXCEPT !.status = status, !.evec = evec]
    <3> DEFINE zero == IF z.offset = 0 THEN BoundaryZero ELSE {}
               due  == zero \cup hwlmExec(getHistory(z), z.offset, d)
               Evec(a) == z.evec \cup KeysOf(a.acked)
               Status(a) == IF a.halt THEN {"TERMINATED"}
                            ELSE IF isAllExhausted(Evec(a)) THEN {"EXHAUSTED"} ELSE {}
               After(a) == IF Status(a) = {}
                           THEN [offset  |-> z.offset + Len(d),
                                 history |-> maintainHistoryBuffer(z.history, d),
                                 status  |-> Status(a), evec |-> Evec(a)]
                           ELSE [z EXCEPT !.status = Status(a), !.evec = Evec(a)]
    <3>1. PICK a \in Deliveries(FirstOnly(due, z.evec)) : r.z = After(a)
      <4>1. r \in {[z |-> After(a), out |-> a.out, halt |-> a.halt] :
                     a \in Deliveries(FirstOnly(due, z.evec))}
        BY <1>2, Zenon DEF hs_scan_stream_internal
      <4> HIDE DEF After, due
      <4> QED BY <4>1
    <3>2. Evec(a) \in SUBSET Single
      BY DEF StreamRecord, KeysOf
    <3>3. Status(a) \in SUBSET Broken
      BY DEF Broken
    <3> QED BY ZenonT(30), <3>1, <3>2, <3>3
  <2>3. CASE status = {}
    <3>1. maintainHistoryBuffer(z.history, d) \in Histories
      <4>1. HistoryRequired \in Nat /\ Len(d) \in Nat /\ z.history \in Histories
        BY StreamAssumption DEF StreamRecord
      <4>2. ASSUME NEW k \in 1 .. HistoryRequired
            PROVE  maintainHistoryBuffer(z.history, d)[k] \in Bytes \cup {Junk}
        <5>1. CASE k + Len(d) =< HistoryRequired
          <6>1. k + Len(d) \in 1 .. HistoryRequired
            BY <4>1, <5>1
          <6> QED BY ZenonT(30), <4>1, <5>1, <6>1, MaintainAt DEF Histories
        <5>2. CASE ~(k + Len(d) =< HistoryRequired)
          <6>1. k + Len(d) - HistoryRequired \in 1 .. Len(d)
            BY <4>1, <5>2
          <6>2. d[k + Len(d) - HistoryRequired] \in Bytes
            BY <6>1, ElementOfSeq
          <6> QED BY <5>2, <6>2, MaintainAt
        <5> QED BY <5>1, <5>2
      <4>3. maintainHistoryBuffer(z.history, d)
               = [k \in 1 .. HistoryRequired |-> maintainHistoryBuffer(z.history, d)[k]]
        BY Zenon DEF maintainHistoryBuffer
      <4> HIDE DEF maintainHistoryBuffer
      <4> QED BY <4>2, <4>3, Zenon DEF Histories
    <3>2. r.z = [offset  |-> z.offset + Len(d),
                 history |-> maintainHistoryBuffer(z.history, d),
                 status  |-> status, evec |-> evec]
      BY <2>2, <2>3
    <3>3. z.offset + Len(d) \in Nat
      BY DEF StreamRecord
    <3>4. r.z \in StreamRecord
      BY <2>2, <3>1, <3>2, <3>3 DEF StreamRecord
    <3>5. /\ r.z.offset = z.offset + Len(d)
          /\ r.z.history = maintainHistoryBuffer(z.history, d)
      BY <3>2
    <3> QED BY <2>1, <3>4, <3>5, MaintainKeeps
  <2>4. CASE status # {}
    <3>1. r.z = [z EXCEPT !.status = status, !.evec = evec]
      BY <2>2, <2>4
    <3>2. r.z \in StreamRecord /\ r.z.status = status
      BY ZenonT(30), <2>2, <3>1 DEF StreamRecord
    <3> QED BY <2>4, <3>2
  <2> QED BY <2>3, <2>4
<1> QED BY <1>1, <1>2

-----------------------------------------------------------------------------
\* The application does not change, and with it what a stream may be.
LEMMA SameApplication ==
    ASSUME app' = app
    PROVE  /\ Streams' = Streams /\ Buffers' = Buffers
           /\ StreamRecord' = StreamRecord /\ PackedRecord' = PackedRecord
BY DEF Streams, Buffers, StreamRecord, PackedRecord, Single

\* A call that only gives stream s a new state keeps the invariant if that
\* state keeps the end of the data it is given.
LEMMA BecomeStep ==
    ASSUME IInv, app' = app, buf' = buf, NEW s \in Streams, NEW z \in StreamRecord,
           NEW t \in Texts, NEW r, Become(s, z, t, r),
           live' \subseteq live \cup {s}, s \in live' /\ z.status = {} => Keeps(z, t)
    PROVE  IInv'
<1>1. stream' = [stream EXCEPT ![s] = z] /\ text' = [text EXCEPT ![s] = t]
  BY DEF Become
<1>2. /\ Streams' = Streams /\ Buffers' = Buffers
      /\ StreamRecord' = StreamRecord /\ PackedRecord' = PackedRecord
  BY SameApplication
<1>3. live' \subseteq Streams'
  BY <1>2 DEF IInv
<1>4. stream' \in [Streams' -> StreamRecord'] /\ text' \in [Streams' -> Texts]
  BY <1>1, <1>2 DEF IInv
<1>5. ASSUME NEW u \in live', stream'[u].status = {}
      PROVE  Keeps(stream'[u], text'[u])
  <2>1. CASE u = s
    <3>1. stream'[u] = z /\ text'[u] = t
      BY <1>1, <2>1 DEF IInv
    <3> QED BY <1>5, <2>1, <3>1
  <2>2. CASE u # s
    <3>1. u \in live /\ stream'[u] = stream[u] /\ text'[u] = text[u]
      BY <1>1, <2>2 DEF IInv
    <3> QED BY <1>5, <3>1 DEF IInv
  <2> QED BY <2>1, <2>2
<1>6. /\ buf' = [b \in Buffers' |-> buf'[b]]
      /\ \A b \in Buffers' :
            /\ buf'[b].z \in PackedRecord'
            /\ buf'[b].text \in Texts
            /\ buf'[b].kept /\ buf'[b].z.status = {} => Packs(buf'[b].z, buf'[b].text)
  BY <1>2 DEF IInv
<1> QED BY ZenonT(30), <1>3, <1>4, <1>5, <1>6 DEF IInv, Texts, Keeps, Packs

\* No data has been written to a stream that is closed or just opened.
LEMMA NoData == <<>> \in Texts
BY StreamAssumption DEF Texts

\* What a closed stream's memory holds.
LEMMA ClosedType == Closed \in StreamRecord /\ Closed.status = {}
BY InitStream, UninitialisedType DEF Closed, init_stream

\* hs_compress_stream packs the end of the stream's data.
LEMMA CompressStep ==
    ASSUME IInv, OffsetsFit, NEW s \in Streams, NEW b \in Buffers,
           hs_compress_stream(s, b)
    PROVE  IInv'
<1> DEFINE e == [kept |-> TRUE, z |-> compress_stream(stream[s]),
                 text |-> text[s], seen |-> seen[s]]
<1>1. /\ s \in live /\ buf' = [buf EXCEPT ![b] = e]
      /\ app' = app /\ live' = live /\ stream' = stream /\ text' = text
  BY DEF hs_compress_stream
<1>2. /\ Streams' = Streams /\ Buffers' = Buffers
      /\ StreamRecord' = StreamRecord /\ PackedRecord' = PackedRecord
  BY <1>1, SameApplication
<1>3. stream[s] \in StreamRecord /\ text[s] \in Texts
  BY DEF IInv
<1>4. /\ e.z \in PackedRecord /\ e.text \in Texts
      /\ e.z.status = {} => Packs(e.z, e.text)
  BY <1>1, <1>3, CompressPacks DEF IInv
<1> HIDE DEF e
<1>5. ASSUME NEW c \in Buffers
      PROVE  /\ buf'[c].z \in PackedRecord
             /\ buf'[c].text \in Texts
             /\ buf'[c].kept /\ buf'[c].z.status = {} => Packs(buf'[c].z, buf'[c].text)
  <2>1. buf'[c] = IF c = b THEN e ELSE buf[c]
    BY <1>1 DEF IInv
  <2> QED BY <1>4, <2>1 DEF IInv
<1>6. buf' = [c \in Buffers |-> buf'[c]]
  BY <1>1 DEF IInv
<1>7. /\ live' \subseteq Streams'
      /\ stream' \in [Streams' -> StreamRecord']
      /\ text' \in [Streams' -> Texts]
      /\ \A u \in live' : stream'[u].status = {} => Keeps(stream'[u], text'[u])
  BY <1>1, <1>2 DEF IInv
<1> QED BY ZenonT(30), <1>2, <1>5, <1>6, <1>7 DEF IInv, Texts, Keeps, Packs

\* Each call keeps the invariant.
LEMMA NextStep ==
    ASSUME IInv, OffsetsFit, [Next]_vars
    PROVE  IInv'
<1>1. ASSUME NEW s \in Streams, hs_open_stream(s) PROVE IInv'
  <2>1. /\ app' = app /\ buf' = buf /\ live' = live \cup {s}
        /\ Become(s, init_stream(Uninitialised), <<>>, {})
    BY <1>1 DEF hs_open_stream
  <2>2. /\ init_stream(Uninitialised) \in StreamRecord
        /\ Keeps(init_stream(Uninitialised), <<>>)
    BY InitStream, UninitialisedType
  <2>3. live' \subseteq live \cup {s}
    BY <2>1
  <2> HIDE DEF Become
  <2> QED BY <2>1, <2>2, <2>3, NoData, BecomeStep, Zenon
<1>2. ASSUME NEW s \in Streams, NEW d \in Writes, hs_scan_stream(s, d) PROVE IInv'
  <2>1. PICK r \in hs_scan_stream_internal(stream[s], d) :
           Become(s, r.z,
                  IF "TERMINATED" \in stream[s].status THEN text[s] ELSE text[s] \o d,
                  seen[s] \cup r.out)
    BY ZenonT(30), <1>2 DEF hs_scan_stream
  <2>2. /\ app' = app /\ buf' = buf /\ live' = live /\ s \in live
        /\ Len(text[s]) + Len(d) =< MaxText
    BY <1>2 DEF hs_scan_stream
  <2>3. /\ stream[s] \in StreamRecord /\ text[s] \in Texts /\ d \in Seq(Bytes)
        /\ stream[s].status = {} => Keeps(stream[s], text[s])
    BY <2>2, WritesType DEF IInv
  <2>4. text[s] \in Seq(Bytes)
    BY <2>3 DEF Texts
  <2>5. r.z \in StreamRecord /\ (r.z.status = {} => Keeps(r.z, text[s] \o d))
    BY <2>1, <2>3, <2>4, ScanOutcome
  <2>6. text[s] \o d \in Texts
    BY <2>2, <2>3, <2>4, ConcatProperties DEF Texts
  <2>7. CASE "TERMINATED" \in stream[s].status
    <3>1. Become(s, r.z, text[s], seen[s] \cup r.out)
      BY <2>1, <2>7
    <3>2. r.z = stream[s]
      <4>1. stream[s].status \cap Broken # {}
        BY <2>7 DEF Broken
      <4>2. r = [z |-> stream[s], out |-> {}, halt |-> FALSE]
        BY <2>1, <4>1, Zenon DEF hs_scan_stream_internal
      <4> QED BY <4>2
    <3> QED BY <2>2, <2>3, <2>5, <2>7, <3>1, <3>2, BecomeStep
  <2>8. CASE "TERMINATED" \notin stream[s].status
    <3>1. Become(s, r.z, text[s] \o d, seen[s] \cup r.out)
      BY <2>1, <2>8
    <3> QED BY <2>2, <2>5, <2>6, <3>1, BecomeStep
  <2> QED BY <2>7, <2>8
<1>3. ASSUME NEW s \in Streams, NEW onEvent \in BOOLEAN, hs_close_stream(s, onEvent)
      PROVE  IInv'
  <2>1. /\ app' = app /\ buf' = buf /\ live' = live \ {s}
        /\ Become(s, Closed, <<>>, {})
    BY <1>3 DEF hs_close_stream
  <2>2. live' \subseteq live \cup {s} /\ s \notin live'
    BY <2>1
  <2> QED BY <2>1, <2>2, NoData, ClosedType, BecomeStep
<1>4. ASSUME NEW s \in Streams, NEW onEvent \in BOOLEAN, hs_reset_stream(s, onEvent)
      PROVE  IInv'
  <2>1. /\ app' = app /\ buf' = buf /\ live' = live
        /\ Become(s, init_stream(stream[s].history), <<>>, {})
    BY <1>4 DEF hs_reset_stream
  <2>2. stream[s].history \in Histories
    BY DEF IInv, StreamRecord
  <2>3. /\ init_stream(stream[s].history) \in StreamRecord
        /\ Keeps(init_stream(stream[s].history), <<>>)
    BY <2>2, InitStream
  <2> QED BY <2>1, <2>3, NoData, BecomeStep
<1>5. ASSUME NEW s \in Streams, NEW f \in Streams, hs_copy_stream(s, f) PROVE IInv'
  <2>1. /\ app' = app /\ buf' = buf /\ live' = live \cup {s} /\ f \in live
        /\ Become(s, stream[f], text[f], seen[f])
    BY <1>5 DEF hs_copy_stream
  <2>2. /\ stream[f] \in StreamRecord /\ text[f] \in Texts
        /\ stream[f].status = {} => Keeps(stream[f], text[f])
    BY <2>1 DEF IInv
  <2> QED BY <2>1, <2>2, BecomeStep
<1>6. ASSUME NEW s \in Streams, NEW f \in Streams, NEW onEvent \in BOOLEAN,
             hs_reset_and_copy_stream(s, f, onEvent)
      PROVE  IInv'
  <2>1. /\ app' = app /\ buf' = buf /\ live' = live /\ f \in live
        /\ Become(s, stream[f], text[f], seen[f])
    BY <1>6 DEF hs_reset_and_copy_stream
  <2>2. /\ stream[f] \in StreamRecord /\ text[f] \in Texts
        /\ stream[f].status = {} => Keeps(stream[f], text[f])
    BY <2>1 DEF IInv
  <2> QED BY <2>1, <2>2, BecomeStep
<1>7. ASSUME NEW s \in Streams, NEW b \in Buffers, hs_expand_stream(s, b) PROVE IInv'
  <2>1. /\ app' = app /\ buf' = buf /\ live' = live \cup {s} /\ buf[b].kept
        /\ Become(s, expand_stream(Closed, buf[b].z), buf[b].text, buf[b].seen)
    BY <1>7 DEF hs_expand_stream
  <2>2. /\ buf[b].z \in PackedRecord /\ buf[b].text \in Texts
        /\ buf[b].z.status = {} => Packs(buf[b].z, buf[b].text)
    BY <2>1 DEF IInv
  <2>3. /\ expand_stream(Closed, buf[b].z) \in StreamRecord
        /\ expand_stream(Closed, buf[b].z).status = {}
              => Keeps(expand_stream(Closed, buf[b].z), buf[b].text)
    BY <2>2, ClosedType, ExpandKeeps
  <2> QED BY <2>1, <2>2, <2>3, BecomeStep
<1>8. ASSUME NEW s \in Streams, NEW b \in Buffers, NEW onEvent \in BOOLEAN,
             hs_reset_and_expand_stream(s, b, onEvent)
      PROVE  IInv'
  <2>1. /\ app' = app /\ buf' = buf /\ live' = live /\ buf[b].kept
        /\ Become(s, expand_stream(stream[s], buf[b].z), buf[b].text, buf[b].seen)
    BY <1>8 DEF hs_reset_and_expand_stream
  <2>2. /\ buf[b].z \in PackedRecord /\ buf[b].text \in Texts
        /\ buf[b].z.status = {} => Packs(buf[b].z, buf[b].text)
        /\ stream[s] \in StreamRecord
    BY <2>1 DEF IInv
  <2>3. /\ expand_stream(stream[s], buf[b].z) \in StreamRecord
        /\ expand_stream(stream[s], buf[b].z).status = {}
              => Keeps(expand_stream(stream[s], buf[b].z), buf[b].text)
    BY <2>2, ExpandKeeps
  <2> QED BY <2>1, <2>2, <2>3, BecomeStep
<1>9. ASSUME UNCHANGED <<app, live, stream, buf, text>> PROVE IInv'
  <2>1. /\ Streams' = Streams /\ Buffers' = Buffers
        /\ StreamRecord' = StreamRecord /\ PackedRecord' = PackedRecord
    BY <1>9, SameApplication
  <2> QED BY <1>9, <2>1 DEF IInv, Texts, Keeps, Packs
<1>10. ASSUME NEW d, NEW e, hs_scan_vector(d, e) PROVE IInv'
  BY <1>9, <1>10 DEF hs_scan_vector
<1>11. ASSUME NEW d, hs_scan(d) PROVE IInv'
  BY <1>9, <1>11 DEF hs_scan
<1>12. CASE UNCHANGED vars
  BY <1>9, <1>12 DEF vars
<1>13. CASE Next
  BY <1>1, <1>2, <1>3, <1>4, <1>5, <1>6, <1>7, <1>8, <1>10, <1>11, <1>13, CompressStep
     DEF Next
<1> QED BY <1>12, <1>13

\* Nothing is open at first, and the buffers hold an unused stream.
LEMMA InitHolds == Init => IInv
<1> SUFFICES ASSUME Init PROVE IInv
  OBVIOUS
<1>1. /\ live = {} /\ stream = [s \in Streams |-> Closed]
      /\ buf = [b \in Buffers |-> NoBuf] /\ text = [s \in Streams |-> <<>>]
  BY DEF Init
<1>2. stream \in [Streams -> StreamRecord] /\ text \in [Streams -> Texts]
  BY <1>1, ClosedType, NoData
<1>3. NoBuf.z \in PackedRecord /\ NoBuf.text \in Texts /\ NoBuf.kept = FALSE
  BY ClosedType, NoData, CompressPacks DEF NoBuf
<1>4. \A b \in Buffers : buf[b] = NoBuf
  BY <1>1
<1> HIDE DEF NoBuf
<1> QED BY <1>1, <1>2, <1>3, <1>4, Zenon DEF IInv

\* What the invariant says of the bytes getHistory hands out.
LEMMA KeepsIsTail ==
    ASSUME NEW z \in StreamRecord, NEW t \in Texts, Keeps(z, t)
    PROVE  LET n == getHistoryAmount(z.offset)
           IN  getHistory(z) = SubSeq(t, Len(t) - n + 1, Len(t))
<1> DEFINE n == getHistoryAmount(z.offset)
           u == SubSeq(t, Len(t) - n + 1, Len(t))
<1>1. HistoryRequired \in Nat /\ Len(t) \in Nat /\ z.offset = Len(t) /\ t \in Seq(Bytes)
  BY StreamAssumption DEF Texts, Keeps
<1>2. n \in Nat /\ n =< HistoryRequired /\ n =< Len(t)
  BY <1>1 DEF getHistoryAmount, Least
<1>3. getHistory(z) = [i \in 1 .. n |-> z.history[HistoryRequired - n + i]]
  BY DEF getHistory
<1> HIDE DEF n
<1>4. u = [i \in 1 .. n |-> t[Len(t) - n + i]]
  <2>1. (Len(t) - n + 1) \in Nat /\ Len(t) - (Len(t) - n + 1) + 1 = n
    BY <1>1, <1>2
  <2>2. u = [i \in 1 .. (Len(t) - (Len(t) - n + 1) + 1) |-> t[i + (Len(t) - n + 1) - 1]]
    BY <1>1, <1>2
  <2>3. \A i \in 1 .. n : i + (Len(t) - n + 1) - 1 = Len(t) - n + i
    BY <1>1, <1>2
  <2> HIDE DEF u
  <2> QED BY <2>1, <2>2, <2>3
<1>5. ASSUME NEW i \in 1 .. n
      PROVE  z.history[HistoryRequired - n + i] = t[Len(t) - n + i]
  <2>1. HistoryRequired - n + i \in 1 .. HistoryRequired
    BY <1>1, <1>2
  <2>2. /\ Len(t) - HistoryRequired + (HistoryRequired - n + i) = Len(t) - n + i
        /\ Len(t) - n + i >= 1
    BY <1>1, <1>2
  <2> QED BY <2>1, <2>2 DEF Keeps
<1> HIDE DEF u
<1>6. getHistory(z) = u
  BY <1>3, <1>4, <1>5
<1> QED BY <1>6 DEF n, u

\* The invariant contains HistoryIsTail.
LEMMA InvImpliesTail == IInv => HistoryIsTail
<1> SUFFICES ASSUME IInv, NEW s \in live, stream[s].status = {}
             PROVE  LET n == getHistoryAmount(stream[s].offset)
                    IN  /\ stream[s].offset = Len(text[s])
                        /\ getHistory(stream[s])
                              = SubSeq(text[s], Len(text[s]) - n + 1, Len(text[s]))
  BY DEF HistoryIsTail
<1>1. stream[s] \in StreamRecord /\ text[s] \in Texts /\ Keeps(stream[s], text[s])
  BY DEF IInv
<1>2. stream[s].offset = Len(text[s])
  BY <1>1 DEF Keeps
<1> QED BY <1>1, <1>2, KeepsIsTail

\* While the offsets of compressed streams fit in a u32, the history that
\* getHistory hands to a scan is the end of all the data written to the stream,
\* through writes, resets, copies, compressions and expansions in any order.
THEOREM StreamHistoryIsTail ==
    ASSUME OffsetsFit
    PROVE  Spec => []HistoryIsTail
<1>1. Init => IInv
  BY InitHolds
<1>2. IInv /\ [Next]_vars => IInv'
  BY NextStep
<1>3. IInv => HistoryIsTail
  BY InvImpliesTail
<1> QED BY <1>1, <1>2, <1>3, PTL DEF Spec

-----------------------------------------------------------------------------
(* What the data of a stream calls for.                                    *)

\* A non-empty set of numbers has a least one.
LEMMA LeastNat ==
    ASSUME NEW T \in SUBSET Nat, T # {}
    PROVE  \E n \in T : \A k \in T : n =< k
<1>1. PICK n \in T : \A k \in T : ~(<<k, n>> \in OpToRel(<, Nat))
  BY Zenon, NatLessThanWellFounded, WFMin
<1>2. \A k \in T : ~(k < n)
  BY Zenon, <1>1 DEF OpToRel
<1> QED
  BY <1>2

-----------------------------------------------------------------------------
(* Reports.                                                                *)

\* Everything that matches in data t while it is being written, and what is
\* reported of it.
LiteralsIn(t) == UNION {At(EndingAt(t, k), k) : k \in 1 .. Len(t)}
AtStart(t) == At(IF t = <<>> THEN {} ELSE OfKind("zero"), 0)
Matches(t) == LiteralsIn(t) \cup AtStart(t)

Wanted(t) == FirstOnly(Matches(t), {})

\* What is reported at the end of data t.
WantedAtEnd(t) ==
    At(OfKind("eod"), Len(t))
        \cup At(IF t = <<>> THEN OfKind("zero_eod") \cup OfKind("zero") ELSE {}, 0)

\* These are the abstract specification's.
LEMMA SameReports ==
    /\ \A t : Promise!Expected(t) = Wanted(t)
    /\ \A t : Promise!ExpectedAtEnd(t) = Wanted(t) \cup WantedAtEnd(t)
    /\ \A D : Promise!Deliveries(D) = Deliveries(D)
<1>0. /\ \A k : Promise!OfKind(k) = OfKind(k)
      /\ \A ps, to : Promise!At(ps, to) = At(ps, to)
      /\ \A w, k : Promise!EndingAt(w, k) = EndingAt(w, k)
      /\ \A R, e : Promise!FirstOnly(R, e) = FirstOnly(R, e)
  <2>1. \A k : Promise!OfKind(k) = OfKind(k)
    BY Zenon DEF Promise!OfKind, OfKind, Promise!Patterns, Patterns, Promise!Pat, Pat
  <2>2. \A ps, to : Promise!At(ps, to) = At(ps, to)
    BY Zenon DEF Promise!At, At
  <2>3. \A w, k : Promise!EndingAt(w, k) = EndingAt(w, k)
    BY Zenon DEF Promise!OfKind, OfKind, Promise!Patterns, Patterns, Promise!Pat, Pat,
       Promise!EndingAt, EndingAt
  <2>4. \A R, e : Promise!FirstOnly(R, e) = FirstOnly(R, e)
    BY Zenon DEF Promise!FirstOnly, FirstOnly, Promise!Single, Single
  <2> QED BY Zenon, <2>1, <2>2, <2>3, <2>4
<1>1. \A t : Promise!Expected(t) = Wanted(t)
  <2> SUFFICES ASSUME NEW t PROVE Promise!Expected(t) = Wanted(t)
    OBVIOUS
  <2> DEFINE U == UNION {Promise!At(Promise!EndingAt(t, k), k) : k \in 1 .. Len(t)}
             V == Promise!At(IF t = <<>> THEN {} ELSE Promise!OfKind("zero"), 0)
  <2>1. U = LiteralsIn(t)
    BY Zenon, <1>0 DEF LiteralsIn
  <2>2. V = AtStart(t)
    BY Zenon, <1>0 DEF AtStart
  <2>3. Promise!Expected(t) = Promise!FirstOnly(U \cup V, {})
    BY Zenon DEF Promise!Expected
  <2> HIDE DEF U, V
  <2> QED BY Zenon, <1>0, <2>1, <2>2, <2>3 DEF Wanted, Matches
<1>2. \A t : Promise!ExpectedAtEnd(t) = Wanted(t) \cup WantedAtEnd(t)
  <2> SUFFICES ASSUME NEW t PROVE Promise!ExpectedAtEnd(t) = Wanted(t) \cup WantedAtEnd(t)
    OBVIOUS
  <2>1. Promise!ExpectedAtEnd(t) = (Promise!Expected(t) \cup At(OfKind("eod"), Len(t)))
          \cup At(IF t = <<>> THEN OfKind("zero_eod") \cup OfKind("zero") ELSE {}, 0)
    BY Zenon DEF Promise!ExpectedAtEnd, Promise!At, At, Promise!OfKind, OfKind,
       Promise!Patterns, Patterns, Promise!Pat, Pat
  <2> QED BY Zenon, <1>1, <2>1 DEF WantedAtEnd
<1>3. \A D : Promise!Deliveries(D) = Deliveries(D)
  BY Zenon DEF Promise!Deliveries, Deliveries
<1> QED BY Zenon, <1>1, <1>2, <1>3

\* What is known of the patterns of an application.
LEMMA PatternFacts ==
    ASSUME app \in Applications
    PROVE  /\ Single \subseteq Patterns
           /\ \A p \in Patterns :
                 /\ Pat[p].lit \in Seq(Bytes) /\ Pat[p].kind \in Kinds
                 /\ Len(Pat[p].lit) =< HistoryRequired + 1
                 /\ Pat[p].kind = "lit" => Pat[p].lit # <<>>
<1>1. /\ app.pat \in [DOMAIN app.pat -> [kind : Kinds, lit : Seq(Bytes)]]
      /\ \A p \in DOMAIN app.pat : app.pat[p].kind = "lit" => app.pat[p].lit # <<>>
      /\ app.single \subseteq DOMAIN app.pat
  BY Zenon, ApplicationAssumption
<1>2. \A p \in DOMAIN app.pat : Len(app.pat[p].lit) =< HistoryRequired + 1
  BY Zenon, StreamAssumption
<1>3. \A p \in DOMAIN app.pat : app.pat[p] \in [kind : Kinds, lit : Seq(Bytes)]
  BY Zenon, <1>1
<1>4. \A p \in DOMAIN app.pat : app.pat[p].lit \in Seq(Bytes) /\ app.pat[p].kind \in Kinds
  BY <1>3
<1> QED BY Zenon, <1>1, <1>2, <1>4 DEF Single, Patterns, Pat

\* A literal ends at position k of w if the bytes before it are the literal's.
Spells(w, k, p) ==
    /\ p \in OfKind("lit") /\ Len(Pat[p].lit) =< k
    /\ \A i \in 1 .. Len(Pat[p].lit) : w[k - Len(Pat[p].lit) + i] = Pat[p].lit[i]

\* EndingAt compares a slice of the data with the literal; byte by byte it says
\* that the literal is spelt there.
LEMMA EndingIff ==
    ASSUME app \in Applications, NEW w \in Seq(Bytes), NEW k \in 1 .. Len(w), NEW p
    PROVE  p \in EndingAt(w, k) <=> Spells(w, k, p)
<1> DEFINE lit == Pat[p].lit
           n == Len(lit)
<1>1. p \in EndingAt(w, k) <=>
         p \in OfKind("lit") /\ n =< k /\ SubSeq(w, k - n + 1, k) = lit
  BY Zenon DEF EndingAt
<1>2. ASSUME p \in OfKind("lit"), n =< k
      PROVE  SubSeq(w, k - n + 1, k) = lit <=> \A i \in 1 .. n : w[k - n + i] = lit[i]
  <2>1. lit \in Seq(Bytes) /\ n \in Nat /\ k \in Nat /\ Len(w) \in Nat
    BY <1>2, PatternFacts DEF OfKind
  <2> HIDE DEF lit
  <2> DEFINE s == SubSeq(w, k - n + 1, k)
  <2>2. s = [i \in 1 .. n |-> w[k - n + i]]
    <3>1. k - n + 1 \in Int /\ k - (k - n + 1) + 1 = n
      BY <2>1
    <3>2. s = [i \in 1 .. (k - (k - n + 1) + 1) |-> w[i + (k - n + 1) - 1]]
      BY <1>2, <2>1
    <3>3. \A i \in 1 .. n : i + (k - n + 1) - 1 = k - n + i
      BY <2>1
    <3> HIDE DEF s
    <3> QED BY <3>1, <3>2, <3>3
  <2>3. lit = [i \in 1 .. n |-> lit[i]]
    BY <2>1
  <2> HIDE DEF s, n
  <2>4. ASSUME s = lit, NEW i \in 1 .. n PROVE w[k - n + i] = lit[i]
    BY Zenon, <2>2, <2>4
  <2>5. ASSUME \A i \in 1 .. n : w[k - n + i] = lit[i] PROVE s = lit
    BY <2>2, <2>3, <2>5
  <2> QED BY Zenon, <2>4, <2>5 DEF s
<1> HIDE DEF lit, n
<1>3. p \in EndingAt(w, k) <=>
         p \in OfKind("lit") /\ n =< k /\ \A i \in 1 .. n : w[k - n + i] = lit[i]
  BY Zenon, <1>1, <1>2
<1> QED BY Zenon, <1>3 DEF lit, n, Spells

\* A match is a pattern and an offset of the data.
LEMMA MatchIff ==
    ASSUME NEW t \in Seq(Bytes), NEW r
    PROVE  r \in Matches(t) <=>
              \/ \E k \in 1 .. Len(t) : \E p \in EndingAt(t, k) : r = <<p, k>>
              \/ t # <<>> /\ \E p \in OfKind("zero") : r = <<p, 0>>
<1>1. r \in LiteralsIn(t) <=>
         \E k \in 1 .. Len(t) : \E p \in EndingAt(t, k) : r = <<p, k>>
  BY DEF LiteralsIn, At
<1>2. r \in AtStart(t) <=> t # <<>> /\ \E p \in OfKind("zero") : r = <<p, 0>>
  BY DEF AtStart, At
<1> QED BY Zenon, <1>1, <1>2 DEF Matches

\* The same of a pair, which is how the literal matcher raises a match.
LEMMA MatchPair ==
    ASSUME NEW t \in Seq(Bytes), NEW p, NEW k
    PROVE  <<p, k>> \in Matches(t) <=>
              \/ k \in 1 .. Len(t) /\ p \in EndingAt(t, k)
              \/ k = 0 /\ t # <<>> /\ p \in OfKind("zero")
BY MatchIff

\* A match is of a literal or a vacuous pattern and lies within the data.
LEMMA MatchType ==
    ASSUME NEW t \in Seq(Bytes), NEW r \in Matches(t)
    PROVE  /\ r = <<r[1], r[2]>> /\ r[1] \in Patterns
           /\ r[2] \in Nat /\ r[2] =< Len(t)
           /\ Pat[r[1]].kind \in {"lit", "zero"}
<1>1. CASE \E k \in 1 .. Len(t) : \E p \in EndingAt(t, k) : r = <<p, k>>
  <2>0. PICK k \in 1 .. Len(t) : \E p \in EndingAt(t, k) : r = <<p, k>>
    BY Zenon, <1>1
  <2>1. PICK p \in EndingAt(t, k) : r = <<p, k>>
    BY Zenon, <2>0
  <2>2. p \in Patterns /\ Pat[p].kind = "lit"
    BY Zenon DEF EndingAt, OfKind
  <2> QED BY <2>1, <2>2
<1>2. CASE \E p \in OfKind("zero") : r = <<p, 0>>
  BY <1>2 DEF OfKind
<1>3. \/ \E k \in 1 .. Len(t) : \E p \in EndingAt(t, k) : r = <<p, k>>
      \/ \E p \in OfKind("zero") : r = <<p, 0>>
  BY MatchIff
<1> QED BY Zenon, <1>1, <1>2, <1>3

\* Of a single-match pattern only the first is reported.
LEMMA WantedIff ==
    ASSUME NEW t, NEW r
    PROVE  r \in Wanted(t) <=>
              /\ r \in Matches(t)
              /\ r[1] \in Single => \A q \in Matches(t) : q[1] = r[1] => r[2] =< q[2]
BY Zenon DEF Wanted, FirstOnly

\* So a single-match pattern is reported at one offset.
LEMMA WantedOnce ==
    ASSUME NEW t \in Seq(Bytes), NEW q \in Wanted(t), NEW r \in Wanted(t),
           q[1] \in Single, q[1] = r[1]
    PROVE  q = r
<1>1. q \in Matches(t) /\ r \in Matches(t)
  BY Zenon, WantedIff
<1>2. q[2] =< r[2] /\ r[2] =< q[2]
  BY Zenon, <1>1, WantedIff
<1>3. q[2] \in Nat /\ r[2] \in Nat /\ q = <<q[1], q[2]>> /\ r = <<r[1], r[2]>>
  BY Zenon, <1>1, MatchType
<1>4. q[2] = r[2]
  BY <1>2, <1>3
<1> QED BY Zenon, <1>3, <1>4

\* A single-match pattern that matches is reported.
LEMMA WantedFirst ==
    ASSUME NEW t \in Seq(Bytes), NEW r \in Matches(t)
    PROVE  \E q \in Wanted(t) : q[1] = r[1] /\ q[2] =< r[2]
<1> DEFINE T == {k \in Nat : <<r[1], k>> \in Matches(t)}
<1>1. r = <<r[1], r[2]>> /\ r[2] \in Nat
  BY Zenon, MatchType
<1>2. r[2] \in T
  BY Zenon, <1>1
<1>3. PICK n \in T : \A k \in T : n =< k
  BY Zenon, <1>2, LeastNat
<1> DEFINE q == <<r[1], n>>
<1>4. q \in Matches(t) /\ q[1] = r[1] /\ q[2] = n
  BY Zenon, <1>3
<1>5. ASSUME NEW u \in Matches(t), u[1] = r[1] PROVE n =< u[2]
  <2>1. u = <<r[1], u[2]>> /\ u[2] \in Nat
    BY Zenon, <1>5, MatchType
  <2>2. u[2] \in T
    BY Zenon, <1>5, <2>1
  <2> QED BY Zenon, <1>3, <2>2
<1> HIDE DEF q
<1>6. q \in Wanted(t)
  BY Zenon, <1>4, <1>5, WantedIff
<1> QED BY Zenon, <1>2, <1>3, <1>4, <1>6

-----------------------------------------------------------------------------
(* Cutting the data into writes.                                           *)

\* More data leaves what ended before alone.
LEMMA EndingEarlier ==
    ASSUME app \in Applications, NEW t \in Seq(Bytes), NEW d \in Seq(Bytes),
           NEW k \in 1 .. Len(t), NEW p
    PROVE  p \in EndingAt(t \o d, k) <=> p \in EndingAt(t, k)
<1>1. /\ t \o d \in Seq(Bytes) /\ k \in 1 .. Len(t \o d)
      /\ \A i \in 1 .. Len(t) : (t \o d)[i] = t[i]
  BY ConcatProperties
<1>2. p \in OfKind("lit") => Len(Pat[p].lit) \in Nat
  BY PatternFacts DEF OfKind
<1>3. ASSUME p \in OfKind("lit"), Len(Pat[p].lit) =< k, NEW i \in 1 .. Len(Pat[p].lit)
      PROVE  (t \o d)[k - Len(Pat[p].lit) + i] = t[k - Len(Pat[p].lit) + i]
  <2>1. k - Len(Pat[p].lit) + i \in 1 .. Len(t)
    BY <1>2, <1>3
  <2> QED BY Zenon, <1>1, <2>1
<1>4. /\ p \in EndingAt(t \o d, k) <=> Spells(t \o d, k, p)
      /\ p \in EndingAt(t, k) <=> Spells(t, k, p)
  BY Zenon, <1>1, EndingIff
<1>5. Spells(t \o d, k, p) <=> Spells(t, k, p)
  BY Zenon, <1>3 DEF Spells
<1> QED BY Zenon, <1>4, <1>5

\* The history that a scan is given is the end of the data.
LEMMA HistoryBytes ==
    ASSUME NEW z \in StreamRecord, NEW t \in Seq(Bytes), Keeps(z, t)
    PROVE  /\ getHistory(z) \in Seq(Bytes)
           /\ Len(getHistory(z)) = Least(HistoryRequired, Len(t))
           /\ \A i \in 1 .. Len(getHistory(z)) :
                 getHistory(z)[i] = t[Len(t) - Len(getHistory(z)) + i]
<1> DEFINE n == getHistoryAmount(z.offset)
           h == getHistory(z)
<1>1. HistoryRequired \in Nat /\ Len(t) \in Nat /\ z.offset = Len(t)
  BY StreamAssumption DEF Keeps
<1>2. /\ n = Least(HistoryRequired, Len(t))
      /\ n \in Nat /\ n =< HistoryRequired /\ n =< Len(t)
  BY <1>1 DEF getHistoryAmount, Least
<1>3. h = [i \in 1 .. n |-> z.history[HistoryRequired - n + i]]
  BY DEF getHistory
<1> HIDE DEF n, h
<1>4. ASSUME NEW i \in 1 .. n
      PROVE  /\ z.history[HistoryRequired - n + i] = t[Len(t) - n + i]
             /\ Len(t) - n + i \in 1 .. Len(t)
  <2>1. HistoryRequired - n + i \in 1 .. HistoryRequired /\ Len(t) - n + i \in 1 .. Len(t)
    BY <1>1, <1>2
  <2>2. /\ Len(t) - HistoryRequired + (HistoryRequired - n + i) = Len(t) - n + i
        /\ Len(t) - n + i >= 1
    BY <1>1, <1>2
  <2>3. z.history[HistoryRequired - n + i]
           = t[Len(t) - HistoryRequired + (HistoryRequired - n + i)]
    BY <2>1, <2>2 DEF Keeps
  <2> QED BY <2>1, <2>2, <2>3
<1>5. h = [i \in 1 .. n |-> t[Len(t) - n + i]]
  BY <1>3, <1>4
<1>6. ASSUME NEW i \in 1 .. n PROVE t[Len(t) - n + i] \in Bytes
  BY <1>4, ElementOfSeq
<1>7. h \in [1 .. n -> Bytes]
  BY <1>5, <1>6
<1>8. h \in Seq(Bytes) /\ Len(h) = n
  <2>1. h \in Seq(Bytes)
    BY <1>2, <1>7, SeqDef
  <2>2. DOMAIN h = 1 .. n
    BY <1>7
  <2>3. DOMAIN h = 1 .. Len(h) /\ Len(h) \in Nat
    BY <2>1, LenProperties
  <2> QED BY <1>2, <2>1, <2>2, <2>3
<1>9. \A i \in 1 .. Len(h) : h[i] = t[Len(t) - Len(h) + i]
  BY Zenon, <1>5, <1>8
<1> QED BY Zenon, <1>2, <1>8, <1>9 DEF h

\* With the history before it, a write shows every literal that ends in it, for
\* no literal is longer than the history and one byte.
LEMMA EndingInWrite ==
    ASSUME app \in Applications, NEW z \in StreamRecord, NEW t \in Seq(Bytes),
           Keeps(z, t), NEW d \in Seq(Bytes), NEW k \in 1 .. Len(d), NEW p
    PROVE  p \in EndingAt(getHistory(z) \o d, Len(getHistory(z)) + k)
              <=> p \in EndingAt(t \o d, Len(t) + k)
<1> DEFINE h == getHistory(z)
           n == Len(Pat[p].lit)
           a == Len(h) + k
           b == Len(t) + k
<1>1. /\ h \in Seq(Bytes) /\ Len(h) = Least(HistoryRequired, Len(t))
      /\ \A i \in 1 .. Len(h) : h[i] = t[Len(t) - Len(h) + i]
  BY Zenon, HistoryBytes
<1> HIDE DEF h
<1>2. HistoryRequired \in Nat /\ Len(t) \in Nat /\ Len(d) \in Nat /\ Len(h) \in Nat
  BY <1>1, StreamAssumption
<1>3. /\ h \o d \in Seq(Bytes) /\ Len(h \o d) = Len(h) + Len(d)
      /\ \A i \in 1 .. Len(h) + Len(d) :
            (h \o d)[i] = IF i =< Len(h) THEN h[i] ELSE d[i - Len(h)]
  BY Zenon, <1>1, ConcatProperties
<1>4. /\ t \o d \in Seq(Bytes) /\ Len(t \o d) = Len(t) + Len(d)
      /\ \A i \in 1 .. Len(t) + Len(d) :
            (t \o d)[i] = IF i =< Len(t) THEN t[i] ELSE d[i - Len(t)]
  BY ConcatProperties
<1>5. p \in OfKind("lit") => n \in Nat /\ n =< HistoryRequired + 1
  BY PatternFacts DEF OfKind
<1>6. a \in 1 .. Len(h \o d) /\ b \in 1 .. Len(t \o d)
  BY <1>2, <1>3, <1>4
<1>7. /\ p \in EndingAt(h \o d, a) <=> Spells(h \o d, a, p)
      /\ p \in EndingAt(t \o d, b) <=> Spells(t \o d, b, p)
  <2> HIDE DEF a, b
  <2> QED BY Zenon, <1>3, <1>4, <1>6, EndingIff
<1>8. p \in OfKind("lit") => (n =< a <=> n =< b)
  BY <1>1, <1>2, <1>5 DEF Least
<1>9. ASSUME p \in OfKind("lit"), n =< a, NEW i \in 1 .. n
      PROVE  (h \o d)[a - n + i] = (t \o d)[b - n + i]
  <2>1. Len(h) =< Len(t)
    BY <1>1, <1>2 DEF Least
  <2>2. a - n + i \in 1 .. Len(h) + Len(d) /\ b - n + i \in 1 .. Len(t) + Len(d)
    <3>1. n \in Nat /\ n =< a /\ n =< b
      BY Zenon, <1>5, <1>8, <1>9
    <3> HIDE DEF n
    <3> QED BY <1>2, <3>1
  <2>3. CASE a - n + i =< Len(h)
    <3>1. a - n + i \in 1 .. Len(h)
      BY <2>2, <2>3, <1>2
    <3>2. b - n + i =< Len(t) /\ Len(t) - Len(h) + (a - n + i) = b - n + i
      BY <1>2, <1>5, <1>9, <2>3
    <3>3. (h \o d)[a - n + i] = h[a - n + i] /\ (t \o d)[b - n + i] = t[b - n + i]
      BY <1>3, <1>4, <2>2, <2>3, <3>2
    <3>4. h[a - n + i] = t[Len(t) - Len(h) + (a - n + i)]
      BY Zenon, <1>1, <3>1
    <3> QED BY Zenon, <3>2, <3>3, <3>4
  <2>4. CASE ~(a - n + i =< Len(h))
    <3>1. ~(b - n + i =< Len(t)) /\ (b - n + i) - Len(t) = (a - n + i) - Len(h)
      BY <1>2, <1>5, <1>9, <2>4
    <3>2. (h \o d)[a - n + i] = d[(a - n + i) - Len(h)]
             /\ (t \o d)[b - n + i] = d[(b - n + i) - Len(t)]
      BY Zenon, <1>3, <1>4, <2>2, <2>4, <3>1
    <3> QED BY Zenon, <3>1, <3>2
  <2> QED BY Zenon, <2>3, <2>4
<1>10. Spells(h \o d, a, p) <=> Spells(t \o d, b, p)
  <2> HIDE DEF a, b
  <2> QED BY Zenon, <1>8, <1>9 DEF Spells
<1> HIDE DEF a, b
<1>11. p \in EndingAt(h \o d, a) <=> p \in EndingAt(t \o d, b)
  BY Zenon, <1>7, <1>10
<1> QED BY Zenon, <1>11 DEF a, b, h

\* What a write of d after t adds to the matches.
Fresh(t, d) == Matches(t \o d) \ Matches(t)

\* It matches later than everything before, and takes nothing away.
LEMMA FreshLater ==
    ASSUME app \in Applications, NEW t \in Seq(Bytes), NEW d \in Seq(Bytes)
    PROVE  /\ Matches(t \o d) = Matches(t) \cup Fresh(t, d)
           /\ \A q \in Matches(t), r \in Fresh(t, d) : q[2] < r[2]
<1>1. /\ t \o d \in Seq(Bytes) /\ Len(t \o d) = Len(t) + Len(d)
      /\ Len(t) \in Nat /\ Len(d) \in Nat
  BY ConcatProperties
<1>2. t # <<>> => t \o d # <<>>
  BY <1>1, EmptySeq
<1>3. ASSUME NEW r \in Matches(t) PROVE r \in Matches(t \o d)
  <2>1. r = <<r[1], r[2]>>
    BY Zenon, MatchType
  <2>2. \/ r[2] \in 1 .. Len(t) /\ r[1] \in EndingAt(t, r[2])
        \/ r[2] = 0 /\ t # <<>> /\ r[1] \in OfKind("zero")
    BY Zenon, <2>1, MatchPair
  <2>3. r[2] \in 1 .. Len(t) => r[2] \in 1 .. Len(t \o d)
    BY <1>1
  <2>4. \/ r[2] \in 1 .. Len(t \o d) /\ r[1] \in EndingAt(t \o d, r[2])
        \/ r[2] = 0 /\ t \o d # <<>> /\ r[1] \in OfKind("zero")
    BY Zenon, <1>2, <2>2, <2>3, EndingEarlier
  <2> QED BY Zenon, <1>1, <2>1, <2>4, MatchPair
<1>4. ASSUME NEW r \in Fresh(t, d), t # <<>> PROVE r[2] > Len(t)
  <2>1. r \in Matches(t \o d) /\ r \notin Matches(t)
    BY Zenon DEF Fresh
  <2>2. r = <<r[1], r[2]>> /\ r[2] \in Nat
    BY Zenon, <1>1, <2>1, MatchType
  <2>3. \/ r[2] \in 1 .. Len(t \o d) /\ r[1] \in EndingAt(t \o d, r[2])
        \/ r[2] = 0 /\ t \o d # <<>> /\ r[1] \in OfKind("zero")
    BY Zenon, <1>1, <2>1, <2>2, MatchPair
  <2>4. ~(r[2] = 0 /\ r[1] \in OfKind("zero"))
    BY Zenon, <1>4, <2>1, <2>2, MatchPair
  <2>5. r[2] \notin 1 .. Len(t)
    BY Zenon, <2>1, <2>2, <2>3, <2>4, MatchPair, EndingEarlier
  <2>6. r[2] \in 1 .. Len(t \o d)
    BY Zenon, <2>3, <2>4
  <2> QED BY <1>1, <2>5, <2>6
<1>5. ASSUME NEW q \in Matches(t), NEW r \in Fresh(t, d) PROVE q[2] < r[2]
  <2>1. q[2] \in Nat /\ q[2] =< Len(t)
    BY Zenon, MatchType
  <2>2. t # <<>>
    <3>1. \/ \E k \in 1 .. Len(t) : \E p \in EndingAt(t, k) : q = <<p, k>>
          \/ t # <<>>
      BY Zenon, MatchIff
    <3> QED BY <3>1
  <2>3. r[2] > Len(t)
    BY Zenon, <1>4, <2>2
  <2>4. r[2] \in Nat
    BY Zenon, <1>1, MatchType DEF Fresh
  <2> QED BY <1>1, <2>1, <2>3, <2>4
<1>6. Matches(t \o d) = Matches(t) \cup Fresh(t, d)
  BY Zenon, <1>3 DEF Fresh
<1> QED BY Zenon, <1>5, <1>6

\* What is reported before a write stays reported; what is due for the write is
\* what the exhaustion vector lets through of its matches.
LEMMA DueForWrite ==
    ASSUME app \in Applications, NEW t \in Seq(Bytes), NEW d \in Seq(Bytes)
    PROVE  /\ Wanted(t) \subseteq Wanted(t \o d)
           /\ FirstOnly(Fresh(t, d), KeysOf(Wanted(t))) = Wanted(t \o d) \ Wanted(t)
           /\ \A q \in Wanted(t), r \in Wanted(t \o d) \ Wanted(t) : q[2] =< r[2]
<1> DEFINE M == Matches(t)
           D == Fresh(t, d)
           N == Matches(t \o d)
<1>1. N = M \cup D /\ \A q \in M, r \in D : q[2] < r[2]
  BY Zenon, FreshLater
<1>2. t \o d \in Seq(Bytes)
  BY ConcatProperties
<1>3. /\ \A q \in M : q[2] \in Nat
      /\ \A q \in D : q[2] \in Nat
      /\ \A q \in D : q \notin M
  BY Zenon, <1>2, MatchType DEF Fresh
<1>4. /\ \A r : r \in Wanted(t) <=>
            r \in M /\ (r[1] \in Single => \A q \in M : q[1] = r[1] => r[2] =< q[2])
      /\ \A r : r \in Wanted(t \o d) <=>
            r \in N /\ (r[1] \in Single => \A q \in N : q[1] = r[1] => r[2] =< q[2])
  BY Zenon, WantedIff
<1>5. \A r : r \in FirstOnly(D, KeysOf(Wanted(t))) <=>
         r \in D /\ (r[1] \in Single =>
             /\ \A q \in Wanted(t) : q[1] # r[1]
             /\ \A q \in D : q[1] = r[1] => r[2] =< q[2])
  BY Zenon DEF FirstOnly, KeysOf
<1>6. \A r \in M : \E q \in Wanted(t) : q[1] = r[1]
  BY Zenon, WantedFirst
<1> HIDE DEF M, D, N
<1>7. \A q \in M, r \in D : q[2] =< r[2] /\ ~(r[2] =< q[2])
  BY <1>1, <1>3
<1>8. ASSUME NEW r \in Wanted(t) PROVE r \in Wanted(t \o d)
  BY Zenon, <1>1, <1>4, <1>7
<1>9. ASSUME NEW r \in FirstOnly(D, KeysOf(Wanted(t)))
      PROVE  r \in Wanted(t \o d) /\ r \notin Wanted(t)
  <2>1. r \in D /\ r \notin M /\ r \in N
    BY Zenon, <1>1, <1>3, <1>5
  <2>2. ASSUME r[1] \in Single, NEW q \in N, q[1] = r[1] PROVE r[2] =< q[2]
    <3>1. q \notin M
      BY ZenonT(30), <1>5, <1>6, <2>2
    <3> QED BY Zenon, <1>1, <1>5, <2>2, <3>1
  <2> QED BY Zenon, <1>4, <2>1, <2>2
<1>10. ASSUME NEW r \in Wanted(t \o d), r \notin Wanted(t)
       PROVE  r \in D /\ r \in FirstOnly(D, KeysOf(Wanted(t)))
  <2>1. r \in N
    BY Zenon, <1>4
  <2>2. r \notin M
    BY Zenon, <1>1, <1>4, <1>10
  <2>3. r \in D
    BY Zenon, <1>1, <2>1, <2>2
  <2>4. ASSUME r[1] \in Single, NEW q \in Wanted(t) PROVE q[1] # r[1]
    BY Zenon, <1>1, <1>4, <1>7, <2>3, <2>4
  <2>5. ASSUME r[1] \in Single, NEW q \in D, q[1] = r[1] PROVE r[2] =< q[2]
    BY Zenon, <1>1, <1>4, <2>5
  <2> QED BY Zenon, <1>5, <2>3, <2>4, <2>5
<1>11. ASSUME NEW q \in Wanted(t), NEW r \in Wanted(t \o d), r \notin Wanted(t)
       PROVE  q[2] =< r[2]
  BY Zenon, <1>4, <1>7, <1>10, <1>11
<1>12. FirstOnly(D, KeysOf(Wanted(t))) = Wanted(t \o d) \ Wanted(t)
  BY Zenon, <1>9, <1>10
<1> QED BY Zenon, <1>8, <1>11, <1>12 DEF D

\* The boundary program and the literal matcher raise the matches that a write
\* adds.
LEMMA ScanRaises ==
    ASSUME app \in Applications, NEW z \in StreamRecord, NEW t \in Seq(Bytes),
           Keeps(z, t), NEW d \in Seq(Bytes), d # <<>>
    PROVE  (IF z.offset = 0 THEN BoundaryZero ELSE {})
              \cup hwlmExec(getHistory(z), z.offset, d) = Fresh(t, d)
<1> DEFINE h == getHistory(z)
           zero == IF z.offset = 0 THEN BoundaryZero ELSE {}
           lits == hwlmExec(h, z.offset, d)
<1>1. /\ t \o d \in Seq(Bytes) /\ Len(t \o d) = Len(t) + Len(d)
      /\ Len(t) \in Nat /\ Len(d) \in Nat /\ z.offset = Len(t)
  BY ConcatProperties DEF Keeps
<1>2. t \o d # <<>> /\ (z.offset = 0 <=> t = <<>>)
  BY <1>1, EmptySeq
<1>3. \A r : r \in zero <=> t = <<>> /\ \E p \in OfKind("zero") : r = <<p, 0>>
  BY <1>2 DEF BoundaryZero, At
<1>4. \A r : r \in lits <=>
         \E k \in 1 .. Len(d) : \E p \in EndingAt(h \o d, Len(h) + k) : r = <<p, Len(t) + k>>
  <2>1. lits = UNION {At(EndingAt(h \o d, Len(h) + k), Len(t) + k) : k \in 1 .. Len(d)}
    BY Zenon, <1>1 DEF hwlmExec
  <2>2. \A k, r : r \in At(EndingAt(h \o d, Len(h) + k), Len(t) + k) <=>
           \E p \in EndingAt(h \o d, Len(h) + k) : r = <<p, Len(t) + k>>
    BY Zenon DEF At
  <2> HIDE DEF lits, h
  <2> QED BY ZenonT(30), <2>1, <2>2
<1>5. \A r : r \in lits <=>
         \E k \in 1 .. Len(d) : \E p \in EndingAt(t \o d, Len(t) + k) : r = <<p, Len(t) + k>>
  BY Zenon, <1>4, EndingInWrite
<1> HIDE DEF h, zero, lits
<1>6. ASSUME NEW r \in zero PROVE r \in Fresh(t, d)
  <2>1. t = <<>>
    BY Zenon, <1>3
  <2>2. PICK p \in OfKind("zero") : r = <<p, 0>>
    BY Zenon, <1>3
  <2>3. r \in Matches(t \o d)
    BY Zenon, <1>1, <1>2, <2>2, MatchPair
  <2>4. 0 \notin 1 .. Len(t)
    BY <1>1
  <2>5. r \notin Matches(t)
    BY Zenon, <2>1, <2>2, <2>4, MatchPair
  <2> QED BY Zenon, <2>3, <2>5 DEF Fresh
<1>7. ASSUME NEW r \in lits PROVE r \in Fresh(t, d)
  <2>1. PICK k \in 1 .. Len(d) : \E p \in EndingAt(t \o d, Len(t) + k) : r = <<p, Len(t) + k>>
    BY Zenon, <1>5
  <2>2. PICK p \in EndingAt(t \o d, Len(t) + k) : r = <<p, Len(t) + k>>
    BY Zenon, <2>1
  <2>3. Len(t) + k \in 1 .. Len(t \o d) /\ Len(t) + k \notin 1 .. Len(t) /\ Len(t) + k # 0
    BY <1>1
  <2>4. r \in Matches(t \o d)
    BY Zenon, <1>1, <2>2, <2>3, MatchPair
  <2>5. r[2] = Len(t) + k
    BY <2>2
  <2>6. r \in Matches(t) => r[2] =< Len(t)
    BY Zenon, MatchType
  <2>7. ~(Len(t) + k =< Len(t))
    BY <1>1
  <2> QED BY Zenon, <2>4, <2>5, <2>6, <2>7 DEF Fresh
<1>8. ASSUME NEW r \in Fresh(t, d) PROVE r \in zero \cup lits
  <2>1. r \in Matches(t \o d) /\ r \notin Matches(t)
    BY Zenon DEF Fresh
  <2> DEFINE p == r[1]
             k == r[2]
  <2>2. r = <<p, k>>
    BY Zenon, <1>1, <2>1, MatchType
  <2> HIDE DEF p, k
  <2>3. \/ k \in 1 .. Len(t \o d) /\ p \in EndingAt(t \o d, k)
        \/ k = 0 /\ t \o d # <<>> /\ p \in OfKind("zero")
    BY Zenon, <1>1, <2>1, <2>2, MatchPair
  <2>4. CASE k \in 1 .. Len(t \o d) /\ p \in EndingAt(t \o d, k)
    <3>1. k \notin 1 .. Len(t)
      BY Zenon, <2>1, <2>2, <2>4, MatchPair, EndingEarlier
    <3>2. k - Len(t) \in 1 .. Len(d) /\ Len(t) + (k - Len(t)) = k
      BY <1>1, <2>4, <3>1
    <3>3. p \in EndingAt(t \o d, Len(t) + (k - Len(t))) /\ r = <<p, Len(t) + (k - Len(t))>>
      BY Zenon, <2>2, <2>4, <3>2
    <3>4. r \in lits
      BY Zenon, <1>5, <3>2, <3>3
    <3> QED BY Zenon, <3>4
  <2>5. CASE k = 0 /\ p \in OfKind("zero")
    BY Zenon, <1>3, <2>1, <2>2, <2>5, MatchPair
  <2> QED BY Zenon, <2>3, <2>4, <2>5
<1>9. zero \cup lits = Fresh(t, d)
  BY Zenon, <1>6, <1>7, <1>8
<1> QED BY Zenon, <1>9 DEF zero, lits, h

-----------------------------------------------------------------------------
(* The invariant.                                                          *)

\* What a stream with data t and state z has reported, r: everything, unless a
\* callback stopped it; the exhaustion vector knows which of it was to be
\* reported once; and a stream is marked exhausted when that is everything.
Reported(z, t, r) ==
    "TERMINATED" \notin z.status =>
        /\ r = Wanted(t) /\ z.evec = KeysOf(Wanted(t))
        /\ z.status # {} => Patterns # {} /\ z.evec = Patterns

RInv ==
    /\ app \in Applications
    /\ seen = [s \in Streams |-> seen[s]]
    /\ \A s \in live : Reported(stream[s], text[s], seen[s])
    /\ \A b \in Buffers : buf[b].kept => Reported(buf[b].z, buf[b].text, buf[b].seen)

-----------------------------------------------------------------------------
(* Delivering reports.                                                     *)

\* Reports that were made up to one that asked to stop.
StopsAt(Q, D, r) ==
    r \in Q /\ (\A q \in Q : q[2] =< r[2]) /\ \A q \in D \ Q : r[2] =< q[2]

\* What the callbacks of a call get is all that is due, or all up to one report
\* at which the callback asks to stop.
LEMMA DeliveryIff ==
    ASSUME NEW D, NEW a
    PROVE  a \in Deliveries(D) <=>
              \/ a = [out |-> D, acked |-> D, halt |-> FALSE]
              \/ \E Q \in SUBSET D : \E r \in Q :
                    StopsAt(Q, D, r) /\ a = [out |-> Q, acked |-> Q \ {r}, halt |-> TRUE]
<1> DEFINE S(Q) == {[out |-> Q, acked |-> Q \ {r}, halt |-> TRUE] : r \in
                      {r \in Q : /\ \A q \in Q : q[2] =< r[2]
                                 /\ \A d \in D \ Q : r[2] =< d[2]}}
<1>1. Deliveries(D) = {[out |-> D, acked |-> D, halt |-> FALSE]}
                        \cup UNION {S(Q) : Q \in SUBSET D}
  BY Zenon DEF Deliveries
<1>2. ASSUME NEW Q
      PROVE  a \in S(Q) <=> \E r \in Q : StopsAt(Q, D, r)
                               /\ a = [out |-> Q, acked |-> Q \ {r}, halt |-> TRUE]
  BY Zenon DEF StopsAt
<1> HIDE DEF S
<1>3. a \in Deliveries(D) <=> a = [out |-> D, acked |-> D, halt |-> FALSE]
                                \/ \E Q \in SUBSET D : a \in S(Q)
  BY Zenon, <1>1
<1> QED BY Zenon, <1>2, <1>3

\* A callback may ask to stop at any report that the order allows.
LEMMA DeliveryStop ==
    ASSUME NEW D, NEW Q \in SUBSET D, NEW r, StopsAt(Q, D, r)
    PROVE  [out |-> Q, acked |-> Q \ {r}, halt |-> TRUE] \in Deliveries(D)
<1>1. r \in Q
  BY Zenon DEF StopsAt
<1> QED BY Zenon, <1>1, DeliveryIff

\* Only what is due is delivered, and all of it if no callback asks to stop.
LEMMA DeliveryFacts ==
    ASSUME NEW D, NEW a \in Deliveries(D)
    PROVE  /\ a.out \subseteq D
           /\ a.halt \in BOOLEAN
           /\ ~a.halt => a.out = D /\ a.acked = D
           /\ a.halt => \E r \in a.out : StopsAt(a.out, D, r)
<1>1. CASE a = [out |-> D, acked |-> D, halt |-> FALSE]
  BY <1>1
<1>2. ASSUME NEW Q \in SUBSET D, NEW r \in Q, StopsAt(Q, D, r),
             a = [out |-> Q, acked |-> Q \ {r}, halt |-> TRUE]
      PROVE  /\ a.out \subseteq D
             /\ a.halt \in BOOLEAN
             /\ ~a.halt => a.out = D /\ a.acked = D
             /\ a.halt => \E x \in a.out : StopsAt(a.out, D, x)
  <2>1. a.out = Q /\ a.halt = TRUE
    BY <1>2
  <2> QED BY Zenon, <1>2, <2>1
<1> QED BY Zenon, <1>1, <1>2, DeliveryIff

\* With nothing due nothing is delivered.
LEMMA NothingDue == \A a : a \in Deliveries({}) <=> a = [out |-> {}, acked |-> {}, halt |-> FALSE]
BY Zenon, DeliveryIff

\* A holds the earliest of the reports in B.
Before(A, B) == A \subseteq B /\ \A x \in A, y \in B \ A : x[2] =< y[2]

\* The reports o reach the callback of those due, and it asks to stop or not.
Delivers(D, o, h) == \E b \in Deliveries(D) : b.out = o /\ b.halt = h

\* A callback that stops among the earlier of the due reports stops among all.
LEMMA StopEarly ==
    ASSUME NEW A, NEW B, Before(A, B), NEW o, Delivers(A, o, TRUE)
    PROVE  Delivers(B, o, TRUE)
<1> PICK a \in Deliveries(A) : a.out = o /\ a.halt = TRUE
  BY Zenon DEF Delivers
<1>0. A \subseteq B /\ \A x \in A, y \in B \ A : x[2] =< y[2]
  BY Zenon DEF Before
<1>1. a.out \subseteq A
  BY Zenon, DeliveryFacts
<1>2. PICK r \in a.out : StopsAt(a.out, A, r)
  BY Zenon, DeliveryFacts
<1> DEFINE Q == a.out
<1>3. Q \in SUBSET B
  BY Zenon, <1>0, <1>1
<1>4. StopsAt(Q, B, r)
  <2>1. r \in Q /\ \A q \in Q : q[2] =< r[2]
    BY Zenon, <1>2 DEF StopsAt
  <2>2. ASSUME NEW q \in B \ Q PROVE r[2] =< q[2]
    BY Zenon, <1>0, <1>1, <1>2 DEF StopsAt
  <2> QED BY Zenon, <2>1, <2>2 DEF StopsAt
<1> DEFINE b == [out |-> Q, acked |-> Q \ {r}, halt |-> TRUE]
<1>5. b \in Deliveries(B)
  BY Zenon, <1>3, <1>4, DeliveryStop
<1>6. b.out = a.out /\ b.halt = TRUE
  BY Zenon
<1> HIDE DEF b
<1> QED BY Zenon, <1>5, <1>6 DEF Delivers

\* Delivering the earlier reports and then the later ones delivers them all.
LEMMA DeliverOn ==
    ASSUME NEW A, NEW B, Before(A, B), NEW o, NEW h,
           Delivers(B \ A, o, h)
    PROVE  Delivers(B, A \cup o, h)
<1> PICK a \in Deliveries(B \ A) : a.out = o /\ a.halt = h
  BY Zenon DEF Delivers
<1>0. A \subseteq B /\ \A x \in A, y \in B \ A : x[2] =< y[2]
  BY Zenon DEF Before
<1>1. CASE ~a.halt
  <2> DEFINE b == [out |-> B, acked |-> B, halt |-> FALSE]
  <2>1. b \in Deliveries(B)
    BY Zenon, DeliveryIff
  <2>2. a.out = B \ A /\ a.halt = FALSE
    BY Zenon, <1>1, DeliveryFacts
  <2>3. A \cup a.out = B
    BY Zenon, <1>0, <2>2
  <2>4. b.out = B /\ b.halt = FALSE
    BY Zenon
  <2> HIDE DEF b
  <2> QED BY Zenon, <2>1, <2>2, <2>3, <2>4 DEF Delivers
<1>2. CASE a.halt
  <2>1. a.out \subseteq B \ A /\ a.halt = TRUE
    BY Zenon, <1>2, DeliveryFacts
  <2>2. PICK r \in a.out : StopsAt(a.out, B \ A, r)
    BY Zenon, <1>2, DeliveryFacts
  <2> DEFINE Q == A \cup a.out
  <2>3. Q \in SUBSET B
    BY Zenon, <1>0, <2>1
  <2>4. StopsAt(Q, B, r)
    BY Zenon, <1>0, <2>1, <2>2 DEF StopsAt
  <2> DEFINE b == [out |-> Q, acked |-> Q \ {r}, halt |-> TRUE]
  <2>5. b \in Deliveries(B)
    BY Zenon, <2>3, <2>4, DeliveryStop
  <2>6. b.out = Q /\ b.halt = TRUE
    BY Zenon
  <2> HIDE DEF b
  <2> QED BY Zenon, <2>1, <2>5, <2>6 DEF Delivers
<1> QED BY Zenon, <1>1, <1>2

-----------------------------------------------------------------------------
(* What a scan and the end of the data report.                             *)

\* Nothing was reported before the first byte.
LEMMA WantedOfNothing == Wanted(<<>>) = {} /\ KeysOf(Wanted(<<>>)) = {}
<1>1. <<>> \in Seq(Bytes) /\ 1 .. Len(<<>>) = {}
  OBVIOUS
<1>2. \A r : r \notin Matches(<<>>)
  BY Zenon, <1>1, MatchIff
<1>3. Wanted(<<>>) = {}
  BY Zenon, <1>2, WantedIff
<1> QED BY Zenon, <1>3 DEF KeysOf

\* Exhausted: every pattern was reported, and there is nothing left to report.
LEMMA Exhausted ==
    ASSUME app \in Applications, NEW t \in Seq(Bytes), Patterns # {},
           KeysOf(Wanted(t)) = Patterns
    PROVE  /\ \A d \in Seq(Bytes) : Wanted(t \o d) = Wanted(t)
           /\ WantedAtEnd(t) = {}
<1>1. \A r : r \in Matches(t) => r[1] \in Patterns /\ Pat[r[1]].kind \in {"lit", "zero"}
  BY Zenon, MatchType
<1>2. \A p \in Patterns : p \in Single /\ \E r \in Wanted(t) : r[1] = p
  BY Zenon DEF KeysOf
<1>3. ASSUME NEW d \in Seq(Bytes) PROVE Wanted(t \o d) = Wanted(t)
  <2>1. t \o d \in Seq(Bytes)
    BY ConcatProperties
  <2>2. \A r \in Fresh(t, d) : r[1] \in Patterns
    BY Zenon, <2>1, MatchType DEF Fresh
  <2>3. FirstOnly(Fresh(t, d), KeysOf(Wanted(t))) = {}
    BY Zenon, <1>2, <2>2 DEF FirstOnly
  <2>4. Wanted(t \o d) \ Wanted(t) = {} /\ Wanted(t) \subseteq Wanted(t \o d)
    BY Zenon, <2>3, DueForWrite
  <2> QED BY Zenon, <2>4
<1>4. WantedAtEnd(t) = {}
  <2>1. \A p \in Patterns : Pat[p].kind \in {"lit", "zero"}
    BY Zenon, <1>1, <1>2, WantedIff
  <2>2. OfKind("eod") = {}
    BY <2>1 DEF OfKind
  <2>3. t # <<>>
    BY Zenon, WantedOfNothing
  <2> QED BY Zenon, <2>2, <2>3 DEF WantedAtEnd, At
<1> QED BY Zenon, <1>3, <1>4

\* The reports of a call to hs_scan_stream_internal on a stream that no
\* callback has stopped, and the stream it leaves.
LEMMA ScanReports ==
    ASSUME app \in Applications, NEW z \in StreamRecord, NEW t \in Seq(Bytes),
           NEW d \in Seq(Bytes), z.status = {} => Keeps(z, t),
           "TERMINATED" \notin z.status, Reported(z, t, Wanted(t)),
           NEW r \in hs_scan_stream_internal(z, d)
    PROVE  /\ Delivers(Wanted(t \o d) \ Wanted(t), r.out, r.halt)
           /\ r.halt <=> "TERMINATED" \in r.z.status
           /\ Reported(r.z, t \o d, Wanted(t) \cup r.out)
<1>0. z.evec = KeysOf(Wanted(t)) /\ (z.status # {} => Patterns # {} /\ z.evec = Patterns)
  BY Zenon DEF Reported
<1>1. CASE z.status \cap Broken # {} \/ d = <<>>
  <2>1. r = [z |-> z, out |-> {}, halt |-> FALSE]
    BY <1>1, Zenon DEF hs_scan_stream_internal
  <2>2. r.z = z /\ r.out = {} /\ r.halt = FALSE
    BY Zenon, <2>1
  <2>3. Wanted(t \o d) = Wanted(t)
    <3>1. CASE d = <<>>
      BY <3>1, ConcatEmptySeq
    <3>2. CASE z.status # {}
      BY Zenon, <1>0, <3>2, Exhausted
    <3> QED BY Zenon, <1>1, <3>1, <3>2
  <2> DEFINE a == [out |-> {}, acked |-> {}, halt |-> FALSE]
  <2>4. a \in Deliveries(Wanted(t \o d) \ Wanted(t))
    <3>1. Wanted(t \o d) \ Wanted(t) = {}
      BY Zenon, <2>3
    <3> QED BY Zenon, <3>1, NothingDue
  <2>5. a.out = {} /\ a.halt = FALSE
    BY Zenon
  <2> HIDE DEF a
  <2>6. Wanted(t) \cup r.out = Wanted(t)
    BY Zenon, <2>2
  <2>7. Reported(r.z, t \o d, Wanted(t) \cup r.out)
    BY Zenon, <1>0, <2>2, <2>3, <2>6 DEF Reported
  <2> QED BY Zenon, <2>2, <2>4, <2>5, <2>7 DEF Delivers
<1>2. CASE ~(z.status \cap Broken # {} \/ d = <<>>)
  <2> DEFINE zero == IF z.offset = 0 THEN BoundaryZero ELSE {}
             due  == zero \cup hwlmExec(getHistory(z), z.offset, d)
             Evec(a) == z.evec \cup KeysOf(a.acked)
             Status(a) == IF a.halt THEN {"TERMINATED"}
                          ELSE IF isAllExhausted(Evec(a)) THEN {"EXHAUSTED"} ELSE {}
             After(a) == IF Status(a) = {}
                         THEN [offset  |-> z.offset + Len(d),
                               history |-> maintainHistoryBuffer(z.history, d),
                               status  |-> Status(a), evec |-> Evec(a)]
                         ELSE [z EXCEPT !.status = Status(a), !.evec = Evec(a)]
  <2>1. z.status = {} /\ Keeps(z, t)
    BY <1>2 DEF StreamRecord
  <2>2. due = Fresh(t, d)
    BY Zenon, <1>2, <2>1, ScanRaises
  <2>3. FirstOnly(due, z.evec) = Wanted(t \o d) \ Wanted(t)
    BY Zenon, <1>0, <2>2, DueForWrite
  <2>4. r \in {[z |-> After(a), out |-> a.out, halt |-> a.halt] :
                 a \in Deliveries(FirstOnly(due, z.evec))}
    BY <1>2, Zenon DEF hs_scan_stream_internal
  <2> HIDE DEF due
  <2>5. PICK a \in Deliveries(Wanted(t \o d) \ Wanted(t)) :
           r = [z |-> After(a), out |-> a.out, halt |-> a.halt]
    <3> HIDE DEF After
    <3> QED BY Zenon, <2>3, <2>4
  <2>6. r.z = After(a) /\ r.out = a.out /\ r.halt = a.halt
    <3> HIDE DEF After
    <3> QED BY Zenon, <2>5
  <2>7. a.halt \in BOOLEAN /\ (~a.halt => /\ a.out = Wanted(t \o d) \ Wanted(t)
                                          /\ a.acked = Wanted(t \o d) \ Wanted(t))
    BY Zenon, DeliveryFacts
  <2>8. r.z.status = Status(a) /\ r.z.evec = Evec(a)
    <3>1. CASE Status(a) = {}
      <4>1. r.z = [offset  |-> z.offset + Len(d),
                   history |-> maintainHistoryBuffer(z.history, d),
                   status  |-> Status(a), evec |-> Evec(a)]
        BY Zenon, <2>6, <3>1
      <4> HIDE DEF Status, Evec
      <4> QED BY <4>1
    <3>2. CASE Status(a) # {}
      <4>1. r.z = [z EXCEPT !.status = Status(a), !.evec = Evec(a)]
        BY Zenon, <2>6, <3>2
      <4> HIDE DEF Status, Evec
      <4> QED BY <4>1 DEF StreamRecord
    <3> QED BY Zenon, <3>1, <3>2
  <2>9. r.halt <=> "TERMINATED" \in r.z.status
    BY <2>6, <2>7, <2>8
  <2>10. ASSUME "TERMINATED" \notin r.z.status
         PROVE  /\ Wanted(t) \cup r.out = Wanted(t \o d)
                /\ r.z.evec = KeysOf(Wanted(t \o d))
                /\ r.z.status # {} => Patterns # {} /\ r.z.evec = Patterns
    <3>1. ~a.halt
      BY Zenon, <2>6, <2>9, <2>10
    <3>2. Wanted(t) \subseteq Wanted(t \o d)
      BY Zenon, DueForWrite
    <3>3. Wanted(t) \cup r.out = Wanted(t \o d)
      BY Zenon, <2>6, <2>7, <3>1, <3>2
    <3>4. Evec(a) = KeysOf(Wanted(t)) \cup KeysOf(Wanted(t \o d) \ Wanted(t))
      BY Zenon, <1>0, <2>7, <3>1
    <3>5. Evec(a) = KeysOf(Wanted(t \o d))
      BY Zenon, <3>2, <3>4 DEF KeysOf
    <3>6. r.z.status # {} => isAllExhausted(Evec(a))
      BY Zenon, <2>8, <3>1
    <3> HIDE DEF Evec
    <3> QED BY Zenon, <2>8, <3>3, <3>5, <3>6 DEF isAllExhausted
  <2>11. Reported(r.z, t \o d, Wanted(t) \cup r.out)
    BY Zenon, <2>10 DEF Reported
  <2> QED BY Zenon, <2>6, <2>9, <2>11 DEF Delivers
<1> QED BY Zenon, <1>1, <1>2

\* The reports at the end of the data of a stream that no callback has stopped.
LEMMA EndDue ==
    ASSUME app \in Applications, NEW t \in Seq(Bytes)
    PROVE  /\ t = <<>> => FirstOnly(BoundaryZeroEod, {}) = WantedAtEnd(t)
           /\ t # <<>> => FirstOnly(BoundaryEod(Len(t)), KeysOf(Wanted(t))) = WantedAtEnd(t)
           /\ (Wanted(t) \cup WantedAtEnd(t)) \ Wanted(t) = WantedAtEnd(t)
           /\ \A q \in Wanted(t), r \in WantedAtEnd(t) : q[2] =< r[2]
<1>1. \A r \in Wanted(t) : r[2] =< Len(t) /\ Pat[r[1]].kind \in {"lit", "zero"}
  BY Zenon, MatchType, WantedIff
<1>2. t = <<>> => Wanted(t) = {}
  BY Zenon, WantedOfNothing
<1>3. \A r \in BoundaryZeroEod : r[2] = 0
  BY DEF BoundaryZeroEod, BoundaryZero, BoundaryEod, At
<1>4. FirstOnly(BoundaryZeroEod, {}) = BoundaryZeroEod
  <2>1. ASSUME NEW r \in BoundaryZeroEod, NEW q \in BoundaryZeroEod PROVE r[2] =< q[2]
    BY <1>3
  <2>2. \A r \in BoundaryZeroEod : r \in FirstOnly(BoundaryZeroEod, {})
    BY Zenon, <2>1 DEF FirstOnly
  <2> QED BY Zenon, <2>2 DEF FirstOnly
<1>5. t = <<>> => BoundaryZeroEod = WantedAtEnd(t)
  <2>1. t = <<>> => Len(t) = 0
    OBVIOUS
  <2> QED BY Zenon, <2>1 DEF BoundaryZeroEod, BoundaryZero, BoundaryEod, At, WantedAtEnd
<1>6. \A r : r \in BoundaryEod(Len(t)) <=> \E p \in OfKind("eod") : r = <<p, Len(t)>>
  BY Zenon DEF BoundaryEod, At
<1>7. \A r \in BoundaryEod(Len(t)) : r[2] = Len(t) /\ Pat[r[1]].kind = "eod"
  BY <1>6 DEF OfKind
<1>8. t # <<>> => BoundaryEod(Len(t)) = WantedAtEnd(t)
  BY Zenon DEF WantedAtEnd, BoundaryEod, At
<1>9. Len(t) \in Nat
  OBVIOUS
<1>10. FirstOnly(BoundaryEod(Len(t)), KeysOf(Wanted(t))) = BoundaryEod(Len(t))
  <2>1. ASSUME NEW r \in BoundaryEod(Len(t)), NEW q \in BoundaryEod(Len(t))
        PROVE  r[2] =< q[2]
    BY <1>7, <1>9
  <2>2. ASSUME NEW r \in BoundaryEod(Len(t)) PROVE r[1] \notin KeysOf(Wanted(t))
    <3>1. Pat[r[1]].kind # "lit" /\ Pat[r[1]].kind # "zero"
      BY <1>7
    <3> QED BY Zenon, <1>1, <3>1 DEF KeysOf
  <2>3. \A r \in BoundaryEod(Len(t)) :
           r \in FirstOnly(BoundaryEod(Len(t)), KeysOf(Wanted(t)))
    BY Zenon, <2>1, <2>2 DEF FirstOnly
  <2> QED BY Zenon, <2>3 DEF FirstOnly
<1>11. \A r \in BoundaryEod(Len(t)) : r \notin Wanted(t)
  BY <1>1, <1>7
<1>12. ASSUME NEW q \in Wanted(t), NEW r \in WantedAtEnd(t)
       PROVE  q[2] =< r[2] /\ r \notin Wanted(t)
  <2>1. t # <<>>
    BY Zenon, <1>2, <1>12
  <2>2. r \in BoundaryEod(Len(t))
    BY Zenon, <1>8, <2>1
  <2> QED BY Zenon, <1>1, <1>7, <1>11, <2>2
<1>13. (Wanted(t) \cup WantedAtEnd(t)) \ Wanted(t) = WantedAtEnd(t)
  BY Zenon, <1>12
<1> QED BY Zenon, <1>4, <1>5, <1>8, <1>10, <1>12, <1>13

\* What report_eod_matches makes of it.
LEMMA EndReports ==
    ASSUME app \in Applications, NEW z \in StreamRecord, NEW t \in Seq(Bytes),
           z.status = {} => Keeps(z, t),
           "TERMINATED" \notin z.status, Reported(z, t, Wanted(t))
    PROVE  report_eod_matches(z) = Deliveries((Wanted(t) \cup WantedAtEnd(t)) \ Wanted(t))
<1>0. z.evec = KeysOf(Wanted(t)) /\ (z.status # {} => Patterns # {} /\ z.evec = Patterns)
  BY Zenon DEF Reported
<1>1. (Wanted(t) \cup WantedAtEnd(t)) \ Wanted(t) = WantedAtEnd(t)
  BY Zenon, EndDue
<1>2. CASE z.status \cap Broken # {}
  <2>1. z.status # {}
    BY <1>2
  <2>2. WantedAtEnd(t) = {}
    BY Zenon, <1>0, <2>1, Exhausted
  <2> QED BY Zenon, <1>1, <1>2, <2>2 DEF report_eod_matches
<1>3. CASE ~(z.status \cap Broken # {})
  <2>1. z.status = {}
    BY <1>3 DEF StreamRecord
  <2>2. z.offset = Len(t)
    BY Zenon, <2>1 DEF Keeps
  <2>3. Len(t) = 0 <=> t = <<>>
    BY EmptySeq
  <2>4. CASE t = <<>>
    <3>1. z.evec = {}
      BY Zenon, <1>0, <2>4, WantedOfNothing
    <3>2. report_eod_matches(z) = Deliveries(FirstOnly(BoundaryZeroEod, z.evec))
      BY Zenon, <1>3, <2>2, <2>3, <2>4 DEF report_eod_matches
    <3>3. FirstOnly(BoundaryZeroEod, z.evec) = WantedAtEnd(t)
      BY Zenon, <2>4, <3>1, EndDue
    <3> QED BY Zenon, <1>1, <3>2, <3>3
  <2>5. CASE t # <<>>
    <3>1. report_eod_matches(z) = Deliveries(FirstOnly(BoundaryEod(Len(t)), z.evec))
      BY Zenon, <1>3, <2>2, <2>3, <2>5 DEF report_eod_matches
    <3>2. FirstOnly(BoundaryEod(Len(t)), z.evec) = WantedAtEnd(t)
      BY Zenon, <1>0, <2>5, EndDue
    <3> QED BY Zenon, <1>1, <3>1, <3>2
  <2> QED BY Zenon, <2>4, <2>5
<1> QED BY Zenon, <1>2, <1>3

\* A stopped stream reports nothing more.
LEMMA StoppedReports ==
    ASSUME NEW z, "TERMINATED" \in z.status
    PROVE  /\ report_eod_matches(z) = Deliveries({})
           /\ \A d : hs_scan_stream_internal(z, d) = {[z |-> z, out |-> {}, halt |-> FALSE]}
<1>1. z.status \cap Broken # {}
  BY DEF Broken
<1> QED BY Zenon, <1>1 DEF report_eod_matches, hs_scan_stream_internal

-----------------------------------------------------------------------------
(* Scans of a single call.                                                 *)

\* The reports made while data t is written come before those at its end.
LEMMA EndAfter ==
    ASSUME app \in Applications, NEW t \in Seq(Bytes)
    PROVE  Before(Wanted(t), Wanted(t) \cup WantedAtEnd(t))
BY Zenon, EndDue DEF Before

\* Reports reach the callback in one of the ways the data allows.
Answers(t) ==
    \E o, h : Delivers(Wanted(t) \cup WantedAtEnd(t), o, h) /\ out' = Call(t, TRUE, o, h)

\* hs_scan_vector: the blocks are writes to a stream that is then ended.
LEMMA VectorReports ==
    ASSUME app \in Applications, NEW d \in Seq(Bytes), NEW e \in Seq(Bytes),
           hs_scan_vector(d, e)
    PROVE  Answers(d \o e)
<1> DEFINE z == init_stream(Uninitialised)
           t == d \o e
           All == Wanted(t) \cup WantedAtEnd(t)
<1>1. PICK a \in hs_scan_stream_internal(z, d) :
         IF a.halt THEN out' = Call(t, TRUE, a.out, TRUE)
         ELSE \E b \in hs_scan_stream_internal(a.z, e) :
            IF b.halt THEN out' = Call(t, TRUE, a.out \cup b.out, TRUE)
            ELSE \E r \in report_eod_matches(b.z) :
                    out' = Call(t, TRUE, a.out \cup b.out \cup r.out, r.halt)
  BY Zenon DEF hs_scan_vector
<1>2. z \in StreamRecord /\ Keeps(z, <<>>)
  BY Zenon, InitStream, UninitialisedType
<1>3. z.status = {} /\ z.evec = {}
  BY DEF init_stream
<1>4. <<>> \in Seq(Bytes) /\ <<>> \o d = d /\ t \in Seq(Bytes)
  BY ConcatEmptySeq, ConcatProperties
<1>5. "TERMINATED" \notin z.status /\ Reported(z, <<>>, Wanted(<<>>))
  BY Zenon, <1>3, WantedOfNothing DEF Reported
<1> HIDE DEF z
<1>6. /\ Delivers(Wanted(d), a.out, a.halt)
      /\ a.halt <=> "TERMINATED" \in a.z.status
      /\ Reported(a.z, d, a.out)
      /\ a.z \in StreamRecord /\ (a.z.status = {} => Keeps(a.z, d))
  <2>1. /\ Delivers(Wanted(<<>> \o d) \ Wanted(<<>>), a.out, a.halt)
        /\ a.halt <=> "TERMINATED" \in a.z.status
        /\ Reported(a.z, <<>> \o d, Wanted(<<>>) \cup a.out)
    BY Zenon, <1>2, <1>4, <1>5, ScanReports
  <2>2. a.z \in StreamRecord /\ (a.z.status = {} => Keeps(a.z, <<>> \o d))
    BY Zenon, <1>2, <1>4, ScanOutcome
  <2>3. Wanted(d) \ Wanted(<<>>) = Wanted(d) /\ Wanted(<<>>) \cup a.out = a.out
    BY Zenon, WantedOfNothing
  <2> QED BY Zenon, <1>4, <2>1, <2>2, <2>3
<1>7. Before(Wanted(d), Wanted(t)) /\ Before(Wanted(t), All)
  BY Zenon, <1>4, DueForWrite, EndAfter DEF Before
<1> HIDE DEF t
<1>8. CASE a.halt
  <2>1. Delivers(Wanted(d), a.out, TRUE)
    BY Zenon, <1>6, <1>8 DEF Delivers
  <2>2. Delivers(Wanted(t), a.out, TRUE)
    BY Zenon, <1>7, <2>1, StopEarly
  <2>3. Delivers(All, a.out, TRUE)
    BY Zenon, <1>7, <2>2, StopEarly
  <2>4. out' = Call(t, TRUE, a.out, TRUE)
    BY Zenon, <1>1, <1>8
  <2> QED BY Zenon, <2>3, <2>4 DEF Answers, t
<1>9. CASE ~a.halt
  <2>1. PICK b \in hs_scan_stream_internal(a.z, e) :
           IF b.halt THEN out' = Call(t, TRUE, a.out \cup b.out, TRUE)
           ELSE \E r \in report_eod_matches(b.z) :
                   out' = Call(t, TRUE, a.out \cup b.out \cup r.out, r.halt)
    BY Zenon, <1>1, <1>9
  <2>2. a.out = Wanted(d) /\ "TERMINATED" \notin a.z.status
    BY Zenon, <1>6, <1>9, DeliveryFacts DEF Delivers
  <2>3. Reported(a.z, d, Wanted(d))
    BY Zenon, <1>6, <2>2
  <2>4. /\ Delivers(Wanted(t) \ Wanted(d), b.out, b.halt)
        /\ b.halt <=> "TERMINATED" \in b.z.status
        /\ Reported(b.z, t, Wanted(d) \cup b.out)
    BY Zenon, <1>6, <2>2, <2>3, ScanReports DEF t
  <2>5. b.z \in StreamRecord /\ (b.z.status = {} => Keeps(b.z, t))
    BY Zenon, <1>6, ScanOutcome DEF t
  <2>6. Delivers(Wanted(t), a.out \cup b.out, b.halt)
    BY Zenon, <1>7, <2>2, <2>4, DeliverOn
  <2>7. CASE b.halt
    <3>1. Delivers(Wanted(t), a.out \cup b.out, TRUE)
      BY Zenon, <2>6, <2>7 DEF Delivers
    <3>2. Delivers(All, a.out \cup b.out, TRUE)
      BY Zenon, <1>7, <3>1, StopEarly
    <3>3. out' = Call(t, TRUE, a.out \cup b.out, TRUE)
      BY Zenon, <2>1, <2>7
    <3> QED BY Zenon, <3>2, <3>3 DEF Answers, t
  <2>8. CASE ~b.halt
    <3>1. a.out \cup b.out = Wanted(t) /\ "TERMINATED" \notin b.z.status
      BY Zenon, <2>4, <2>6, <2>8, DeliveryFacts DEF Delivers
    <3>2. Reported(b.z, t, Wanted(t))
      BY Zenon, <2>2, <2>4, <3>1
    <3>3. report_eod_matches(b.z) = Deliveries(All \ Wanted(t))
      BY Zenon, <1>4, <2>5, <3>1, <3>2, EndReports
    <3> HIDE DEF All
    <3>4. PICK r \in Deliveries(All \ Wanted(t)) :
             out' = Call(t, TRUE, Wanted(t) \cup r.out, r.halt)
      BY Zenon, <2>1, <2>8, <3>1, <3>3
    <3>5. Delivers(All \ Wanted(t), r.out, r.halt)
      BY Zenon DEF Delivers
    <3>6. Delivers(All, Wanted(t) \cup r.out, r.halt)
      BY Zenon, <1>7, <3>5, DeliverOn
    <3> QED BY Zenon, <3>4, <3>6 DEF Answers, t, All
  <2> QED BY Zenon, <2>7, <2>8
<1> QED BY Zenon, <1>8, <1>9

\* minWidthExcludingBoundaries: no literal is shorter.
LEMMA WidthFacts ==
    ASSUME app \in Applications
    PROVE  /\ MinWidthExcludingBoundaries \in Nat
           /\ \A p \in OfKind("lit") : MinWidthExcludingBoundaries =< Len(Pat[p].lit)
<1> DEFINE lens == {Len(Pat[p].lit) : p \in OfKind("lit")}
<1>1. \A p \in OfKind("lit") : Len(Pat[p].lit) \in Nat
  BY PatternFacts DEF OfKind
<1>2. lens \in SUBSET Nat
  BY Zenon, <1>1
<1>3. CASE lens = {}
  <2>1. MinWidthExcludingBoundaries = 0
    BY Zenon, <1>3 DEF MinWidthExcludingBoundaries
  <2> QED BY Zenon, <1>3, <2>1
<1>4. CASE lens # {}
  <2>1. MinWidthExcludingBoundaries = CHOOSE n \in lens : \A m \in lens : n =< m
    BY Zenon, <1>4 DEF MinWidthExcludingBoundaries
  <2> HIDE DEF lens
  <2>2. \E n \in lens : \A m \in lens : n =< m
    BY Zenon, <1>2, <1>4, LeastNat
  <2>3. MinWidthExcludingBoundaries \in lens
           /\ \A m \in lens : MinWidthExcludingBoundaries =< m
    BY Zenon, <2>1, <2>2
  <2> QED BY Zenon, <1>2, <2>3 DEF lens
<1> QED BY Zenon, <1>3, <1>4

\* Data shorter than that holds no literal.
LEMMA TooShort ==
    ASSUME app \in Applications, NEW t \in Seq(Bytes),
           MinWidthExcludingBoundaries > Len(t)
    PROVE  LiteralsIn(t) = {}
<1>1. ASSUME NEW k \in 1 .. Len(t) PROVE EndingAt(t, k) = {}
  <2>1. ASSUME NEW p \in EndingAt(t, k) PROVE FALSE
    <3>1. p \in OfKind("lit") /\ Len(Pat[p].lit) =< k
      BY Zenon DEF EndingAt
    <3>2. /\ MinWidthExcludingBoundaries =< Len(Pat[p].lit)
          /\ MinWidthExcludingBoundaries \in Nat
      BY Zenon, <3>1, WidthFacts
    <3>3. Len(Pat[p].lit) \in Nat
      BY <3>1, PatternFacts DEF OfKind
    <3> QED BY <3>1, <3>2, <3>3
  <2> QED BY Zenon, <2>1
<1> QED BY Zenon, <1>1 DEF LiteralsIn, At

\* hs_scan: short data, empty data, and the rest.
LEMMA BlockReports ==
    ASSUME app \in Applications, NEW t \in Seq(Bytes), hs_scan(t)
    PROVE  Answers(t)
<1> DEFINE n == Len(t)
           body == BoundaryZero \cup (IF MinWidthExcludingBoundaries > n THEN {}
                                      ELSE hwlmExec(<<>>, 0, t))
           All == Wanted(t) \cup WantedAtEnd(t)
<1>1. IF MinWidth > n THEN out' = Call(t, TRUE, {}, FALSE)
      ELSE IF n = 0
      THEN \E r \in Deliveries(FirstOnly(BoundaryZeroEod, {})) :
              out' = Call(t, TRUE, r.out, r.halt)
      ELSE \E a \in Deliveries(FirstOnly(body, {})) :
              IF a.halt THEN out' = Call(t, TRUE, a.out, TRUE)
              ELSE \E b \in Deliveries(FirstOnly(BoundaryEod(n), KeysOf(a.acked))) :
                        out' = Call(t, TRUE, a.out \cup b.out, b.halt)
  BY Zenon DEF hs_scan
<1>2. n \in Nat /\ (n = 0 <=> t = <<>>)
  BY EmptySeq
<1> HIDE DEF n, body
<1>3. CASE MinWidth > n
  <2>1. Patterns = OfKind("lit") /\ MinWidthExcludingBoundaries > n
    <3>1. ~(0 > n)
      BY <1>2
    <3> QED BY Zenon, <1>3, <3>1 DEF MinWidth
  <2>2. OfKind("zero") = {} /\ OfKind("eod") = {} /\ OfKind("zero_eod") = {}
    BY <2>1 DEF OfKind
  <2>3. LiteralsIn(t) = {}
    BY Zenon, <2>1, TooShort DEF n
  <2>4. Matches(t) = {}
    BY Zenon, <2>2, <2>3 DEF Matches, AtStart, At
  <2>5. Wanted(t) = {}
    BY Zenon, <2>4, WantedIff
  <2>6. WantedAtEnd(t) = {}
    BY Zenon, <2>2 DEF WantedAtEnd, At
  <2>7. All = {}
    BY Zenon, <2>5, <2>6
  <2> HIDE DEF All
  <2>8. Delivers(All, {}, FALSE)
    <3> DEFINE a == [out |-> {}, acked |-> {}, halt |-> FALSE]
    <3>1. a \in Deliveries(All) /\ a.out = {} /\ a.halt = FALSE
      BY Zenon, <2>7, NothingDue
    <3> HIDE DEF a
    <3> QED BY Zenon, <3>1 DEF Delivers
  <2> QED BY Zenon, <1>1, <1>3, <2>8 DEF Answers, All
<1>4. CASE ~(MinWidth > n) /\ n = 0
  <2>1. FirstOnly(BoundaryZeroEod, {}) = WantedAtEnd(t) /\ Wanted(t) = {}
    BY Zenon, <1>2, <1>4, EndDue, WantedOfNothing
  <2>2. All = FirstOnly(BoundaryZeroEod, {})
    BY Zenon, <2>1
  <2> HIDE DEF All
  <2>3. PICK r \in Deliveries(All) : out' = Call(t, TRUE, r.out, r.halt)
    BY Zenon, <1>1, <1>4, <2>2
  <2>4. Delivers(All, r.out, r.halt)
    BY Zenon DEF Delivers
  <2> QED BY Zenon, <2>3, <2>4 DEF Answers, All
<1>5. CASE ~(MinWidth > n) /\ n # 0
  <2>1. BoundaryZero = AtStart(t)
    BY Zenon, <1>2, <1>5 DEF BoundaryZero, AtStart
  <2>2. hwlmExec(<<>>, 0, t) = LiteralsIn(t)
    <3>1. <<>> \o t = t /\ Len(<<>>) = 0
      BY ConcatEmptySeq
    <3>2. \A k \in 1 .. Len(t) : 0 + k = k
      OBVIOUS
    <3>3. hwlmExec(<<>>, 0, t) = UNION {At(EndingAt(<<>> \o t, Len(<<>>) + k), 0 + k) :
                                          k \in 1 .. Len(t)}
      BY Zenon DEF hwlmExec
    <3>4. \A k \in 1 .. Len(t) :
             At(EndingAt(<<>> \o t, Len(<<>>) + k), 0 + k) = At(EndingAt(t, k), k)
      BY Zenon, <3>1, <3>2
    <3> QED BY Zenon, <3>3, <3>4 DEF LiteralsIn
  <2>3. (IF MinWidthExcludingBoundaries > n THEN {} ELSE hwlmExec(<<>>, 0, t))
           = LiteralsIn(t)
    BY Zenon, <2>2, TooShort DEF n
  <2>4. body = Matches(t)
    BY Zenon, <2>1, <2>3 DEF body, Matches
  <2>5. FirstOnly(body, {}) = Wanted(t)
    BY Zenon, <2>4 DEF Wanted
  <2>6. PICK a \in Deliveries(Wanted(t)) :
           IF a.halt THEN out' = Call(t, TRUE, a.out, TRUE)
           ELSE \E b \in Deliveries(FirstOnly(BoundaryEod(n), KeysOf(a.acked))) :
                     out' = Call(t, TRUE, a.out \cup b.out, b.halt)
    BY Zenon, <1>1, <1>5, <2>5
  <2>7. Before(Wanted(t), All)
    BY Zenon, EndAfter
  <2>8. CASE a.halt
    <3>1. a.halt = TRUE
      BY Zenon, <2>8, DeliveryFacts
    <3>2. Delivers(Wanted(t), a.out, TRUE)
      BY Zenon, <3>1 DEF Delivers
    <3>3. Delivers(All, a.out, TRUE)
      BY Zenon, <2>7, <3>2, StopEarly
    <3> QED BY Zenon, <2>6, <2>8, <3>3 DEF Answers
  <2>9. CASE ~a.halt
    <3>1. a.out = Wanted(t) /\ a.acked = Wanted(t)
      BY Zenon, <2>9, DeliveryFacts
    <3>2. FirstOnly(BoundaryEod(n), KeysOf(a.acked)) = All \ Wanted(t)
      BY Zenon, <1>2, <1>5, <3>1, EndDue DEF n
    <3> HIDE DEF All
    <3>3. PICK b \in Deliveries(All \ Wanted(t)) :
             out' = Call(t, TRUE, Wanted(t) \cup b.out, b.halt)
      BY Zenon, <2>6, <2>9, <3>1, <3>2
    <3>4. Delivers(All \ Wanted(t), b.out, b.halt)
      BY Zenon DEF Delivers
    <3>5. Delivers(All, Wanted(t) \cup b.out, b.halt)
      BY Zenon, <2>7, <3>4, DeliverOn
    <3> QED BY Zenon, <3>3, <3>5 DEF Answers, All
  <2> QED BY Zenon, <2>8, <2>9
<1> QED BY Zenon, <1>3, <1>4, <1>5

-----------------------------------------------------------------------------
(* The invariant holds.                                                    *)

\* The application does not change, and with it what is to be reported.
LEMMA SameReported ==
    ASSUME app' = app
    PROVE  \A z, t, r : Reported(z, t, r) => Reported(z, t, r)'
<1>1. Pat' = Pat /\ Single' = Single /\ Patterns' = Patterns
  BY Zenon DEF Pat, Single, Patterns
<1>2. \A k : OfKind(k)' = OfKind(k)
  BY Zenon, <1>1 DEF OfKind
<1>3. \A w, k : EndingAt(w, k)' = EndingAt(w, k)
  BY Zenon, <1>1, <1>2 DEF EndingAt
<1>4. \A t : LiteralsIn(t)' = LiteralsIn(t)
  BY ZenonT(30), <1>3 DEF LiteralsIn, At
<1>5. \A t : AtStart(t)' = AtStart(t)
  BY Zenon, <1>2 DEF AtStart, At
<1>6. \A t : Matches(t)' = Matches(t)
  BY Zenon, <1>4, <1>5 DEF Matches
<1>7. \A t : Wanted(t)' = Wanted(t)
  BY Zenon, <1>1, <1>6 DEF Wanted, FirstOnly
<1>8. \A t : KeysOf(Wanted(t))' = KeysOf(Wanted(t))
  BY Zenon, <1>1, <1>7 DEF KeysOf
<1> QED BY Zenon, <1>1, <1>7, <1>8 DEF Reported

\* A stream without data has nothing to report, and a copy or a compressed
\* stream what the stream has that it was made from.
LEMMA ReportedFresh == \A h : Reported(init_stream(h), <<>>, {})
<1>1. \A h : init_stream(h).status = {} /\ init_stream(h).evec = {}
  BY Zenon DEF init_stream
<1> QED BY Zenon, <1>1, WantedOfNothing DEF Reported

\* Only the status and the exhaustion vector of a stream's memory matter to what
\* it has reported.
LEMMA ReportedMoved ==
    ASSUME NEW y, NEW z, y.status = z.status, y.evec = z.evec, NEW t, NEW r,
           Reported(z, t, r)
    PROVE  Reported(y, t, r)
BY Zenon DEF Reported

\* compress_stream and expand_stream carry the status and the exhaustion vector.
LEMMA Carried ==
    ASSUME NEW z, NEW b
    PROVE  /\ compress_stream(z).status = z.status /\ compress_stream(z).evec = z.evec
           /\ expand_stream(z, b).status = b.status /\ expand_stream(z, b).evec = b.evec
BY Zenon DEF compress_stream, expand_stream

\* So an expanded stream has reported what the compressed one had.
LEMMA ReportedExpanded ==
    ASSUME NEW z, NEW b, NEW t, NEW r, Reported(b, t, r)
    PROVE  Reported(expand_stream(z, b), t, r)
<1> DEFINE y == expand_stream(z, b)
<1>1. y.status = b.status /\ y.evec = b.evec
  BY Zenon, Carried
<1> HIDE DEF y
<1>2. Reported(y, t, r)
  BY Zenon, <1>1, ReportedMoved
<1> QED BY Zenon, <1>2 DEF y

\* A call that gives stream s a new state keeps the invariant if that state has
\* reported what it should.
LEMMA ReportedStep ==
    ASSUME IInv, RInv, app' = app, buf' = buf, NEW s \in Streams, NEW z, NEW t, NEW r,
           Become(s, z, t, r), live' \subseteq live \cup {s},
           s \in live' => Reported(z, t, r)
    PROVE  RInv'
<1>1. /\ stream' = [stream EXCEPT ![s] = z] /\ text' = [text EXCEPT ![s] = t]
      /\ seen' = [seen EXCEPT ![s] = r]
  BY Zenon DEF Become
<1>2. Streams' = Streams /\ Buffers' = Buffers
  BY Zenon, SameApplication
<1>3. stream = [u \in Streams |-> stream[u]] /\ text = [u \in Streams |-> text[u]]
         /\ seen = [u \in Streams |-> seen[u]]
  BY DEF IInv, RInv
<1>4. \A y, u, v : Reported(y, u, v) => Reported(y, u, v)'
  BY Zenon, SameReported
<1>5. live \subseteq Streams
  BY Zenon DEF IInv
<1>6. seen' = [u \in Streams' |-> seen'[u]]
  BY Zenon, <1>1, <1>2, <1>3
<1>7. ASSUME NEW u \in live' PROVE Reported(stream'[u], text'[u], seen'[u])
  <2>1. CASE u = s
    <3>1. stream'[u] = z /\ text'[u] = t /\ seen'[u] = r
      BY Zenon, <1>1, <1>3, <2>1
    <3> QED BY Zenon, <2>1, <3>1
  <2>2. CASE u # s
    <3>1. u \in live /\ u \in Streams
      BY Zenon, <1>5, <2>2
    <3>2. stream'[u] = stream[u] /\ text'[u] = text[u] /\ seen'[u] = seen[u]
      BY Zenon, <1>1, <1>3, <2>2, <3>1
    <3> QED BY Zenon, <3>1, <3>2 DEF RInv
  <2> QED BY Zenon, <2>1, <2>2
<1>8. \A u \in live' : Reported(stream[u], text[u], seen[u])'
  BY Zenon, <1>4, <1>7
<1>9. \A b \in Buffers' : buf'[b].kept => Reported(buf[b].z, buf[b].text, buf[b].seen)'
  BY Zenon, <1>2, <1>4 DEF RInv
<1>10. app' \in Applications
  BY Zenon DEF RInv
<1> QED BY Zenon, <1>6, <1>8, <1>9, <1>10 DEF RInv

\* A scan of a single call touches no stream.
LEMMA ReportedSame ==
    ASSUME RInv, UNCHANGED <<app, live, stream, buf, text, seen>>
    PROVE  RInv'
<1>1. Streams' = Streams /\ Buffers' = Buffers
  BY Zenon, SameApplication
<1>2. \A y, u, v : Reported(y, u, v) => Reported(y, u, v)'
  BY Zenon, SameReported
<1>3. \A u \in live' : Reported(stream[u], text[u], seen[u])'
  BY Zenon, <1>2 DEF RInv
<1>4. \A b \in Buffers' : buf'[b].kept => Reported(buf[b].z, buf[b].text, buf[b].seen)'
  BY Zenon, <1>1, <1>2 DEF RInv
<1> QED BY Zenon, <1>1, <1>3, <1>4 DEF RInv

\* hs_compress_stream saves what the stream has reported.
LEMMA ReportedCompress ==
    ASSUME IInv, RInv, NEW s \in Streams, NEW b \in Buffers, hs_compress_stream(s, b)
    PROVE  RInv'
<1> DEFINE e == [kept |-> TRUE, z |-> compress_stream(stream[s]),
                 text |-> text[s], seen |-> seen[s]]
<1>1. /\ s \in live /\ buf' = [buf EXCEPT ![b] = e]
      /\ app' = app /\ live' = live /\ stream' = stream /\ text' = text /\ seen' = seen
  BY Zenon DEF hs_compress_stream
<1>2. Streams' = Streams /\ Buffers' = Buffers
  BY Zenon, <1>1, SameApplication
<1>3. Reported(stream[s], text[s], seen[s])
  BY Zenon, <1>1 DEF RInv
<1>4. e.z = compress_stream(stream[s]) /\ e.text = text[s] /\ e.seen = seen[s]
  BY Zenon
<1>5. Reported(e.z, e.text, e.seen)
  BY Zenon, <1>3, <1>4, Carried, ReportedMoved
<1> HIDE DEF e
<1>6. \A y, u, v : Reported(y, u, v) => Reported(y, u, v)'
  BY Zenon, <1>1, SameReported
<1>7. \A u \in live' : Reported(stream[u], text[u], seen[u])'
  BY Zenon, <1>1, <1>6 DEF RInv
<1>8. buf = [c \in Buffers |-> buf[c]]
  BY Zenon DEF IInv
<1>9. ASSUME NEW c \in Buffers, buf'[c].kept
      PROVE  Reported(buf'[c].z, buf'[c].text, buf'[c].seen)
  <2>1. CASE c = b
    <3>1. buf'[c] = e
      BY Zenon, <1>1, <1>8, <2>1
    <3> QED BY Zenon, <1>5, <3>1
  <2>2. CASE c # b
    <3>1. buf'[c] = buf[c]
      BY Zenon, <1>1, <1>8, <2>2
    <3> QED BY Zenon, <1>9, <3>1 DEF RInv
  <2> QED BY Zenon, <2>1, <2>2
<1>10. \A c \in Buffers' : buf'[c].kept => Reported(buf[c].z, buf[c].text, buf[c].seen)'
  BY Zenon, <1>2, <1>6, <1>9
<1> QED BY Zenon, <1>1, <1>2, <1>7, <1>10 DEF RInv

\* A write to a stream.
LEMMA WriteReports ==
    ASSUME IInv, RInv, NEW s \in live, NEW d \in Seq(Bytes),
           NEW r \in hs_scan_stream_internal(stream[s], d)
    PROVE  /\ "TERMINATED" \notin stream[s].status =>
                 /\ Delivers(Wanted(text[s] \o d) \ seen[s], r.out, r.halt)
                 /\ r.halt <=> "TERMINATED" \in r.z.status
                 /\ Reported(r.z, text[s] \o d, seen[s] \cup r.out)
           /\ "TERMINATED" \in stream[s].status =>
                 r.z = stream[s] /\ r.out = {} /\ r.halt = FALSE
<1>1. /\ app \in Applications /\ stream[s] \in StreamRecord /\ text[s] \in Seq(Bytes)
      /\ stream[s].status = {} => Keeps(stream[s], text[s])
      /\ Reported(stream[s], text[s], seen[s])
  BY Zenon DEF IInv, RInv, Texts
<1>2. CASE "TERMINATED" \notin stream[s].status
  <2>1. seen[s] = Wanted(text[s])
    BY Zenon, <1>1, <1>2 DEF Reported
  <2> QED BY Zenon, <1>1, <1>2, <2>1, ScanReports
<1>3. CASE "TERMINATED" \in stream[s].status
  <2>1. r = [z |-> stream[s], out |-> {}, halt |-> FALSE]
    BY Zenon, <1>3, StoppedReports
  <2> QED BY Zenon, <1>3, <2>1
<1> QED BY Zenon, <1>2, <1>3

\* Each call keeps the invariant.
LEMMA ReportedNext ==
    ASSUME IInv, RInv, [Next]_vars
    PROVE  RInv'
<1>1. ASSUME NEW s \in Streams, hs_open_stream(s) PROVE RInv'
  <2>1. /\ app' = app /\ buf' = buf /\ live' = live \cup {s}
        /\ Become(s, init_stream(Uninitialised), <<>>, {})
    BY Zenon, <1>1 DEF hs_open_stream
  <2> QED BY Zenon, <2>1, ReportedFresh, ReportedStep
<1>2. ASSUME NEW s \in Streams, NEW d \in Writes, hs_scan_stream(s, d) PROVE RInv'
  <2>1. PICK r \in hs_scan_stream_internal(stream[s], d) :
           Become(s, r.z,
                  IF "TERMINATED" \in stream[s].status THEN text[s] ELSE text[s] \o d,
                  seen[s] \cup r.out)
    BY Zenon, <1>2 DEF hs_scan_stream
  <2>2. app' = app /\ buf' = buf /\ live' = live /\ s \in live
    BY Zenon, <1>2 DEF hs_scan_stream
  <2>3. d \in Seq(Bytes)
    BY Zenon, WritesType
  <2>4. CASE "TERMINATED" \notin stream[s].status
    <3>1. Reported(r.z, text[s] \o d, seen[s] \cup r.out)
      BY Zenon, <2>2, <2>3, <2>4, WriteReports
    <3>2. Become(s, r.z, text[s] \o d, seen[s] \cup r.out)
      BY Zenon, <2>1, <2>4
    <3> QED BY Zenon, <2>2, <3>1, <3>2, ReportedStep
  <2>5. CASE "TERMINATED" \in stream[s].status
    <3>1. r.z = stream[s] /\ r.out = {}
      BY Zenon, <2>2, <2>3, <2>5, WriteReports
    <3>2. seen[s] \cup r.out = seen[s]
      BY Zenon, <3>1
    <3>3. Become(s, stream[s], text[s], seen[s])
      BY Zenon, <2>1, <2>5, <3>1, <3>2
    <3>4. Reported(stream[s], text[s], seen[s])
      BY Zenon, <2>2 DEF RInv
    <3> QED BY Zenon, <2>2, <3>3, <3>4, ReportedStep
  <2> QED BY Zenon, <2>4, <2>5
<1>3. ASSUME NEW s \in Streams, NEW onEvent \in BOOLEAN, hs_close_stream(s, onEvent)
      PROVE  RInv'
  <2>1. /\ app' = app /\ buf' = buf /\ live' = live \ {s}
        /\ Become(s, Closed, <<>>, {})
    BY Zenon, <1>3 DEF hs_close_stream
  <2>2. live' \subseteq live \cup {s} /\ s \notin live'
    BY Zenon, <2>1
  <2> QED BY Zenon, <2>1, <2>2, ReportedStep
<1>4. ASSUME NEW s \in Streams, NEW onEvent \in BOOLEAN, hs_reset_stream(s, onEvent)
      PROVE  RInv'
  <2>1. /\ app' = app /\ buf' = buf /\ live' = live
        /\ Become(s, init_stream(stream[s].history), <<>>, {})
    BY Zenon, <1>4 DEF hs_reset_stream
  <2> QED BY Zenon, <2>1, ReportedFresh, ReportedStep
<1>5. ASSUME NEW s \in Streams, NEW f \in Streams, hs_copy_stream(s, f) PROVE RInv'
  <2>1. /\ app' = app /\ buf' = buf /\ live' = live \cup {s} /\ f \in live
        /\ Become(s, stream[f], text[f], seen[f])
    BY Zenon, <1>5 DEF hs_copy_stream
  <2>2. Reported(stream[f], text[f], seen[f])
    BY Zenon, <2>1 DEF RInv
  <2> QED BY Zenon, <2>1, <2>2, ReportedStep
<1>6. ASSUME NEW s \in Streams, NEW f \in Streams, NEW onEvent \in BOOLEAN,
             hs_reset_and_copy_stream(s, f, onEvent)
      PROVE  RInv'
  <2>1. /\ app' = app /\ buf' = buf /\ live' = live /\ f \in live
        /\ Become(s, stream[f], text[f], seen[f])
    BY Zenon, <1>6 DEF hs_reset_and_copy_stream
  <2>2. Reported(stream[f], text[f], seen[f])
    BY Zenon, <2>1 DEF RInv
  <2> QED BY Zenon, <2>1, <2>2, ReportedStep
<1>7. ASSUME NEW s \in Streams, NEW b \in Buffers, hs_expand_stream(s, b) PROVE RInv'
  <2>1. /\ app' = app /\ buf' = buf /\ live' = live \cup {s} /\ buf[b].kept
        /\ Become(s, expand_stream(Closed, buf[b].z), buf[b].text, buf[b].seen)
    BY Zenon, <1>7 DEF hs_expand_stream
  <2>2. Reported(buf[b].z, buf[b].text, buf[b].seen)
    BY Zenon, <2>1 DEF RInv
  <2>3. Reported(expand_stream(Closed, buf[b].z), buf[b].text, buf[b].seen)
    BY Zenon, <2>2, ReportedExpanded
  <2> QED BY Zenon, <2>1, <2>3, ReportedStep
<1>8. ASSUME NEW s \in Streams, NEW b \in Buffers, NEW onEvent \in BOOLEAN,
             hs_reset_and_expand_stream(s, b, onEvent)
      PROVE  RInv'
  <2>1. /\ app' = app /\ buf' = buf /\ live' = live /\ buf[b].kept
        /\ Become(s, expand_stream(stream[s], buf[b].z), buf[b].text, buf[b].seen)
    BY Zenon, <1>8 DEF hs_reset_and_expand_stream
  <2>2. Reported(buf[b].z, buf[b].text, buf[b].seen)
    BY Zenon, <2>1 DEF RInv
  <2>3. Reported(expand_stream(stream[s], buf[b].z), buf[b].text, buf[b].seen)
    BY Zenon, <2>2, ReportedExpanded
  <2> QED BY Zenon, <2>1, <2>3, ReportedStep
<1>9. ASSUME NEW d, NEW e, hs_scan_vector(d, e) PROVE RInv'
  BY Zenon, <1>9, ReportedSame DEF hs_scan_vector
<1>10. ASSUME NEW d, hs_scan(d) PROVE RInv'
  BY Zenon, <1>10, ReportedSame DEF hs_scan
<1>11. CASE UNCHANGED vars
  BY Zenon, <1>11, ReportedSame DEF vars
<1>12. CASE Next
  BY ZenonT(30), <1>1, <1>2, <1>3, <1>4, <1>5, <1>6, <1>7, <1>8, <1>9, <1>10, <1>12,
     ReportedCompress DEF Next
<1> QED BY Zenon, <1>11, <1>12

\* Nothing is open at first, and no buffer is in use.
LEMMA ReportedInit == Init => RInv
<1> SUFFICES ASSUME Init PROVE RInv
  OBVIOUS
<1>1. /\ app \in Applications /\ live = {}
      /\ buf = [b \in Buffers |-> NoBuf] /\ seen = [s \in Streams |-> {}]
  BY Zenon DEF Init
<1>2. \A b \in Buffers : buf[b] = NoBuf
  BY Zenon, <1>1
<1>3. NoBuf.kept = FALSE
  BY Zenon DEF NoBuf
<1>4. seen = [s \in Streams |-> seen[s]]
  BY Zenon, <1>1
<1> QED BY Zenon, <1>1, <1>2, <1>3, <1>4 DEF RInv

\* It contains EvecRecordsReports.
LEMMA InvImpliesEvec == IInv /\ RInv => EvecRecordsReports
<1> SUFFICES ASSUME IInv, RInv, NEW s \in live, "TERMINATED" \notin stream[s].status
             PROVE  /\ stream[s].evec = KeysOf(seen[s])
                    /\ \A q, r \in seen[s] : q[1] \in Single /\ q[1] = r[1] => q = r
  BY Zenon DEF EvecRecordsReports
<1>1. text[s] \in Seq(Bytes)
  BY Zenon DEF IInv, Texts
<1>2. seen[s] = Wanted(text[s]) /\ stream[s].evec = KeysOf(Wanted(text[s]))
  BY Zenon DEF RInv, Reported
<1> QED BY ZenonT(30), <1>1, <1>2, WantedOnce

\* While the offsets of compressed streams fit in a u32, the exhaustion vector
\* that hs_scan_stream, hs_copy_stream, hs_compress_stream and hs_expand_stream
\* hand on holds exactly the single-match patterns that were reported for the
\* stream's data, and none of those was reported twice.
THEOREM StreamEvecRecordsReports ==
    ASSUME OffsetsFit
    PROVE  Spec => []EvecRecordsReports
<1>1. Init => IInv /\ RInv
  BY Zenon, InitHolds, ReportedInit
<1>2. IInv /\ RInv /\ [Next]_vars => IInv' /\ RInv'
  BY Zenon, NextStep, ReportedNext
<1>3. IInv /\ RInv => EvecRecordsReports
  BY Zenon, InvImpliesEvec
<1> QED BY <1>1, <1>2, <1>3, PTL DEF Spec

-----------------------------------------------------------------------------
(* The refinement.                                                         *)

\* What a caller sees is the same record in both modules.
LEMMA SameCalls ==
    /\ Promise!Silent = Silent
    /\ \A d, c, r, h : Promise!Call(d, c, r, h) = Call(d, c, r, h)
    /\ Promise!Streams = Streams /\ Promise!Buffers = Buffers
    /\ Promise!Writes = Writes /\ Promise!Modes = Modes
BY Zenon DEF Promise!Silent, Silent, Promise!Call, Call, Promise!Streams, Streams,
   Promise!Buffers, Buffers, Promise!Writes, Writes, Promise!Modes, Modes

\* The phase of stream s in the abstract specification.
Phase(s) == PhaseOf(s \in live, stream[s])

\* A stream is free if it is not open, and stopped once a callback asked to stop.
LEMMA PhaseFacts ==
    ASSUME NEW s
    PROVE  /\ Phase(s) = "free" <=> s \notin live
           /\ Phase(s) = "stopped" <=> s \in live /\ "TERMINATED" \in stream[s].status
           /\ Phase(s) = "open" <=> s \in live /\ "TERMINATED" \notin stream[s].status
BY DEF Phase, PhaseOf

\* Giving s a new state gives it a new phase.
LEMMA BecomeRefines ==
    ASSUME IInv, app' = app, NEW s \in Streams, NEW z, NEW t, NEW r, Become(s, z, t, r),
           \A u \in Streams : u # s => (u \in live' <=> u \in live), NEW ph,
           ph = PhaseOf(s \in live', z)
    PROVE  Promise!Become(s, t, r, ph)
<1>1. /\ stream' = [stream EXCEPT ![s] = z] /\ text' = [text EXCEPT ![s] = t]
      /\ seen' = [seen EXCEPT ![s] = r]
  BY Zenon DEF Become
<1>2. Streams' = Streams
  BY Zenon, SameApplication
<1>3. stream = [u \in Streams |-> stream[u]]
  BY DEF IInv
<1>4. ASSUME NEW u \in Streams
      PROVE  PhaseOf(u \in live', stream'[u])
                = IF u = s THEN ph ELSE PhaseOf(u \in live, stream[u])
  <2>1. CASE u = s
    <3>1. stream'[u] = z
      BY Zenon, <1>1, <1>3, <2>1
    <3> QED BY Zenon, <2>1, <3>1
  <2>2. CASE u # s
    <3>1. stream'[u] = stream[u]
      BY Zenon, <1>1, <1>3, <2>2
    <3> QED BY Zenon, <2>2, <3>1 DEF PhaseOf
  <2> QED BY Zenon, <2>1, <2>2
<1>5. [u \in Streams' |-> PhaseOf(u \in live', stream'[u])]
         = [[u \in Streams |-> PhaseOf(u \in live, stream[u])] EXCEPT ![s] = ph]
  BY Zenon, <1>2, <1>4
<1> QED BY Zenon, <1>1, <1>5 DEF Promise!Become

\* Buffers are saved streams, and nothing else changes them.
LEMMA BuffersRefine ==
    ASSUME app' = app, buf' = buf
    PROVE  UNCHANGED [b \in Buffers |-> [text |-> buf[b].text, seen |-> buf[b].seen,
                                         phase |-> PhaseOf(buf[b].kept, buf[b].z)]]
BY Zenon, SameApplication

\* The end of a stream's data is reported as promised.
LEMMA EndRefines ==
    ASSUME IInv, RInv, NEW s \in live, NEW onEvent \in BOOLEAN, EndOfData(s, onEvent)
    PROVE  Promise!Ending(s, onEvent)
<1>1. /\ app \in Applications /\ stream[s] \in StreamRecord /\ text[s] \in Seq(Bytes)
      /\ stream[s].status = {} => Keeps(stream[s], text[s])
      /\ Reported(stream[s], text[s], seen[s]) /\ s \in Streams
  BY Zenon DEF IInv, RInv, Texts
<1>2. [u \in Streams |-> PhaseOf(u \in live, stream[u])][s] = Phase(s)
  BY Zenon, <1>1 DEF Phase
<1> DEFINE All == Wanted(text[s]) \cup WantedAtEnd(text[s])
<1>3. Promise!Ending(s, onEvent) <=>
         IF Phase(s) = "open" /\ onEvent
         THEN \E r \in Deliveries(All \ seen[s]) : out' = Call(<<>>, TRUE, r.out, r.halt)
         ELSE out' = Call(<<>>, onEvent, {}, FALSE)
  BY Zenon, <1>2, SameReports, SameCalls DEF Promise!Ending
<1>4. PICK r \in (IF onEvent THEN report_eod_matches(stream[s]) ELSE Deliveries({})) :
         out' = Call(<<>>, onEvent, r.out, r.halt)
  BY Zenon DEF EndOfData
<1>5. CASE Phase(s) = "open" /\ onEvent
  <2>1. "TERMINATED" \notin stream[s].status
    BY Zenon, <1>5, PhaseFacts
  <2>2. seen[s] = Wanted(text[s])
    BY Zenon, <1>1, <2>1 DEF Reported
  <2>3. report_eod_matches(stream[s]) = Deliveries(All \ seen[s])
    BY Zenon, <1>1, <2>1, <2>2, EndReports
  <2>4. onEvent = TRUE
    BY <1>5
  <2> HIDE DEF All
  <2> QED BY Zenon, <1>3, <1>4, <1>5, <2>3, <2>4
<1>6. CASE ~(Phase(s) = "open" /\ onEvent)
  <2>1. r \in Deliveries({})
    <3>1. CASE ~onEvent
      BY Zenon, <1>4, <3>1
    <3>2. CASE onEvent
      <4>1. "TERMINATED" \in stream[s].status
        BY Zenon, <1>6, <3>2, PhaseFacts
      <4> QED BY ZenonT(30), <1>4, <3>2, <4>1, StoppedReports
    <3> QED BY Zenon, <3>1, <3>2
  <2>2. r = [out |-> {}, acked |-> {}, halt |-> FALSE]
    BY Zenon, <2>1, NothingDue
  <2>3. r.out = {} /\ r.halt = FALSE
    BY Zenon, <2>2
  <2> QED BY Zenon, <1>3, <1>4, <1>6, <2>3
<1> QED BY Zenon, <1>5, <1>6

\* The abstract phase of s.
LEMMA PhaseAt ==
    ASSUME NEW s \in Streams
    PROVE  [u \in Streams |-> PhaseOf(u \in live, stream[u])][s] = Phase(s)
BY Zenon DEF Phase

\* hs_open_stream
LEMMA OpenRefines ==
    ASSUME IInv, NEW s \in Streams, hs_open_stream(s)
    PROVE  Promise!Open(s)
<1>1. /\ "HS_MODE_STREAM" \in Modes /\ s \notin live /\ live' = live \cup {s}
      /\ Become(s, init_stream(Uninitialised), <<>>, {})
      /\ out' = Silent /\ app' = app /\ buf' = buf
  BY Zenon DEF hs_open_stream
<1>2. PhaseOf(s \in live', init_stream(Uninitialised)) = "open"
  BY <1>1 DEF PhaseOf, init_stream
<1>3. Promise!Become(s, <<>>, {}, "open")
  BY Zenon, <1>1, <1>2, BecomeRefines
<1>4. Phase(s) = "free"
  BY Zenon, <1>1, PhaseFacts
<1> QED BY Zenon, <1>1, <1>3, <1>4, PhaseAt, BuffersRefine, SameCalls DEF Promise!Open

\* hs_scan_stream
LEMMA WriteRefines ==
    ASSUME IInv, RInv, NEW s \in Streams, NEW d \in Writes, hs_scan_stream(s, d)
    PROVE  Promise!Write(s, d)
<1>1. PICK r \in hs_scan_stream_internal(stream[s], d) :
         /\ Become(s, r.z,
                   IF "TERMINATED" \in stream[s].status THEN text[s] ELSE text[s] \o d,
                   seen[s] \cup r.out)
         /\ out' = Call(<<>>, TRUE, r.out, r.halt)
  BY Zenon DEF hs_scan_stream
<1>2. app' = app /\ buf' = buf /\ live' = live /\ s \in live
  BY Zenon DEF hs_scan_stream
<1>3. d \in Seq(Bytes)
  BY Zenon, WritesType
<1>4. /\ stream = [u \in Streams |-> stream[u]] /\ text = [u \in Streams |-> text[u]]
      /\ seen = [u \in Streams |-> seen[u]]
  BY DEF IInv, RInv
<1> DEFINE Phases == [u \in Streams |-> PhaseOf(u \in live, stream[u])]
<1>5. Promise!Write(s, d) <=>
         /\ Phase(s) # "free"
         /\ IF Phase(s) = "stopped"
            THEN UNCHANGED <<text, seen, Phases>> /\ out' = Call(<<>>, TRUE, {}, FALSE)
            ELSE \E x \in Deliveries(Wanted(text[s] \o d) \ seen[s]) :
                    /\ Promise!Become(s, text[s] \o d, seen[s] \cup x.out,
                                      IF x.halt THEN "stopped" ELSE "open")
                    /\ out' = Call(<<>>, TRUE, x.out, x.halt)
         /\ UNCHANGED <<app, [b \in Buffers |-> [text |-> buf[b].text, seen |-> buf[b].seen,
                                         phase |-> PhaseOf(buf[b].kept, buf[b].z)]]>>
  BY Zenon, PhaseAt, SameReports, SameCalls DEF Promise!Write
<1>6. Phase(s) # "free"
  BY Zenon, <1>2, PhaseFacts
<1>7. UNCHANGED [b \in Buffers |-> [text |-> buf[b].text, seen |-> buf[b].seen,
                                    phase |-> PhaseOf(buf[b].kept, buf[b].z)]]
  BY Zenon, <1>2, BuffersRefine
<1>8. CASE "TERMINATED" \in stream[s].status
  <2>1. Phase(s) = "stopped"
    BY Zenon, <1>2, <1>8, PhaseFacts
  <2>2. r.z = stream[s] /\ r.out = {} /\ r.halt = FALSE
    BY Zenon, <1>2, <1>3, <1>8, WriteReports
  <2>3. seen[s] \cup r.out = seen[s]
    BY Zenon, <2>2
  <2>4. Become(s, stream[s], text[s], seen[s])
    BY Zenon, <1>1, <1>8, <2>2, <2>3
  <2>5. stream' = stream /\ text' = text /\ seen' = seen
    BY Zenon, <1>4, <2>4 DEF Become
  <2>6. Phases' = Phases
    BY Zenon, <1>2, <2>5, SameApplication
  <2> HIDE DEF Phases
  <2> QED BY ZenonT(30), <1>1, <1>2, <1>5, <1>6, <1>7, <2>1, <2>2, <2>5, <2>6
<1>9. CASE "TERMINATED" \notin stream[s].status
  <2>1. Phase(s) # "stopped"
    BY Zenon, <1>9, PhaseFacts
  <2>2. /\ Delivers(Wanted(text[s] \o d) \ seen[s], r.out, r.halt)
        /\ r.halt <=> "TERMINATED" \in r.z.status
    BY Zenon, <1>2, <1>3, <1>9, WriteReports
  <2>3. PICK x \in Deliveries(Wanted(text[s] \o d) \ seen[s]) :
           x.out = r.out /\ x.halt = r.halt
    BY Zenon, <2>2 DEF Delivers
  <2>4. PhaseOf(s \in live', r.z) = IF x.halt THEN "stopped" ELSE "open"
    BY Zenon, <1>2, <2>2, <2>3 DEF PhaseOf
  <2>5. Become(s, r.z, text[s] \o d, seen[s] \cup x.out)
    BY Zenon, <1>1, <1>9, <2>3
  <2>6. Promise!Become(s, text[s] \o d, seen[s] \cup x.out,
                       IF x.halt THEN "stopped" ELSE "open")
    BY Zenon, <1>2, <2>4, <2>5, BecomeRefines
  <2>7. out' = Call(<<>>, TRUE, x.out, x.halt)
    BY Zenon, <1>1, <2>3
  <2> QED BY ZenonT(30), <1>2, <1>5, <1>6, <1>7, <2>1, <2>3, <2>6, <2>7
<1> QED BY Zenon, <1>8, <1>9

\* hs_close_stream
LEMMA CloseRefines ==
    ASSUME IInv, RInv, NEW s \in Streams, NEW onEvent \in BOOLEAN,
           hs_close_stream(s, onEvent)
    PROVE  Promise!Close(s, onEvent)
<1>1. /\ s \in live /\ EndOfData(s, onEvent) /\ live' = live \ {s}
      /\ Become(s, Closed, <<>>, {}) /\ app' = app /\ buf' = buf
  BY Zenon DEF hs_close_stream
<1>2. PhaseOf(s \in live', Closed) = "free"
  BY <1>1 DEF PhaseOf
<1>3. Promise!Become(s, <<>>, {}, "free")
  BY Zenon, <1>1, <1>2, BecomeRefines
<1>4. Phase(s) # "free" /\ Promise!Ending(s, onEvent)
  BY Zenon, <1>1, PhaseFacts, EndRefines
<1> QED BY Zenon, <1>1, <1>3, <1>4, PhaseAt, BuffersRefine DEF Promise!Close

\* hs_reset_stream
LEMMA ResetRefines ==
    ASSUME IInv, RInv, NEW s \in Streams, NEW onEvent \in BOOLEAN,
           hs_reset_stream(s, onEvent)
    PROVE  Promise!Reset(s, onEvent)
<1>1. /\ s \in live /\ EndOfData(s, onEvent) /\ live' = live
      /\ Become(s, init_stream(stream[s].history), <<>>, {}) /\ app' = app /\ buf' = buf
  BY Zenon DEF hs_reset_stream
<1>2. PhaseOf(s \in live', init_stream(stream[s].history)) = "open"
  BY <1>1 DEF PhaseOf, init_stream
<1>3. Promise!Become(s, <<>>, {}, "open")
  BY Zenon, <1>1, <1>2, BecomeRefines
<1>4. Phase(s) # "free" /\ Promise!Ending(s, onEvent)
  BY Zenon, <1>1, PhaseFacts, EndRefines
<1> QED BY Zenon, <1>1, <1>3, <1>4, PhaseAt, BuffersRefine DEF Promise!Reset

\* hs_copy_stream and hs_reset_and_copy_stream
LEMMA CopyRefines ==
    ASSUME IInv, RInv, NEW s \in Streams, NEW f \in Streams, NEW onEvent \in BOOLEAN,
           s # f, f \in live, app' = app, buf' = buf, live' = live \cup {s},
           Become(s, stream[f], text[f], seen[f]),
           IF s \in live THEN EndOfData(s, onEvent) ELSE out' = Silent
    PROVE  Promise!Copy(s, f, onEvent)
<1>1. PhaseOf(s \in live', stream[f]) = Phase(f)
  BY Zenon DEF Phase, PhaseOf
<1>2. Promise!Become(s, text[f], seen[f], Phase(f))
  BY Zenon, <1>1, BecomeRefines
<1>3. Phase(f) # "free" /\ (Phase(s) = "free" <=> s \notin live)
  BY Zenon, PhaseFacts
<1>4. IF Phase(s) = "free" THEN out' = Promise!Silent ELSE Promise!Ending(s, onEvent)
  BY Zenon, <1>3, EndRefines, SameCalls
<1> QED BY Zenon, <1>2, <1>3, <1>4, PhaseAt, BuffersRefine DEF Promise!Copy

\* hs_compress_stream
LEMMA CompressRefines ==
    ASSUME IInv, RInv, NEW s \in Streams, NEW b \in Buffers, hs_compress_stream(s, b)
    PROVE  Promise!Save(s, b)
<1> DEFINE e == [kept |-> TRUE, z |-> compress_stream(stream[s]),
                 text |-> text[s], seen |-> seen[s]]
           Saved(c) == [text |-> c.text, seen |-> c.seen, phase |-> PhaseOf(c.kept, c.z)]
           x == [text |-> text[s], seen |-> seen[s], phase |-> Phase(s)]
           Phases == [u \in Streams |-> PhaseOf(u \in live, stream[u])]
<1>1. /\ s \in live /\ buf' = [buf EXCEPT ![b] = e] /\ out' = Silent
      /\ app' = app /\ live' = live /\ stream' = stream /\ text' = text /\ seen' = seen
  BY Zenon DEF hs_compress_stream
<1>2. Streams' = Streams /\ Buffers' = Buffers
  BY Zenon, <1>1, SameApplication
<1>3. Phases' = Phases
  BY Zenon, <1>1, <1>2
<1>4. Saved(e) = x
  <2>1. e.text = text[s] /\ e.seen = seen[s] /\ e.kept = TRUE /\ e.z = compress_stream(stream[s])
    BY Zenon
  <2>2. compress_stream(stream[s]).status = stream[s].status
    BY Zenon, Carried
  <2> HIDE DEF e
  <2>3. PhaseOf(e.kept, e.z) = Phase(s)
    BY Zenon, <1>1, <2>1, <2>2 DEF PhaseOf, Phase
  <2> QED BY Zenon, <2>1, <2>3
<1>5. buf = [c \in Buffers |-> buf[c]]
  BY Zenon DEF IInv
<1> HIDE DEF e, x, Saved
<1>6. \A c \in Buffers : Saved(buf'[c]) = IF c = b THEN x ELSE Saved(buf[c])
  BY Zenon, <1>1, <1>4, <1>5
<1>7. [c \in Buffers' |-> Saved(buf'[c])] = [[c \in Buffers |-> Saved(buf[c])] EXCEPT ![b] = x]
  BY Zenon, <1>2, <1>6
<1>8. Phase(s) # "free"
  BY Zenon, <1>1, PhaseFacts
<1> QED BY ZenonT(30), <1>1, <1>3, <1>7, <1>8, PhaseAt, SameCalls DEF Promise!Save, Saved, x

\* hs_expand_stream and hs_reset_and_expand_stream
LEMMA ExpandRefines ==
    ASSUME IInv, RInv, NEW s \in Streams, NEW b \in Buffers, NEW onEvent \in BOOLEAN,
           buf[b].kept, app' = app, buf' = buf, live' = live \cup {s}, NEW z,
           Become(s, expand_stream(z, buf[b].z), buf[b].text, buf[b].seen),
           IF s \in live THEN EndOfData(s, onEvent) ELSE out' = Silent
    PROVE  Promise!Restore(s, b, onEvent)
<1> DEFINE ph == PhaseOf(buf[b].kept, buf[b].z)
           x == [text |-> buf[b].text, seen |-> buf[b].seen, phase |-> ph]
<1>1. PhaseOf(s \in live', expand_stream(z, buf[b].z)) = ph /\ ph # "free"
  BY Carried DEF PhaseOf
<1>2. [c \in Buffers |-> [text |-> buf[c].text, seen |-> buf[c].seen,
                          phase |-> PhaseOf(buf[c].kept, buf[c].z)]][b] = x
  BY Zenon
<1>3. x.text = buf[b].text /\ x.seen = buf[b].seen /\ x.phase = ph
  BY Zenon
<1> HIDE DEF x, ph
<1>4. Promise!Become(s, x.text, x.seen, x.phase)
  BY Zenon, <1>1, <1>3, BecomeRefines
<1>5. Phase(s) = "free" <=> s \notin live
  BY Zenon, PhaseFacts
<1>6. IF Phase(s) = "free" THEN out' = Promise!Silent ELSE Promise!Ending(s, onEvent)
  BY Zenon, <1>5, EndRefines, SameCalls
<1> QED BY ZenonT(30), <1>1, <1>2, <1>3, <1>4, <1>6, PhaseAt, BuffersRefine DEF Promise!Restore

\* hs_scan and hs_scan_vector
LEMMA ScanRefines ==
    ASSUME NEW t, Answers(t), Modes # {"HS_MODE_STREAM"},
           UNCHANGED <<app, live, stream, buf, text, seen>>
    PROVE  Promise!Scan(t)
<1> DEFINE Phases == [u \in Streams |-> PhaseOf(u \in live, stream[u])]
<1>1. Phases' = Phases
  BY Zenon, SameApplication
<1>2. PICK o, h : /\ Delivers(Wanted(t) \cup WantedAtEnd(t), o, h)
                  /\ out' = Call(t, TRUE, o, h)
  BY Zenon DEF Answers
<1>3. PICK r \in Deliveries(Wanted(t) \cup WantedAtEnd(t)) : r.out = o /\ r.halt = h
  BY Zenon, <1>2 DEF Delivers
<1>4. out' = Call(t, TRUE, r.out, r.halt)
  BY Zenon, <1>2, <1>3
<1>5. out'.data = t
  BY Zenon, <1>4 DEF Call
<1>6. \E x \in Promise!Deliveries(Promise!ExpectedAtEnd(t)) :
         out' = Promise!Call(t, TRUE, x.out, x.halt)
  BY Zenon, <1>3, <1>4, SameReports, SameCalls
<1> QED BY Zenon, <1>1, <1>5, <1>6, BuffersRefine, SameCalls DEF Promise!Scan

\* Every call is a call of the abstract specification.
LEMMA NextRefines ==
    ASSUME IInv, RInv, [Next]_vars
    PROVE  [Promise!Next]_Promise!vars
<1>1. ASSUME NEW s \in Streams, hs_open_stream(s) PROVE Promise!Next
  BY Zenon, <1>1, OpenRefines, SameCalls DEF Promise!Next
<1>2. ASSUME NEW s \in Streams, NEW d \in Writes, hs_scan_stream(s, d) PROVE Promise!Next
  BY Zenon, <1>2, WriteRefines, SameCalls DEF Promise!Next
<1>3. ASSUME NEW s \in Streams, NEW onEvent \in BOOLEAN, hs_close_stream(s, onEvent)
      PROVE  Promise!Next
  BY Zenon, <1>3, CloseRefines, SameCalls DEF Promise!Next
<1>4. ASSUME NEW s \in Streams, NEW onEvent \in BOOLEAN, hs_reset_stream(s, onEvent)
      PROVE  Promise!Next
  BY Zenon, <1>4, ResetRefines, SameCalls DEF Promise!Next
<1>5. ASSUME NEW s \in Streams, NEW f \in Streams, NEW onEvent \in BOOLEAN,
             Promise!Copy(s, f, onEvent)
      PROVE  Promise!Next
  BY Zenon, <1>5, SameCalls DEF Promise!Next
<1>6. ASSUME NEW s \in Streams, NEW f \in Streams, hs_copy_stream(s, f)
      PROVE  Promise!Next
  <2>1. /\ s \notin live /\ f \in live /\ live' = live \cup {s}
        /\ Become(s, stream[f], text[f], seen[f])
        /\ out' = Silent /\ app' = app /\ buf' = buf
    BY Zenon, <1>6 DEF hs_copy_stream
  <2>2. Promise!Copy(s, f, TRUE)
    BY Zenon, <2>1, CopyRefines
  <2> QED BY Zenon, <1>5, <2>2
<1>7. ASSUME NEW s \in Streams, NEW f \in Streams, NEW onEvent \in BOOLEAN,
             hs_reset_and_copy_stream(s, f, onEvent)
      PROVE  Promise!Next
  <2>1. /\ s \in live /\ f \in live /\ s # f /\ EndOfData(s, onEvent)
        /\ Become(s, stream[f], text[f], seen[f])
        /\ live' = live /\ app' = app /\ buf' = buf
    BY Zenon, <1>7 DEF hs_reset_and_copy_stream
  <2>2. live' = live \cup {s}
    BY Zenon, <2>1
  <2>3. Promise!Copy(s, f, onEvent)
    BY Zenon, <2>1, <2>2, CopyRefines
  <2> QED BY Zenon, <1>5, <2>3
<1>8. ASSUME NEW s \in Streams, NEW b \in Buffers, hs_compress_stream(s, b)
      PROVE  Promise!Next
  BY Zenon, <1>8, CompressRefines, SameCalls DEF Promise!Next
<1>9. ASSUME NEW s \in Streams, NEW b \in Buffers, NEW onEvent \in BOOLEAN,
             Promise!Restore(s, b, onEvent)
      PROVE  Promise!Next
  BY Zenon, <1>9, SameCalls DEF Promise!Next
<1>10. ASSUME NEW s \in Streams, NEW b \in Buffers, hs_expand_stream(s, b)
       PROVE  Promise!Next
  <2>1. /\ s \notin live /\ buf[b].kept /\ live' = live \cup {s}
        /\ Become(s, expand_stream(Closed, buf[b].z), buf[b].text, buf[b].seen)
        /\ out' = Silent /\ app' = app /\ buf' = buf
    BY Zenon, <1>10 DEF hs_expand_stream
  <2>2. Promise!Restore(s, b, TRUE)
    BY Zenon, <2>1, ExpandRefines
  <2> QED BY Zenon, <1>9, <2>2
<1>11. ASSUME NEW s \in Streams, NEW b \in Buffers, NEW onEvent \in BOOLEAN,
              hs_reset_and_expand_stream(s, b, onEvent)
       PROVE  Promise!Next
  <2>1. /\ s \in live /\ buf[b].kept /\ EndOfData(s, onEvent)
        /\ Become(s, expand_stream(stream[s], buf[b].z), buf[b].text, buf[b].seen)
        /\ live' = live /\ app' = app /\ buf' = buf
    BY Zenon, <1>11 DEF hs_reset_and_expand_stream
  <2>2. live' = live \cup {s}
    BY Zenon, <2>1
  <2>3. Promise!Restore(s, b, onEvent)
    BY Zenon, <2>1, <2>2, ExpandRefines
  <2> QED BY Zenon, <1>9, <2>3
<1>12. ASSUME NEW d \in Writes, NEW e \in Writes, hs_scan_vector(d, e) PROVE Promise!Next
  <2>1. /\ "HS_MODE_VECTORED" \in Modes /\ UNCHANGED <<app, live, stream, buf, text, seen>>
    BY Zenon, <1>12 DEF hs_scan_vector
  <2>2. Modes # {"HS_MODE_STREAM"}
    BY <2>1
  <2>3. d \in Seq(Bytes) /\ e \in Seq(Bytes) /\ app \in Applications
    BY Zenon, WritesType DEF RInv
  <2>4. Answers(d \o e)
    BY Zenon, <1>12, <2>3, VectorReports
  <2>5. Promise!Scan(d \o e)
    BY Zenon, <2>1, <2>2, <2>4, ScanRefines
  <2> QED BY Zenon, <2>5, SameCalls DEF Promise!Next
<1>13. ASSUME NEW d \in Writes, NEW e \in Writes, hs_scan(d \o e) PROVE Promise!Next
  <2>1. /\ "HS_MODE_BLOCK" \in Modes /\ UNCHANGED <<app, live, stream, buf, text, seen>>
    BY Zenon, <1>13 DEF hs_scan
  <2>2. Modes # {"HS_MODE_STREAM"}
    BY <2>1
  <2>3. d \in Seq(Bytes) /\ e \in Seq(Bytes) /\ app \in Applications
    BY Zenon, WritesType DEF RInv
  <2>4. d \o e \in Seq(Bytes)
    BY <2>3, ConcatProperties
  <2>5. Answers(d \o e)
    BY Zenon, <1>13, <2>3, <2>4, BlockReports
  <2>6. Promise!Scan(d \o e)
    BY Zenon, <2>1, <2>2, <2>5, ScanRefines
  <2> QED BY Zenon, <2>6, SameCalls DEF Promise!Next
<1>14. CASE UNCHANGED vars
  <2>1. UNCHANGED <<app, live, stream, buf, text, seen, out>>
    BY Zenon, <1>14 DEF vars
  <2>2. Streams' = Streams /\ Buffers' = Buffers
    BY Zenon, <2>1, SameApplication
  <2> QED BY Zenon, <2>1, <2>2 DEF Promise!vars
<1>15. CASE Next
  BY Zenon, <1>1, <1>2, <1>3, <1>4, <1>6, <1>7, <1>8, <1>10, <1>11, <1>12, <1>13, <1>15
     DEF Next
<1> QED BY Zenon, <1>14, <1>15

\* At first every stream is free and no buffer holds one.
LEMMA InitRefines == Init => Promise!Init
<1> SUFFICES ASSUME Init PROVE Promise!Init
  OBVIOUS
<1>1. /\ app \in Applications /\ live = {} /\ stream = [s \in Streams |-> Closed]
      /\ buf = [b \in Buffers |-> NoBuf]
      /\ text = [s \in Streams |-> <<>>] /\ seen = [s \in Streams |-> {}] /\ out = Silent
  BY Zenon DEF Init
<1>2. \A s \in Streams : PhaseOf(s \in live, stream[s]) = "free"
  BY Zenon, <1>1 DEF PhaseOf
<1>3. [s \in Streams |-> PhaseOf(s \in live, stream[s])] = [s \in Streams |-> "free"]
  BY Zenon, <1>2
<1>4. NoBuf.text = <<>> /\ NoBuf.seen = {} /\ PhaseOf(NoBuf.kept, NoBuf.z) = "free"
  BY Zenon DEF NoBuf, PhaseOf
<1>5. \A b \in Buffers : buf[b] = NoBuf
  BY Zenon, <1>1
<1> HIDE DEF NoBuf
<1>6. [b \in Buffers |-> [text |-> buf[b].text, seen |-> buf[b].seen,
                          phase |-> PhaseOf(buf[b].kept, buf[b].z)]]
         = [b \in Buffers |-> [text |-> <<>>, seen |-> {}, phase |-> "free"]]
  BY Zenon, <1>4, <1>5
<1> QED BY Zenon, <1>1, <1>3, <1>6, SameCalls DEF Promise!Init

\* While the offsets of compressed streams fit in a u32, the stream runtime
\* implements StreamSpec: every call reports what is due for all of the data of
\* its stream, whatever writes, copies, resets, compressions and expansions made
\* it up, and a block scan and a vectored scan report what a stream would.
THEOREM StreamKeepsPromise ==
    ASSUME OffsetsFit
    PROVE  Spec => KeepsPromise
<1>1. Init => IInv /\ RInv
  BY Zenon, InitHolds, ReportedInit
<1>2. IInv /\ RInv /\ [Next]_vars => IInv' /\ RInv'
  BY Zenon, NextStep, ReportedNext
<1>3. Init => Promise!Init
  BY Zenon, InitRefines
<1>4. IInv /\ RInv /\ [Next]_vars => [Promise!Next]_Promise!vars
  BY Zenon, NextRefines
<1> QED BY <1>1, <1>2, <1>3, <1>4, PTL DEF Spec, KeepsPromise, Promise!Spec
=============================================================================
