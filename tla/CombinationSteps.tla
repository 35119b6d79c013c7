-------------------------- MODULE CombinationSteps --------------------------
(***************************************************************************)
(* Every action of Combination is one of the steps of CombinationInv, and  *)
(* what a match and a flush do to the combinations that wait.              *)
(***************************************************************************)
EXTENDS CombinationInv, TLAPS

\* What a loop over the due combinations may deliver.
LEMMA Delivered ==
    ASSUME NEW S, NEW d \in Deliveries(S)
    PROVE  /\ d.to_user \subseteq S /\ d.halt \in BOOLEAN
           /\ ~d.halt => d.to_user = S /\ Marked(d) = {c \in S : CombInfo[c].ekey}
           /\ Marked(d) \subseteq d.to_user
<1>1. CASE d = [to_user |-> S, halt |-> FALSE]
  BY Zenon, <1>1 DEF Marked
<1>2. CASE \E k \in S : d = [to_user |-> {c \in S : c =< k}, halt |-> TRUE]
  BY <1>2 DEF Marked
<1> QED
  BY Zenon, <1>1, <1>2 DEF Deliveries

\* No flush, no effect.
LEMMA NothingDelivered ==
    /\ Nothing \in Deliveries({}) /\ ~Nothing.halt /\ Nothing.to_user = {}
    /\ Marked(Nothing) = {} /\ \A to : At(Nothing, to) = {}
BY Zenon DEF Nothing, Deliveries, Marked, At

\* Every stream and every block has its scratch.
LEMMA ScrOfType == \A i \in Ids : ScrOf(i) \in Scratches
BY Zenon, CombinationAssumption DEF Ids, ScrOf

\* A stream and its scratch.
LEMMA StreamFacts ==
    ASSUME BInv, NEW s \in Streams
    PROVE  /\ s \in Ids /\ ScratchOf[s] \in Scratches /\ ScrOf(s) = ScratchOf[s]
           /\ s \notin Scratches /\ IdOK(s)
           /\ offset[s] \in Nat /\ offset[s] =< MaxOffset /\ MaxOffset \in Nat
BY SMTT(30), CombinationAssumption DEF ScrOf, Ids, BInv, TypeOK

\* The data a call is for.
LEMMA InCallFacts ==
    ASSUME BInv, NEW x \in Scratches, call[x] # NoCall
    PROVE  /\ call[x] \in Calls /\ call[x].id \in Ids /\ ScrOf(call[x].id) = x
           /\ CallOK(x) /\ IdOK(call[x].id) /\ InCall(call[x].id)
           /\ lastCombMatchOffset[x] \in Ends
           /\ call[x].id \in Scratches => call[x].id \in BlockScratches
<1>1. call[x] \in Calls /\ call[x].id \in Ids /\ CallOK(x)
  BY Zenon DEF BInv, TypeOK, Calls
<1>2. ScrOf(call[x].id) = x
  BY Zenon, <1>1 DEF CallOK
<1>3. call[x].id \in Scratches => call[x].id \in BlockScratches
  <2>1. call[x].kind \in {"scan", "close", "block"}
    BY Zenon, <1>1 DEF Calls
  <2> QED
    BY Zenon, <1>1, <2>1, CombinationAssumption DEF CallOK
<1> QED
  BY Zenon, <1>1, <1>2, <1>3 DEF BInv, TypeOK, InCall, Ends

\* A step on one stream or block leaves the calls of the others alone.
LEMMA OthersCall ==
    ASSUME BInv, NEW i, NEW x, OnlyHere(i, x), NEW j \in Ids, j # i
    PROVE  /\ InCall(j)' <=> InCall(j)
           /\ InCall(j) => ScrOf(j) # x /\ call'[ScrOf(j)] = call[ScrOf(j)]
                           /\ lastCombMatchOffset'[ScrOf(j)] = lastCombMatchOffset[ScrOf(j)]
           /\ Waiting(j)' <=> Waiting(j)
<1>1. ScrOf(j) \in Scratches
  BY Zenon, ScrOfType
<1>2. CASE ScrOf(j) = x
  BY Zenon, <1>1, <1>2 DEF InCall, Waiting, OnlyHere, ScrOf
<1>3. CASE ScrOf(j) # x
  BY Zenon, <1>1, <1>3 DEF InCall, Waiting, OnlyHere, ScrOf
<1> QED
  BY Zenon, <1>2, <1>3

-----------------------------------------------------------------------------
\* flushActiveCombinations delivers what is ready.
LEMMA FlushIsReady ==
    ASSUME NEW i, NEW x
    PROVE  flushActiveCombinations(i, x)
             = Deliveries(Ready(lvec[i], cvec[i], evec[i], lastCombMatchOffset[x]))
BY Zenon DEF flushActiveCombinations, Ready, Reportable

\* A delivery is of combinations of the database.
LEMMA DeliveryTypes ==
    ASSUME NEW S \in SUBSET CKeys, NEW d \in Deliveries(S), NEW to \in Ends
    PROVE  /\ d.to_user \subseteq CKeys /\ Marked(d) \subseteq CKeys
           /\ At(d, to) \subseteq CKeys \X Ends /\ d.halt \in BOOLEAN
BY Delivered DEF At

\* The end of a call, and the stop that goes on to the last flush.
LEMMA StoppedMoves ==
    ASSUME BInv, NEW x \in Scratches, call[x] # NoCall, Stopped(x),
           call[x].phase # "last"
    PROVE  LET i == call[x].id IN
           /\ call' \in [Scratches -> Calls \cup {NoCall}]
           /\ status' \in [Ids -> SUBSET {"TERMINATED", "EXHAUSTED"}]
           /\ life' \in [Ids -> {"new", "open", "closed"}]
           /\ \A y \in Scratches \ {x} : call'[y] = call[y]
           /\ \A j \in Ids \ {i} : life'[j] = life[j] /\ status'[j] = status[j]
           /\ status'[i] = status[i] \cup {"TERMINATED"}
           /\ IF call[x].kind = "block" /\ call[x].phase \in {"zero", "boundary"}
              THEN /\ call'[x] \in Calls /\ call'[x].id = i
                   /\ call'[x].kind = call[x].kind /\ call'[x].end = call[x].end
                   /\ call'[x].phase = "last" /\ call'[x].at = call[x].at
                   /\ call'[x].todo = call[x].todo
                   /\ life'[i] = life[i]
              ELSE /\ call'[x] = NoCall
                   /\ life'[i] = IF call[x].kind = "scan" THEN life[i] ELSE "closed"
<1>1. call[x] \in Calls /\ call[x].id \in Ids /\ TypeOK
  BY Zenon, InCallFacts DEF BInv
<1>2. CASE call[x].kind = "block" /\ call[x].phase \in {"zero", "boundary"}
  <2>1. [call[x] EXCEPT !.phase = "last"] \in Calls
    BY Zenon, <1>1 DEF Calls
  <2>2. /\ call' = [call EXCEPT ![x] = [call[x] EXCEPT !.phase = "last"]]
        /\ status' = [status EXCEPT ![call[x].id] = status[call[x].id] \cup {"TERMINATED"}]
        /\ life' = life
    BY Zenon, <1>2 DEF Stopped
  <2> QED
    BY Zenon, <1>1, <1>2, <2>1, <2>2 DEF TypeOK, Calls
<1>3. CASE ~(call[x].kind = "block" /\ call[x].phase \in {"zero", "boundary"})
  BY <1>1, <1>3 DEF Stopped, Return, TypeOK
<1> QED
  BY Zenon, <1>2, <1>3

\* Report, given what the flush delivers and whether a callback stops it.
ReportWith(x, l, e, a, d, stop) ==
    LET i == call[x].id
        last == lastCombMatchOffset[x]
    IN  /\ reported' = [reported EXCEPT ![i] = @ \cup At(d, last)]
        /\ evec' = [evec EXCEPT ![i] = @ \cup Marked(d)]
        /\ cvec' = [cvec EXCEPT ![i] =
               (IF e > last /\ ~d.halt THEN {} ELSE @)
                   \cup (IF stop THEN {} ELSE {c \in CKeys : l \in Operands(c)})]
        /\ IF stop
           THEN /\ Stopped(x)
                /\ UNCHANGED <<lvec, lastCombMatchOffset, matched>>
           ELSE /\ lvec' = [lvec EXCEPT ![i] = @ \cup {l}]
                /\ updateLastCombMatchOffset(x, e, a)
                /\ matched' = [matched EXCEPT ![i] = @ \cup {<<l, e>>}]
                /\ call' = [call EXCEPT ![x].at = e, ![x].todo = @ \ {l}]
                /\ UNCHANGED <<status, life>>
        /\ UNCHANGED offset

\* Report has one of these outcomes.
LEMMA ReportOutcome ==
    ASSUME BInv, NEW x \in Scratches, NEW l, NEW e, NEW a, Reporting(x, l, e, a)
    PROVE  /\ OnlyHere(call[x].id, x) /\ TypeOK'
           /\ \E d, stop : Outcome(x, l, e, a, d, stop)
<1> DEFINE i == call[x].id
           last == lastCombMatchOffset[x]
           D == IF e > last THEN Deliveries(Ready(lvec[i], cvec[i], evec[i], last))
                ELSE {Nothing}
<1>1. /\ call[x] \in Calls /\ i \in Ids /\ ScrOf(i) = x /\ last \in Ends
      /\ i \in Scratches => i \in BlockScratches
      /\ call[x] # NoCall /\ call[x].phase # "last"
  BY Zenon, InCallFacts DEF Reporting
<1>2. TypeOK
  BY Zenon DEF BInv
<1>3. Report(x, l, e, a) /\ l \in LKeys /\ e \in Ends /\ e + a \in Ends
  BY Zenon DEF Reporting
<1>4. PICK d \in D : \E stop \in IF d.halt \/ l \in Quiet THEN {d.halt} ELSE BOOLEAN :
          ReportWith(x, l, e, a, d, stop)
  BY Zenon, <1>3, FlushIsReady DEF Report, ReportWith
<1>5. PICK stop \in IF d.halt \/ l \in Quiet THEN {d.halt} ELSE BOOLEAN :
          ReportWith(x, l, e, a, d, stop)
  BY Zenon, <1>4
<1>6. /\ Marked(d) \subseteq CKeys /\ At(d, last) \subseteq CKeys \X Ends
      /\ d.halt \in BOOLEAN
  <2>1. Ready(lvec[i], cvec[i], evec[i], last) \in SUBSET CKeys
    BY Zenon, <1>1, <1>2 DEF TypeOK, Ready
  <2> QED
    BY Zenon, <2>1, <1>1, <1>4, DeliveryTypes, NothingDelivered
<1>7. stop \in BOOLEAN /\ (d.halt => stop) /\ (l \in Quiet => (stop => d.halt))
  BY Zenon, <1>5, <1>6
<1>8. /\ reported' \in [Ids -> SUBSET (CKeys \X (0 .. MaxOffset))]
      /\ reported'[i] = reported[i] \cup At(d, last)
      /\ \A j \in Ids \ {i} : reported'[j] = reported[j]
  BY Zenon, <1>1, <1>2, <1>5, <1>6 DEF TypeOK, ReportWith, Ends
<1>9. /\ evec' \in [Ids -> SUBSET CKeys]
      /\ evec'[i] = evec[i] \cup Marked(d)
      /\ \A j \in Ids \ {i} : evec'[j] = evec[j]
  BY Zenon, <1>1, <1>2, <1>5, <1>6 DEF TypeOK, ReportWith
<1>10. /\ cvec' \in [Ids -> SUBSET CKeys]
       /\ cvec'[i] = (IF e > last /\ ~d.halt THEN {} ELSE cvec[i])
                       \cup (IF stop THEN {} ELSE {c \in CKeys : l \in Operands(c)})
       /\ \A j \in Ids \ {i} : cvec'[j] = cvec[j]
  BY Zenon, <1>1, <1>2, <1>5 DEF TypeOK, ReportWith
<1>11. offset' = offset
  BY Zenon, <1>5 DEF ReportWith
<1>12. CASE stop
  <2>1. Stopped(x) /\ lvec' = lvec /\ lastCombMatchOffset' = lastCombMatchOffset
        /\ matched' = matched
    BY Zenon, <1>5, <1>12 DEF ReportWith
  <2>2. TypeOK'
    BY Zenon, <2>1, <1>1, <1>2, <1>8, <1>9, <1>10, <1>11, StoppedMoves DEF TypeOK
  <2>3. OnlyHere(i, x)
    BY ZenonT(30), <2>1, <1>1, <1>8, <1>9, <1>10, <1>11, StoppedMoves DEF OnlyHere
  <2>4. Outcome(x, l, e, a, d, stop)
    BY Zenon, <2>1, <1>1, <1>4, <1>6, <1>7, <1>8, <1>9, <1>10, <1>11, <1>12, StoppedMoves DEF Outcome
  <2> QED BY Zenon, <2>2, <2>3, <2>4
<1>13. CASE ~stop
  <2>1. /\ lvec' = [lvec EXCEPT ![i] = lvec[i] \cup {l}]
        /\ lastCombMatchOffset' = [lastCombMatchOffset EXCEPT ![x] = e + a]
        /\ matched' = [matched EXCEPT ![i] = matched[i] \cup {<<l, e>>}]
        /\ call' = [call EXCEPT ![x] = [call[x] EXCEPT !.at = e,
                                                      !.todo = call[x].todo \ {l}]]
        /\ status' = status /\ life' = life
    BY Zenon, <1>5, <1>13 DEF ReportWith, updateLastCombMatchOffset
  <2>2. /\ lvec' \in [Ids -> SUBSET LKeys] /\ lvec'[i] = lvec[i] \cup {l}
        /\ \A j \in Ids \ {i} : lvec'[j] = lvec[j]
    BY Zenon, <2>1, <1>1, <1>2, <1>3 DEF TypeOK
  <2>3. /\ lastCombMatchOffset' \in [Scratches -> 0 .. MaxOffset]
        /\ lastCombMatchOffset'[x] = e + a
        /\ \A y \in Scratches \ {x} : lastCombMatchOffset'[y] = lastCombMatchOffset[y]
    BY Zenon, <2>1, <1>2, <1>3 DEF TypeOK, Ends
  <2>4. /\ matched' \in [Ids -> SUBSET (LKeys \X (0 .. MaxOffset))]
        /\ matched'[i] = matched[i] \cup {<<l, e>>}
        /\ \A j \in Ids \ {i} : matched'[j] = matched[j]
    BY <2>1, <1>1, <1>2, <1>3 DEF TypeOK, Ends
  <2>5. /\ call' \in [Scratches -> Calls \cup {NoCall}]
        /\ call'[x] \in Calls /\ call'[x].id = i
        /\ call'[x].kind = call[x].kind /\ call'[x].end = call[x].end
        /\ call'[x].phase = call[x].phase /\ call'[x].at = e
        /\ call'[x].todo \subseteq call[x].todo
        /\ \A y \in Scratches \ {x} : call'[y] = call[y]
    <3>1. [call[x] EXCEPT !.at = e, !.todo = call[x].todo \ {l}] \in Calls
      BY Zenon, <1>1, <1>3 DEF Calls, Ends
    <3> QED
      BY Zenon, <3>1, <2>1, <1>1, <1>2 DEF TypeOK, Calls
  <2>6. TypeOK'
    BY Zenon, <2>1, <2>2, <2>3, <2>4, <2>5, <1>2, <1>8, <1>9, <1>10, <1>11 DEF TypeOK
  <2>7. OnlyHere(i, x)
    BY ZenonT(30), <2>1, <2>2, <2>3, <2>4, <2>5, <1>1, <1>8, <1>9, <1>10, <1>11 DEF OnlyHere
  <2>8. Outcome(x, l, e, a, d, stop)
    BY Zenon, <2>1, <2>2, <2>3, <2>4, <2>5, <1>1, <1>4, <1>6, <1>7, <1>8, <1>9, <1>10, <1>11,
       <1>13
    DEF Outcome
  <2> QED BY Zenon, <2>6, <2>7, <2>8
<1> QED
  BY Zenon, <1>7, <1>12, <1>13

\* A call on x, if there is one, is for data i.
For(i, x) ==
    /\ ScrOf(i) = x /\ (i \in Scratches => i \in BlockScratches)
    /\ call[x] # NoCall => call[x].id = i

\* A step that changes a call and its offset only.
LEMMA CallChanges ==
    ASSUME BInv, NEW x \in Scratches, NEW i \in Ids, For(i, x), NEW c \in Calls, c.id = i, NEW last \in Ends,
           call' = [call EXCEPT ![x] = c],
           lastCombMatchOffset' = [lastCombMatchOffset EXCEPT ![x] = last],
           UNCHANGED <<life, offset, status, lvec, cvec, evec, matched, reported>>
    PROVE  /\ OnlyHere(i, x) /\ TypeOK'
           /\ call'[x] = c /\ lastCombMatchOffset'[x] = last
<1>1. /\ call' \in [Scratches -> Calls \cup {NoCall}] /\ call'[x] = c
      /\ \A y \in Scratches \ {x} : call'[y] = call[y]
  BY Zenon DEF BInv, TypeOK
<1>2. /\ lastCombMatchOffset' \in [Scratches -> 0 .. MaxOffset]
      /\ lastCombMatchOffset'[x] = last
      /\ \A y \in Scratches \ {x} : lastCombMatchOffset'[y] = lastCombMatchOffset[y]
  BY Zenon DEF BInv, TypeOK, Ends
<1>3. TypeOK'
  BY Zenon, <1>1, <1>2 DEF BInv, TypeOK
<1>4. OnlyHere(i, x)
  BY Zenon, <1>1, <1>2 DEF OnlyHere, For
<1> QED BY Zenon, <1>1, <1>2, <1>3, <1>4

\* hs_scan_stream and hs_close_stream begin a call.
LEMMA CallBegins ==
    ASSUME BInv, NEW s \in Streams,
           hs_close_stream(s) \/ (\E len \in 1 .. MaxOffset : hs_scan_stream(s, len)),
           status[s] = {}
    PROVE  OnlyHere(s, ScratchOf[s]) /\ TypeOK' /\ \E c : Begins(s, c)
<1>1. PICK x \in Scratches : x = ScratchOf[s]
  BY Zenon, StreamFacts
<1>2. /\ s \in Ids /\ ScrOf(s) = x /\ s \notin Scratches
      /\ offset[s] \in Nat /\ offset[s] =< MaxOffset /\ MaxOffset \in Nat
  BY Zenon, <1>1, StreamFacts
<1>3. PICK last \in Ends : last = IF offset[s] = 0 THEN 0 ELSE lastCombMatchOffset[x]
  BY Zenon, <1>2 DEF BInv, TypeOK, Ends
<1>4. /\ life[s] = "open" /\ call[x] = NoCall
      /\ lastCombMatchOffset' = [lastCombMatchOffset EXCEPT ![x] = last]
      /\ UNCHANGED <<life, offset, status, lvec, cvec, evec, matched, reported>>
  BY Zenon, <1>1, <1>3 DEF hs_scan_stream, hs_close_stream, streamVars
<1>5. ASSUME NEW c \in Calls, c.id = s, c.at = offset[s], call' = [call EXCEPT ![x] = c],
             \/ c.kind = "scan" /\ c.phase = "zero" /\ c.at < c.end
                /\ (c.todo # {} => c.at = 0)
             \/ c.kind = "close" /\ c.phase = "boundary" /\ c.at = c.end
                /\ (c.todo # {} /\ EodKeys = {} => c.at = 0)
      PROVE  OnlyHere(s, x) /\ TypeOK' /\ Begins(s, c)
  <2>1. /\ OnlyHere(s, x) /\ TypeOK' /\ call'[x] = c /\ lastCombMatchOffset'[x] = last
    <3>1. PICK i \in Ids : i = s
      BY Zenon, <1>2
    <3>2. For(i, x) /\ c.id = i
      BY Zenon, <1>2, <1>4, <1>5, <3>1 DEF For
    <3>3. OnlyHere(i, x) /\ TypeOK' /\ call'[x] = c /\ lastCombMatchOffset'[x] = last
      <4>1. call' = [call EXCEPT ![x] = c]
        BY Zenon, <1>5
      <4>2. UNCHANGED <<life, offset, status, lvec, cvec, evec, matched, reported>>
        BY Zenon, <1>4
      <4>3. lastCombMatchOffset' = [lastCombMatchOffset EXCEPT ![x] = last]
        BY Zenon, <1>4
      <4> QED BY Zenon, <3>2, <4>1, <4>2, <4>3, CallChanges
    <3> QED BY Zenon, <3>1, <3>3
  <2>2. Begins(s, c)
    BY Zenon, <1>1, <1>3, <1>4, <1>5, <2>1 DEF Begins
  <2> QED BY Zenon, <2>1, <2>2
<1>6. CASE \E len \in 1 .. MaxOffset : hs_scan_stream(s, len)
  <2>1. PICK len \in 1 .. MaxOffset : hs_scan_stream(s, len)
    BY Zenon, <1>6
  <2> DEFINE c == [id |-> s, kind |-> "scan", phase |-> "zero",
                   todo |-> IF offset[s] = 0 THEN ZeroKeys ELSE {},
                   at |-> offset[s], end |-> offset[s] + len]
  <2>2. call' = [call EXCEPT ![x] = c] /\ offset[s] + len =< MaxOffset
    BY ZenonT(30), <1>1, <2>1 DEF hs_scan_stream
  <2>3. c \in Calls
    BY <1>2, <2>2, CombinationAssumption DEF Calls
  <2>4. c.id = s /\ c.kind = "scan" /\ c.phase = "zero" /\ c.at = offset[s]
        /\ c.at < c.end /\ (c.todo # {} => c.at = 0)
    BY <1>2
  <2> HIDE DEF c
  <2> QED BY Zenon, <1>1, <1>5, <2>2, <2>3, <2>4
<1>7. CASE hs_close_stream(s)
  <2> DEFINE c == [id |-> s, kind |-> "close", phase |-> "boundary",
                   todo |-> IF offset[s] = 0 THEN ZeroKeys \cup EodKeys ELSE EodKeys,
                   at |-> offset[s], end |-> offset[s]]
  <2>1. call' = [call EXCEPT ![x] = c]
    BY Zenon, <1>1, <1>7 DEF hs_close_stream
  <2>2. c \in Calls
    BY <1>2, CombinationAssumption DEF Calls
  <2>3. c.id = s /\ c.kind = "close" /\ c.phase = "boundary" /\ c.at = offset[s]
        /\ c.at = c.end /\ (c.todo # {} /\ EodKeys = {} => c.at = 0)
    BY Zenon, <1>2
  <2> HIDE DEF c
  <2> QED BY Zenon, <1>1, <1>5, <2>1, <2>2, <2>3
<1> QED BY Zenon, <1>6, <1>7

\* hs_close_stream of a broken stream just frees it.
LEMMA CloseBreaks ==
    ASSUME BInv, NEW s \in Streams, hs_close_stream(s), status[s] # {}
    PROVE  OnlyHere(s, ScratchOf[s]) /\ TypeOK' /\ Breaks(s)
<1>1. PICK x \in Scratches : x = ScratchOf[s]
  BY Zenon, StreamFacts
<1>2. s \in Ids /\ ScrOf(s) = x /\ s \notin Scratches /\ IdOK(s)
  BY Zenon, <1>1, StreamFacts
<1>3. /\ call[x] = NoCall /\ life' = [life EXCEPT ![s] = "closed"]
      /\ UNCHANGED <<offset, status, lvec, cvec, evec, matched, reported, call,
                     lastCombMatchOffset>>
  BY Zenon, <1>1 DEF hs_close_stream
<1>4. TypeOK' /\ life'[s] = "closed" /\ \A j \in Ids \ {s} : life'[j] = life[j]
  BY Zenon, <1>2, <1>3 DEF BInv, TypeOK
<1>5. OnlyHere(s, x)
  BY ZenonT(30), <1>2, <1>3, <1>4 DEF OnlyHere
<1> QED
  BY Zenon, <1>1, <1>3, <1>4, <1>5 DEF Breaks

\* hs_scan starts this way.
LEMMA ScanStartsHere ==
    ASSUME BInv, NEW x \in Scratches, NEW len \in 0 .. MaxOffset, hs_scan(x, len)
    PROVE  OnlyHere(x, x) /\ TypeOK' /\ ScanStarts(x, len)
<1> DEFINE c == [id |-> x, kind |-> "block",
                 phase |-> IF len = 0 THEN "boundary" ELSE "zero",
                 todo |-> IF len = 0 THEN ZeroKeys \cup EodKeys ELSE ZeroKeys,
                 at |-> 0, end |-> len]
<1>1. x \in Ids /\ ScrOf(x) = x
  BY Zenon, CombinationAssumption DEF Ids, ScrOf
<1>2. /\ x \in BlockScratches /\ call[x] = NoCall
      /\ life' = [life EXCEPT ![x] = IF MinWidth > len THEN "closed" ELSE "open"]
      /\ offset' = [offset EXCEPT ![x] = len]
      /\ status' = [status EXCEPT ![x] = {}]
      /\ lvec' = [lvec EXCEPT ![x] = {}]
      /\ cvec' = [cvec EXCEPT ![x] = {}]
      /\ evec' = [evec EXCEPT ![x] = {}]
      /\ matched' = [matched EXCEPT ![x] = {}]
      /\ reported' = [reported EXCEPT ![x] = {}]
      /\ IF MinWidth > len THEN UNCHANGED <<call, lastCombMatchOffset>>
         ELSE /\ call' = [call EXCEPT ![x] = c]
              /\ lastCombMatchOffset' = [lastCombMatchOffset EXCEPT ![x] = 0]
  BY Zenon DEF hs_scan
<1>3. c \in Calls
  BY <1>1, CombinationAssumption DEF Calls
<1>4. c.id = x /\ c.kind = "block" /\ c.at = 0 /\ c.end = len
      /\ c.phase = (IF len = 0 THEN "boundary" ELSE "zero")
      /\ c.todo \subseteq ZeroKeys \cup EodKeys
  BY Zenon
<1> HIDE DEF c
<1>5. /\ life' \in [Ids -> {"new", "open", "closed"}]
      /\ life'[x] = IF MinWidth > len THEN "closed" ELSE "open"
      /\ \A j \in Ids \ {x} : life'[j] = life[j]
  BY Zenon, <1>1, <1>2 DEF BInv, TypeOK
<1>6. /\ offset' \in [Ids -> 0 .. MaxOffset] /\ offset'[x] = len
      /\ status' \in [Ids -> SUBSET {"TERMINATED", "EXHAUSTED"}] /\ status'[x] = {}
      /\ \A j \in Ids \ {x} : offset'[j] = offset[j] /\ status'[j] = status[j]
  BY Zenon, <1>1, <1>2 DEF BInv, TypeOK
<1>7. /\ lvec' \in [Ids -> SUBSET LKeys] /\ lvec'[x] = {}
      /\ cvec' \in [Ids -> SUBSET CKeys] /\ cvec'[x] = {}
      /\ evec' \in [Ids -> SUBSET CKeys] /\ evec'[x] = {}
      /\ \A j \in Ids \ {x} : lvec'[j] = lvec[j] /\ cvec'[j] = cvec[j] /\ evec'[j] = evec[j]
  BY Zenon, <1>1, <1>2 DEF BInv, TypeOK
<1>8. /\ matched' \in [Ids -> SUBSET (LKeys \X (0 .. MaxOffset))] /\ matched'[x] = {}
      /\ reported' \in [Ids -> SUBSET (CKeys \X (0 .. MaxOffset))] /\ reported'[x] = {}
      /\ \A j \in Ids \ {x} : matched'[j] = matched[j] /\ reported'[j] = reported[j]
  BY Zenon, <1>1, <1>2 DEF BInv, TypeOK
<1>9. CASE MinWidth > len
  BY <1>1, <1>2, <1>5, <1>6, <1>7, <1>8, <1>9 DEF BInv, TypeOK, OnlyHere, ScanStarts, Ends
<1>10. CASE ~(MinWidth > len)
  <2>1. /\ call' \in [Scratches -> Calls \cup {NoCall}] /\ call'[x] = c
        /\ \A y \in Scratches \ {x} : call'[y] = call[y]
    BY Zenon, <1>2, <1>3, <1>10 DEF BInv, TypeOK
  <2>2. /\ lastCombMatchOffset' \in [Scratches -> 0 .. MaxOffset]
        /\ lastCombMatchOffset'[x] = 0
        /\ \A y \in Scratches \ {x} : lastCombMatchOffset'[y] = lastCombMatchOffset[y]
    BY <1>2, <1>10, CombinationAssumption DEF BInv, TypeOK
  <2>3. TypeOK'
    BY Zenon, <1>5, <1>6, <1>7, <1>8, <2>1, <2>2 DEF TypeOK
  <2>4. OnlyHere(x, x)
    BY <1>1, <1>2, <1>4, <1>5, <1>6, <1>7, <1>8, <2>1, <2>2 DEF OnlyHere
  <2> QED
    BY Zenon, <1>2, <1>3, <1>4, <1>5, <1>6, <1>7, <1>8, <1>10, <2>1, <2>2, <2>3, <2>4
    DEF ScanStarts, Ends
<1> QED
  BY Zenon, <1>9, <1>10

\* BodyBegin, EodBegin and EodEnd move on this way.
LEMMA PhaseMoves ==
    ASSUME BInv, NEW x \in Scratches, BodyBegin(x) \/ EodBegin(x) \/ EodEnd(x)
    PROVE  OnlyHere(call[x].id, x) /\ TypeOK' /\ \E phase : Moves(x, phase)
<1>0. call[x] # NoCall
  BY Zenon DEF BodyBegin, EodBegin, EodEnd
<1>1. /\ call[x] \in Calls /\ call[x].id \in Ids /\ ScrOf(call[x].id) = x
      /\ call[x].id \in Scratches => call[x].id \in BlockScratches
      /\ lastCombMatchOffset[x] \in Ends
  BY Zenon, <1>0, InCallFacts
<1>2. ASSUME NEW c \in Calls, NEW last \in Ends, c.id = call[x].id,
             call' = [call EXCEPT ![x] = c],
             lastCombMatchOffset' = [lastCombMatchOffset EXCEPT ![x] = last],
             UNCHANGED <<life, offset, status, lvec, cvec, evec, matched, reported>>
      PROVE  /\ OnlyHere(call[x].id, x) /\ TypeOK'
             /\ call'[x] = c /\ lastCombMatchOffset'[x] = last
  <2>1. PICK i \in Ids : i = call[x].id
    BY Zenon, <1>1
  <2>2. For(i, x) /\ c.id = i
    BY Zenon, <1>1, <1>2, <2>1 DEF For
  <2>3. /\ OnlyHere(i, x) /\ TypeOK' /\ call'[x] = c /\ lastCombMatchOffset'[x] = last
    BY ZenonT(30), <1>2, <2>2, CallChanges
  <2> QED BY Zenon, <2>1, <2>3
<1>3. CASE BodyBegin(x)
  <2> DEFINE c == [call[x] EXCEPT !.phase = "body"]
             last == IF ByRose(x) THEN call[x].at ELSE lastCombMatchOffset[x]
  <2>1. c \in Calls /\ c.id = call[x].id /\ last \in Ends /\ c.kind = call[x].kind
        /\ c.at = call[x].at /\ c.end = call[x].end /\ c.phase = "body"
    BY Zenon, <1>1 DEF Calls, Ends
  <2>2. /\ call' = [call EXCEPT ![x] = c]
        /\ lastCombMatchOffset' = [lastCombMatchOffset EXCEPT ![x] = last]
        /\ UNCHANGED <<life, offset, status, lvec, cvec, evec, matched, reported>>
        /\ call[x].phase = "zero" /\ call[x].todo = {}
    BY Zenon, <1>3 DEF BodyBegin, streamVars
  <2> HIDE DEF c, last
  <2>3. /\ OnlyHere(call[x].id, x) /\ TypeOK' /\ call'[x] = c
        /\ lastCombMatchOffset'[x] = last
    BY Zenon, <2>1, <2>2, <1>2
  <2>4. Moves(x, "body")
    BY Zenon, <1>0, <2>1, <2>2, <2>3 DEF Moves, last
  <2> QED BY Zenon, <2>3, <2>4
<1>4. CASE EodBegin(x)
  <2> DEFINE phase == IF call[x].kind = "close" /\ call[x].end > 0 /\ RequiresEodCheck
                         /\ ~Skipped(x) THEN "eod" ELSE "last"
             c == [call[x] EXCEPT !.phase = phase]
             last == IF phase = "eod" /\ Rose THEN call[x].end ELSE lastCombMatchOffset[x]
  <2>1. c \in Calls /\ c.id = call[x].id /\ last \in Ends /\ c.kind = call[x].kind
        /\ c.at = call[x].at /\ c.end = call[x].end /\ c.phase = phase
        /\ c.todo = call[x].todo
    BY Zenon, <1>1 DEF Calls, Ends
  <2>2. /\ call' = [call EXCEPT ![x] = c]
        /\ lastCombMatchOffset' = [lastCombMatchOffset EXCEPT ![x] = last]
        /\ UNCHANGED <<life, offset, status, lvec, cvec, evec, matched, reported>>
        /\ call[x].phase = "boundary" /\ call[x].todo = {}
    BY Zenon, <1>4 DEF EodBegin, streamVars, Rose
  <2> HIDE DEF c, last
  <2>3. /\ OnlyHere(call[x].id, x) /\ TypeOK' /\ call'[x] = c
        /\ lastCombMatchOffset'[x] = last
    BY Zenon, <2>1, <2>2, <1>2
  <2>4. Moves(x, phase)
    BY Zenon, <1>0, <2>1, <2>2, <2>3 DEF Moves, last
  <2> QED BY Zenon, <2>3, <2>4
<1>5. CASE EodEnd(x)
  <2> DEFINE phase == IF call[x].kind = "block" THEN "boundary" ELSE "last"
             todo == IF call[x].kind = "block" THEN EodKeys ELSE {}
             c == [call[x] EXCEPT !.phase = phase, !.todo = todo]
             last == lastCombMatchOffset[x]
  <2>1. c \in Calls /\ c.id = call[x].id /\ last \in Ends /\ c.kind = call[x].kind
        /\ c.at = call[x].at /\ c.end = call[x].end /\ c.phase = phase /\ c.todo = todo
    BY Zenon, <1>1, CombinationAssumption DEF Calls, Ends
  <2>2. /\ call' = [call EXCEPT ![x] = c] /\ call[x].phase = "eod"
        /\ lastCombMatchOffset' = lastCombMatchOffset
        /\ UNCHANGED <<life, offset, status, lvec, cvec, evec, matched, reported>>
    BY Zenon, <1>5 DEF EodEnd, streamVars
  <2>3. lastCombMatchOffset' = [lastCombMatchOffset EXCEPT ![x] = last]
    BY Zenon, <2>2 DEF BInv, TypeOK
  <2> HIDE DEF c
  <2>4. OnlyHere(call[x].id, x) /\ TypeOK' /\ call'[x] = c
    BY Zenon, <2>1, <2>2, <2>3, <1>2
  <2>5. Moves(x, phase)
    BY Zenon, <1>0, <2>1, <2>2, <2>4 DEF Moves
  <2> QED BY Zenon, <2>4, <2>5
<1> QED
  BY Zenon, <1>3, <1>4, <1>5

\* The return from a call.
LEMMA ReturnMoves ==
    ASSUME BInv, NEW x \in Scratches, call[x] # NoCall, NEW halt \in BOOLEAN, Return(x, halt)
    PROVE  LET i == call[x].id IN
           /\ call' \in [Scratches -> Calls \cup {NoCall}]
           /\ status' \in [Ids -> SUBSET {"TERMINATED", "EXHAUSTED"}]
           /\ life' \in [Ids -> {"new", "open", "closed"}]
           /\ \A y \in Scratches \ {x} : call'[y] = call[y]
           /\ \A j \in Ids \ {i} : life'[j] = life[j] /\ status'[j] = status[j]
           /\ status'[i] = IF halt THEN status[i] \cup {"TERMINATED"} ELSE status[i]
           /\ call'[x] = NoCall
           /\ life'[i] = IF call[x].kind = "scan" THEN life[i] ELSE "closed"
<1>1. call[x] \in Calls /\ call[x].id \in Ids /\ TypeOK
  BY Zenon, InCallFacts DEF BInv
<1> QED
  BY Zenon, <1>1 DEF Return, TypeOK

\* BodyEnd, given what the flush delivers.
EndWith(x, d) ==
    LET i == call[x].id
        end == call[x].end
        last == lastCombMatchOffset[x]
        flush == ByRose(x) /\ end > last
    IN  /\ reported' = [reported EXCEPT ![i] = @ \cup At(d, last)]
        /\ evec' = [evec EXCEPT ![i] = @ \cup Marked(d)]
        /\ cvec' = [cvec EXCEPT ![i] = IF flush /\ ~d.halt THEN {} ELSE @]
        /\ IF d.halt THEN Return(x, TRUE) /\ UNCHANGED offset
           ELSE IF call[x].kind = "block"
           THEN /\ call' = [call EXCEPT ![x].phase = "eod", ![x].at = end]
                /\ UNCHANGED <<status, offset, life>>
           ELSE /\ call' = [call EXCEPT ![x] = NoCall]
                /\ UNCHANGED life
                /\ \E dead \in IF RuntimeImpl = "SINGLE_OUTFIX" /\ OutfixDies THEN BOOLEAN
                                ELSE {ByRose(x) /\ can_never_match(end)} :
                      IF dead
                      THEN /\ status' = [status EXCEPT ![i] = {"EXHAUSTED"}]
                           /\ UNCHANGED offset
                      ELSE /\ offset' = [offset EXCEPT ![i] = end]
                           /\ UNCHANGED status

\* BodyEnd ends this way.
LEMMA BodyEnds ==
    ASSUME BInv, NEW x \in Scratches, BodyEnd(x)
    PROVE  OnlyHere(call[x].id, x) /\ TypeOK' /\ \E d : Ended(x, d)
<1> DEFINE i == call[x].id
           end == call[x].end
           last == lastCombMatchOffset[x]
           flush == ByRose(x) /\ end > last
           D == IF flush THEN Deliveries(Ready(lvec[i], cvec[i], evec[i], last))
                ELSE {Nothing}
<1>1. call[x] # NoCall /\ call[x].phase = "body"
  BY Zenon DEF BodyEnd
<1>2. /\ call[x] \in Calls /\ i \in Ids /\ ScrOf(i) = x /\ last \in Ends
      /\ i \in Scratches => i \in BlockScratches
      /\ end \in Ends
  BY Zenon, <1>1, InCallFacts DEF Calls, Ends
<1>3. PICK d \in D : EndWith(x, d)
  BY Zenon, FlushIsReady DEF BodyEnd, EndWith
<1>4. UNCHANGED <<lvec, lastCombMatchOffset, matched>>
  BY Zenon DEF BodyEnd
<1>5. /\ Marked(d) \subseteq CKeys /\ At(d, last) \subseteq CKeys \X Ends
      /\ d.halt \in BOOLEAN
  <2>1. Ready(lvec[i], cvec[i], evec[i], last) \in SUBSET CKeys
    BY Zenon, <1>2 DEF BInv, TypeOK, Ready
  <2> QED
    BY Zenon, <2>1, <1>2, <1>3, DeliveryTypes, NothingDelivered
<1>6. /\ reported' \in [Ids -> SUBSET (CKeys \X (0 .. MaxOffset))]
      /\ reported'[i] = reported[i] \cup At(d, last)
      /\ \A j \in Ids \ {i} : reported'[j] = reported[j]
  BY Zenon, <1>2, <1>3, <1>5 DEF BInv, TypeOK, EndWith, Ends
<1>7. /\ evec' \in [Ids -> SUBSET CKeys] /\ evec'[i] = evec[i] \cup Marked(d)
      /\ \A j \in Ids \ {i} : evec'[j] = evec[j]
  BY Zenon, <1>2, <1>3, <1>5 DEF BInv, TypeOK, EndWith
<1>8. /\ cvec' \in [Ids -> SUBSET CKeys]
      /\ cvec'[i] = IF flush /\ ~d.halt THEN {} ELSE cvec[i]
      /\ \A j \in Ids \ {i} : cvec'[j] = cvec[j]
  BY Zenon, <1>2, <1>3 DEF BInv, TypeOK, EndWith
<1>9. ASSUME call' \in [Scratches -> Calls \cup {NoCall}],
             status' \in [Ids -> SUBSET {"TERMINATED", "EXHAUSTED"}],
             life' \in [Ids -> {"new", "open", "closed"}],
             offset' \in [Ids -> 0 .. MaxOffset],
             \A y \in Scratches \ {x} : call'[y] = call[y],
             call'[x] # NoCall => call'[x].id = i,
             \A j \in Ids \ {i} : /\ life'[j] = life[j] /\ status'[j] = status[j]
                                  /\ offset'[j] = offset[j]
      PROVE  OnlyHere(i, x) /\ TypeOK'
  <2>1. TypeOK'
    BY Zenon, <1>4, <1>6, <1>7, <1>8, <1>9 DEF BInv, TypeOK
  <2>2. OnlyHere(i, x)
    BY Zenon, <1>2, <1>4, <1>6, <1>7, <1>8, <1>9 DEF OnlyHere
  <2> QED BY Zenon, <2>1, <2>2
<1>10. CASE d.halt
  <2>1. Return(x, TRUE) /\ offset' = offset
    BY Zenon, <1>3, <1>10 DEF EndWith
  <2>2. OnlyHere(i, x) /\ TypeOK'
    BY Zenon, <1>1, <1>9, <2>1, ReturnMoves DEF BInv, TypeOK
  <2>3. Ended(x, d)
    BY Zenon, <1>1, <1>3, <1>4, <1>5, <1>6, <1>7, <1>8, <1>10, <2>1, ReturnMoves DEF Ended
  <2> QED BY Zenon, <2>2, <2>3
<1>11. CASE ~d.halt /\ call[x].kind = "block"
  <2> DEFINE c == [call[x] EXCEPT !.phase = "eod", !.at = end]
  <2>1. /\ c \in Calls /\ c.id = i /\ c.kind = "block" /\ c.phase = "eod"
        /\ c.at = end /\ c.end = end
    BY Zenon, <1>2, <1>11 DEF Calls, Ends
  <2>2. call' = [call EXCEPT ![x] = c] /\ UNCHANGED <<status, offset, life>>
    BY Zenon, <1>3, <1>11 DEF EndWith
  <2> HIDE DEF c
  <2>3. /\ call' \in [Scratches -> Calls \cup {NoCall}] /\ call'[x] = c
        /\ \A y \in Scratches \ {x} : call'[y] = call[y]
    BY Zenon, <2>1, <2>2 DEF BInv, TypeOK
  <2>4. OnlyHere(i, x) /\ TypeOK'
    BY Zenon, <1>9, <2>1, <2>2, <2>3 DEF BInv, TypeOK
  <2>5. Ended(x, d)
    BY ZenonT(30), <1>1, <1>3, <1>4, <1>5, <1>6, <1>7, <1>8, <1>11, <2>1, <2>2, <2>3 DEF Ended
  <2> QED BY Zenon, <2>4, <2>5
<1>12. CASE ~d.halt /\ call[x].kind # "block"
  <2>1. /\ call' = [call EXCEPT ![x] = NoCall] /\ life' = life
        /\ \/ /\ (ByRose(x) /\ can_never_match(end)) \/ ~OutfixLives
              /\ offset' = offset /\ status' = [status EXCEPT ![i] = {"EXHAUSTED"}]
           \/ offset' = [offset EXCEPT ![i] = end] /\ status' = status
    BY Zenon, <1>3, <1>12 DEF EndWith, OutfixLives
  <2>2. /\ call' \in [Scratches -> Calls \cup {NoCall}] /\ call'[x] = NoCall
        /\ \A y \in Scratches \ {x} : call'[y] = call[y]
    BY Zenon, <2>1 DEF BInv, TypeOK
  <2>3. CASE /\ (ByRose(x) /\ can_never_match(end)) \/ ~OutfixLives
             /\ offset' = offset /\ status' = [status EXCEPT ![i] = {"EXHAUSTED"}]
    <3>1. /\ status' \in [Ids -> SUBSET {"TERMINATED", "EXHAUSTED"}]
          /\ status'[i] = {"EXHAUSTED"} /\ \A j \in Ids \ {i} : status'[j] = status[j]
      BY Zenon, <1>2, <2>3 DEF BInv, TypeOK
    <3>2. OnlyHere(i, x) /\ TypeOK'
      BY Zenon, <1>9, <2>1, <2>2, <2>3, <3>1 DEF BInv, TypeOK
    <3>3. (ByRose(x) /\ AnchoredDistance < end) \/ ~OutfixLives
      BY <1>2, <2>3, CombinationAssumption DEF can_never_match, Ends
    <3>4. Ended(x, d)
      BY ZenonT(30), <1>1, <1>3, <1>4, <1>5, <1>6, <1>7, <1>8, <1>12, <2>1, <2>2, <2>3, <3>1, <3>3
      DEF Ended
    <3> QED BY Zenon, <3>2, <3>4
  <2>4. CASE offset' = [offset EXCEPT ![i] = end] /\ status' = status
    <3>1. /\ offset' \in [Ids -> 0 .. MaxOffset] /\ offset'[i] = end
          /\ \A j \in Ids \ {i} : offset'[j] = offset[j]
      BY Zenon, <1>2, <2>4 DEF BInv, TypeOK, Ends
    <3>2. OnlyHere(i, x) /\ TypeOK'
      BY Zenon, <1>9, <2>1, <2>2, <2>4, <3>1 DEF BInv, TypeOK
    <3>4. Ended(x, d)
      BY ZenonT(30), <1>1, <1>3, <1>4, <1>5, <1>6, <1>7, <1>8, <1>12, <2>1, <2>2, <2>4, <3>1 DEF Ended
    <3> QED BY Zenon, <3>2, <3>4
  <2> QED BY Zenon, <2>1, <2>3, <2>4
<1> QED
  BY Zenon, <1>5, <1>10, <1>11, <1>12

\* LastFlush has this effect.
LEMMA LastFlushes ==
    ASSUME BInv, NEW x \in Scratches, LastFlush(x)
    PROVE  OnlyHere(call[x].id, x) /\ TypeOK' /\ \E d, n : Flushed(x, d, n)
<1> DEFINE i == call[x].id
           end == call[x].end
           last == lastCombMatchOffset[x]
           R == Ready(lvec[i], cvec[i], evec[i], last)
           N == NotMatched(lvec[i], evec[i], end)
<1>1. call[x] # NoCall /\ call[x].phase = "last"
  BY Zenon DEF LastFlush
<1>2. /\ call[x] \in Calls /\ i \in Ids /\ ScrOf(i) = x /\ last \in Ends
      /\ i \in Scratches => i \in BlockScratches
      /\ end \in Ends
  BY Zenon, <1>1, InCallFacts DEF Calls, Ends
<1>3. checkPurelyNegatives(i, end) = Deliveries(N)
  BY Zenon DEF checkPurelyNegatives, NotMatched, Reportable
<1>4. PICK d \in Deliveries(R) : \E n \in IF d.halt THEN {Nothing} ELSE Deliveries(N) :
         /\ reported' = [reported EXCEPT ![i] = reported[i] \cup At(d, last) \cup At(n, end)]
         /\ evec' = [evec EXCEPT ![i] = evec[i] \cup Marked(d) \cup Marked(n)]
         /\ cvec' = [cvec EXCEPT ![i] = IF d.halt THEN cvec[i] ELSE {}]
         /\ Return(x, d.halt \/ n.halt)
  BY ZenonT(30), <1>3, FlushIsReady DEF LastFlush
<1>5. PICK n \in IF d.halt THEN {Nothing} ELSE Deliveries(N) :
         /\ reported' = [reported EXCEPT ![i] = reported[i] \cup At(d, last) \cup At(n, end)]
         /\ evec' = [evec EXCEPT ![i] = evec[i] \cup Marked(d) \cup Marked(n)]
         /\ cvec' = [cvec EXCEPT ![i] = IF d.halt THEN cvec[i] ELSE {}]
         /\ Return(x, d.halt \/ n.halt)
  BY Zenon, <1>4
<1>6. UNCHANGED <<offset, lvec, lastCombMatchOffset, matched>>
  BY Zenon DEF LastFlush
<1>7. /\ Marked(d) \subseteq CKeys /\ At(d, last) \subseteq CKeys \X Ends
      /\ Marked(n) \subseteq CKeys /\ At(n, end) \subseteq CKeys \X Ends
      /\ d.halt \in BOOLEAN /\ n.halt \in BOOLEAN
  <2>1. R \in SUBSET CKeys /\ N \in SUBSET CKeys
    BY Zenon, <1>2 DEF BInv, TypeOK, Ready, NotMatched
  <2>2. n \in Deliveries(N) \cup Deliveries({})
    BY Zenon, <1>5, NothingDelivered
  <2> QED
    BY Zenon, <2>1, <2>2, <1>2, <1>4, DeliveryTypes, NothingDelivered
<1>8. /\ reported' \in [Ids -> SUBSET (CKeys \X (0 .. MaxOffset))]
      /\ reported'[i] = reported[i] \cup At(d, last) \cup At(n, end)
      /\ \A j \in Ids \ {i} : reported'[j] = reported[j]
  BY Zenon, <1>2, <1>5, <1>7 DEF BInv, TypeOK, Ends
<1>9. /\ evec' \in [Ids -> SUBSET CKeys]
      /\ evec'[i] = evec[i] \cup Marked(d) \cup Marked(n)
      /\ \A j \in Ids \ {i} : evec'[j] = evec[j]
  BY Zenon, <1>2, <1>5, <1>7 DEF BInv, TypeOK
<1>10. cvec' \in [Ids -> SUBSET CKeys] /\ \A j \in Ids \ {i} : cvec'[j] = cvec[j]
  BY Zenon, <1>2, <1>5 DEF BInv, TypeOK
<1>11. (d.halt \/ n.halt) \in BOOLEAN /\ Return(x, d.halt \/ n.halt)
  BY Zenon, <1>5, <1>7
<1>12. TypeOK'
  BY Zenon, <1>1, <1>6, <1>8, <1>9, <1>10, <1>11, ReturnMoves DEF BInv, TypeOK
<1>13. OnlyHere(i, x)
  BY ZenonT(30), <1>1, <1>2, <1>6, <1>8, <1>9, <1>10, <1>11, ReturnMoves DEF OnlyHere
<1>14. Flushed(x, d, n)
  BY Zenon, <1>1, <1>4, <1>5, <1>6, <1>7, <1>8, <1>9, <1>11, ReturnMoves DEF Flushed
<1> QED
  BY Zenon, <1>12, <1>13, <1>14

\* The adjustments of reports, and where they leave a match that ends at e.
LEMMA Adjusts ==
    /\ 0 \in Adjustments /\ Adjustments \subseteq {-1, 0}
    /\ \A l \in LKeys : OffsetAdjust[l] \subseteq Adjustments
    /\ \A l \in LKeys, e \in 1 .. MaxOffset : \A a \in OffsetAdjust[l] :
          a \in Adjustments /\ e + a \in Ends
<1>1. \A l \in LKeys : OffsetAdjust[l] \subseteq {-1, 0}
  BY CombinationAssumption
<1>2. 0 \in Adjustments /\ \A l \in LKeys : OffsetAdjust[l] \subseteq Adjustments
  BY Zenon DEF Adjustments
<1>3. Adjustments \subseteq {-1, 0}
  BY Zenon, <1>1 DEF Adjustments
<1>4. \A e \in 1 .. MaxOffset, a \in {-1, 0} : e + a \in Ends
  BY CombinationAssumption DEF Ends
<1> QED
  BY Zenon, <1>1, <1>2, <1>3, <1>4

\* A combination is raised for a match that ends at e there or one before.
LEMMA RaisedNear ==
    ASSUME NEW e \in Ends
    PROVE  /\ e \in RaisedFor(e)
           /\ \A to \in RaisedFor(e) : to \in Ends /\ to =< e
           /\ Adjustments = {0} => RaisedFor(e) = {e}
           /\ \A a \in Adjustments : e + a \in Ends => e + a \in RaisedFor(e)
<1>1. 0 \in Adjustments /\ Adjustments \subseteq {-1, 0} /\ e \in Nat /\ e =< MaxOffset
      /\ MaxOffset \in Nat
  BY Adjusts, CombinationAssumption DEF Ends
<1>2. e + 0 = e
  BY <1>1
<1>3. e \in RaisedFor(e)
  BY Zenon, <1>1, <1>2 DEF RaisedFor
<1>4. ASSUME NEW to \in RaisedFor(e) PROVE to \in Ends /\ to =< e
  <2>1. PICK a \in Adjustments : to = e + a /\ to \in Nat
    BY Zenon DEF RaisedFor
  <2>2. a \in {-1, 0}
    BY Zenon, <1>1
  <2> QED BY <1>1, <2>1, <2>2 DEF Ends
<1>5. Adjustments = {0} => RaisedFor(e) = {e}
  BY Zenon, <1>1, <1>2 DEF RaisedFor
<1>6. \A a \in Adjustments : e + a \in Ends => e + a \in RaisedFor(e)
  <2>1. Ends \subseteq Nat
    BY <1>1 DEF Ends
  <2> QED BY Zenon, <2>1 DEF RaisedFor
<1> QED
  BY Zenon, <1>3, <1>4, <1>5, <1>6

\* Every action is one of these steps.
LEMMA NextSteps ==
    ASSUME BInv, Next
    PROVE  Steps
<1>1. ASSUME NEW s \in Streams, hs_open_stream(s) PROVE StreamSteps(s)
  <2>1. ScratchOf[s] \in Scratches /\ ScrOf(s) = ScratchOf[s] /\ life[s] = "new"
    BY Zenon, <1>1, StreamFacts DEF hs_open_stream
  <2>2. CallOK(ScratchOf[s])
    BY Zenon, <2>1 DEF BInv
  <2>3. ~InCall(s)
    BY Zenon, <2>1, <2>2 DEF CallOK, InCall
  <2> QED BY Zenon, <1>1, <2>3 DEF StreamSteps
<1>2. ASSUME NEW s \in Streams, hs_close_stream(s) PROVE StreamSteps(s)
  <2>1. CASE status[s] = {}
    BY Zenon, <1>2, <2>1, CallBegins DEF StreamSteps
  <2>2. CASE status[s] # {}
    BY Zenon, <1>2, <2>2, CloseBreaks DEF StreamSteps
  <2> QED BY Zenon, <2>1, <2>2
<1>3. ASSUME NEW s \in Streams, NEW len \in 1 .. MaxOffset, hs_scan_stream(s, len)
      PROVE  StreamSteps(s)
  <2>1. status[s] = {}
    BY Zenon, <1>3 DEF hs_scan_stream
  <2> QED BY Zenon, <1>3, <2>1, CallBegins DEF StreamSteps
<1>4. ASSUME NEW x \in Scratches, NEW len \in 0 .. MaxOffset, hs_scan(x, len)
      PROVE  ScratchSteps(x)
  BY Zenon, <1>4, ScanStartsHere DEF ScratchSteps
<1>5. ASSUME NEW x \in Scratches, call[x] # NoCall
      PROVE  /\ call[x].todo \subseteq LKeys /\ call[x].at \in Ends /\ call[x].end \in Ends
             /\ call[x].at =< call[x].end
             /\ call[x].phase = "eod" => call[x].at = call[x].end /\ call[x].end \in 1 .. MaxOffset
             /\ call[x].end =< call[x].end /\ call[x].at =< call[x].at
             /\ call[x].at + 0 \in Ends
  <2>1. call[x] \in Calls /\ CallOK(x)
    BY Zenon, <1>5, InCallFacts
  <2>2. /\ call[x].todo \subseteq LKeys /\ call[x].at \in Ends /\ call[x].end \in Ends
        /\ call[x].kind \in {"scan", "close", "block"}
    BY Zenon, <2>1 DEF Calls, Ends
  <2>3. /\ call[x].at =< call[x].end
        /\ call[x].phase = "eod" => call[x].at = call[x].end /\ call[x].end > 0
    BY Zenon, <1>5, <2>1, <2>2 DEF CallOK
  <2> QED BY <2>2, <2>3, CombinationAssumption DEF Ends
<1>6. ASSUME NEW x \in Scratches, NEW l \in LKeys, NEW e \in 1 .. MaxOffset, BodyMatch(x, l, e)
      PROVE  \E a : Reporting(x, l, e, a)
  <2>1. PICK a \in OffsetAdjust[l] : Report(x, l, e, a)
    BY Zenon, <1>6 DEF BodyMatch
  <2>2. a \in Adjustments /\ e + a \in Ends
    BY Zenon, Adjusts
  <2>3. /\ call[x] # NoCall /\ call[x].phase = "body" /\ call[x].at =< e /\ e =< call[x].end
        /\ e =< AnchoredDistance
    BY Zenon, <1>6 DEF BodyMatch
  <2>4. e \in Ends
    BY CombinationAssumption DEF Ends
  <2> QED BY Zenon, <2>1, <2>2, <2>3, <2>4 DEF Reporting
<1>7. ASSUME NEW x \in Scratches, NEW l \in LKeys, EodMatch(x, l)
      PROVE  \E a : Reporting(x, l, call[x].end, a)
  <2>1. PICK a \in OffsetAdjust[l] : Report(x, l, call[x].end, a)
    BY Zenon, <1>7 DEF EodMatch
  <2>2. call[x] # NoCall /\ call[x].phase = "eod"
    BY Zenon, <1>7 DEF EodMatch
  <2>3. a \in Adjustments /\ call[x].end + a \in Ends
    BY Zenon, <1>5, <2>1, <2>2, Adjusts
  <2> QED BY Zenon, <1>5, <2>1, <2>2, <2>3 DEF Reporting
<1>8. ASSUME NEW x \in Scratches, Boundary(x)
      PROVE  \E l : Reporting(x, l, call[x].at, 0)
  <2>1. PICK l \in call[x].todo : Report(x, l, call[x].at, 0)
    BY Zenon, <1>8 DEF Boundary
  <2>2. call[x] # NoCall /\ call[x].phase \in {"zero", "boundary"} /\ 0 \in Adjustments
    BY Zenon, <1>8 DEF Boundary, Adjustments
  <2> QED BY Zenon, <1>5, <2>1, <2>2 DEF Reporting
<1>9. ASSUME NEW x \in Scratches, BodyBegin(x) \/ EodBegin(x) \/ EodEnd(x)
      PROVE  ScratchSteps(x)
  BY Zenon, <1>9, PhaseMoves DEF ScratchSteps
<1>10. ASSUME NEW x \in Scratches, BodyEnd(x) PROVE ScratchSteps(x)
  BY Zenon, <1>10, BodyEnds DEF ScratchSteps
<1>11. ASSUME NEW x \in Scratches, LastFlush(x) PROVE ScratchSteps(x)
  BY Zenon, <1>11, LastFlushes DEF ScratchSteps
<1>12. ASSUME NEW x \in Scratches, NEW l, NEW e, NEW a, Reporting(x, l, e, a)
       PROVE  ScratchSteps(x)
  BY Zenon, <1>12, ReportOutcome DEF ScratchSteps
<1> QED
  BY ZenonT(30), <1>1, <1>2, <1>3, <1>4, <1>6, <1>7, <1>8, <1>9, <1>10, <1>11, <1>12
     DEF Next, Steps

-----------------------------------------------------------------------------
LOCAL INSTANCE WellFoundedInduction

\* A non-empty set of numbers has a least one.
LEMMA LeastNat ==
    ASSUME NEW T \in SUBSET Nat, T # {}
    PROVE  \E n \in T : \A k \in T : n =< k
<1>1. PICK n \in T : \A k \in T : ~(<<k, n>> \in OpToRel(<, Nat))
  BY Zenon, NatLessThanWellFounded, WFMin
<1>2. \A k \in T : ~(k < n)
  BY Zenon, <1>1 DEF OpToRel
<1> QED
  BY <1>2

\* isLogicalCombination reads the root of such a V.
LEMMA ValueIsChosen ==
    ASSUME NEW lv, NEW c
    PROVE  isLogicalCombination(lv, c)
             = (CHOOSE V : IsVal(V, lv, c))[CombInfo[c].result]
BY Zenon DEF isLogicalCombination, IsVal, NodeVal, Nodes

\* Operands come before their operation in the tree.
LEMMA Below ==
    ASSUME NEW c \in CKeys, NEW i \in Nodes(c), i \notin LKeys
    PROVE  /\ i \in Operations(c) /\ Nodes(c) \subseteq Nat
           /\ LogicalTree[i].ro \in Nodes(c) /\ LogicalTree[i].ro < i
           /\ LogicalTree[i].op # "NOT" =>
                 LogicalTree[i].lo \in Nodes(c) /\ LogicalTree[i].lo < i
<1>1. /\ i \in Operations(c)
      /\ CombInfo[c].start \in Nat /\ CombInfo[c].result \in Nat /\ LKeyCount \in Nat
      /\ LKeyCount =< CombInfo[c].start
  BY Zenon, CombinationAssumption DEF Nodes, Operations
<1>2. /\ LogicalTree[i].ro \in LKeys \cup (CombInfo[c].start .. i - 1)
      /\ LogicalTree[i].op # "NOT" =>
            LogicalTree[i].lo \in LKeys \cup (CombInfo[c].start .. i - 1)
  BY Zenon, <1>1, CombinationAssumption DEF Operations
<1>3. \A k \in LKeys \cup (CombInfo[c].start .. i - 1) : k \in Nodes(c) /\ k < i
  BY <1>1 DEF Nodes, Operations, LKeys
<1>4. Nodes(c) \subseteq Nat
  BY <1>1 DEF Nodes, Operations, LKeys
<1> QED
  BY Zenon, <1>1, <1>2, <1>3, <1>4

\* The values exist.
LEMMA ValuesExist ==
    ASSUME NEW lv, NEW c \in CKeys
    PROVE  \E V : IsVal(V, lv, c)
<1> DEFINE D == Nodes(c)
           P(n) == \E V \in [D -> BOOLEAN] : \A i \in D : i < n => V[i] = NodeVal(V, lv, i)
           T == {n \in Nat : ~P(n)}
<1>0. D \subseteq Nat /\ CombInfo[c].result \in Nat
      /\ \A i \in D : i =< CombInfo[c].result
  BY CombinationAssumption DEF Nodes, Operations, LKeys
<1>1. P(0)
  <2>1. [i \in D |-> TRUE] \in [D -> BOOLEAN]
    BY Zenon
  <2>2. \A i \in D : ~(i < 0)
    BY <1>0
  <2> QED
    BY <2>1, <2>2, Zenon
<1>2. ASSUME NEW n \in Nat, P(n) PROVE P(n + 1)
  <2>1. PICK V \in [D -> BOOLEAN] : \A i \in D : i < n => V[i] = NodeVal(V, lv, i)
    BY Zenon, <1>2
  <2> DEFINE W == [V EXCEPT ![n] = NodeVal(V, lv, n)]
  <2>2. \A i \in D : NodeVal(V, lv, i) \in BOOLEAN
    <3> TAKE i \in D
    <3>1. CASE i \in LKeys
      BY <3>1 DEF NodeVal
    <3>2. CASE i \notin LKeys
      BY <3>2, Zenon DEF NodeVal
    <3> QED BY Zenon, <3>1, <3>2
  <2>3. W \in [D -> BOOLEAN] /\ \A i \in D : W[i] = IF i = n THEN NodeVal(V, lv, n) ELSE V[i]
    BY Zenon, <2>1, <2>2
  <2> HIDE DEF W
  <2>4. ASSUME NEW i \in D, i < n + 1 PROVE W[i] = NodeVal(W, lv, i)
    <3>1. NodeVal(W, lv, i) = NodeVal(V, lv, i)
      <4>1. CASE i \in LKeys
        BY Zenon, <4>1 DEF NodeVal
      <4>2. CASE i \notin LKeys
        <5>1. /\ LogicalTree[i].ro \in D /\ LogicalTree[i].ro < i
              /\ LogicalTree[i].op # "NOT" => LogicalTree[i].lo \in D /\ LogicalTree[i].lo < i
          BY Zenon, <4>2, Below
        <5>2. \A k \in D : k < i => W[k] = V[k]
          BY <2>3, <2>4, <1>0
        <5> QED
          BY Zenon, <5>1, <5>2 DEF NodeVal
      <4> QED BY Zenon, <4>1, <4>2
    <3>2. W[i] = NodeVal(V, lv, i)
      BY <2>1, <2>3, <2>4, <1>0
    <3> QED BY Zenon, <3>1, <3>2
  <2> QED
    BY Zenon, <2>3, <2>4
<1> HIDE DEF P
<1>3. T = {}
  <2> SUFFICES ASSUME T # {} PROVE FALSE
    BY Zenon
  <2>1. PICK n \in T : \A k \in T : n =< k
    BY Zenon, LeastNat
  <2>2. n # 0 /\ n \in Nat
    BY Zenon, <2>1, <1>1
  <2>3. n - 1 \in Nat /\ P(n - 1)
    BY <2>1, <2>2
  <2>4. P(n - 1 + 1)
    BY Zenon, <2>3, <1>2
  <2> QED
    BY <2>1, <2>2, <2>4
<1>4. P(CombInfo[c].result + 1)
  BY <1>0, <1>3
<1>5. PICK V \in [D -> BOOLEAN] :
        \A i \in D : i < CombInfo[c].result + 1 => V[i] = NodeVal(V, lv, i)
  BY Zenon, <1>4 DEF P
<1>6. V = [i \in D |-> NodeVal(V, lv, i)]
  BY <1>0, <1>5
<1> QED
  BY Zenon, <1>6 DEF IsVal

\* A combination's value depends on its own sub-expressions only.
LEMMA ValueFromOperands ==
    ASSUME NEW c \in CKeys, NEW lv, NEW lw, lv \cap Operands(c) = lw \cap Operands(c)
    PROVE  isLogicalCombination(lv, c) = isLogicalCombination(lw, c)
<1> DEFINE V == CHOOSE V : IsVal(V, lv, c)
           W == CHOOSE W : IsVal(W, lw, c)
           N == Operands(c) \cup Operations(c)
           T == {i \in N : V[i] # W[i]}
<1>1. IsVal(V, lv, c) /\ IsVal(W, lw, c)
  BY Zenon, ValuesExist
<1> HIDE DEF V, W
<1>2. /\ \A i \in Nodes(c) : V[i] = NodeVal(V, lv, i)
      /\ \A i \in Nodes(c) : W[i] = NodeVal(W, lw, i)
  BY Zenon, <1>1 DEF IsVal
<1>3. N \subseteq Nodes(c) /\ Nodes(c) \subseteq Nat
  BY CombinationAssumption DEF Nodes, Operands, Operations, LKeys
<1>4. ASSUME NEW i \in N, \A k \in N : k < i => V[k] = W[k] PROVE V[i] = W[i]
  <2>1. CASE i \in LKeys
    <3>1. i \in Operands(c)
      BY <2>1, <1>4, CombinationAssumption DEF Operations, LKeys
    <3> QED
      BY <3>1, <2>1, <1>2, <1>3 DEF NodeVal
  <2>2. CASE i \notin LKeys
    <3>1. /\ i \in Operations(c)
          /\ LogicalTree[i].ro \in Nodes(c) /\ LogicalTree[i].ro < i
          /\ LogicalTree[i].op # "NOT" =>
                LogicalTree[i].lo \in Nodes(c) /\ LogicalTree[i].lo < i
      BY Zenon, <2>2, <1>3, Below
    <3>2. /\ LogicalTree[i].ro \in N
          /\ LogicalTree[i].op # "NOT" => LogicalTree[i].lo \in N
      BY <3>1 DEF Nodes, Operands
    <3>3. V[LogicalTree[i].ro] = W[LogicalTree[i].ro]
      BY Zenon, <3>1, <3>2, <1>4
    <3>4. LogicalTree[i].op # "NOT" => V[LogicalTree[i].lo] = W[LogicalTree[i].lo]
      BY Zenon, <3>1, <3>2, <1>4
    <3>5. NodeVal(V, lv, i) = NodeVal(W, lw, i)
      BY Zenon, <2>2, <3>3, <3>4 DEF NodeVal
    <3> QED
      BY Zenon, <3>5, <1>2, <1>3
  <2> QED BY Zenon, <2>1, <2>2
<1>5. T = {}
  <2> SUFFICES ASSUME T # {} PROVE FALSE
    BY Zenon
  <2>1. PICK i \in T : \A k \in T : i =< k
    BY Zenon, <1>3, LeastNat
  <2>2. \A k \in N : k < i => V[k] = W[k]
    BY <2>1, <1>3
  <2> QED
    BY Zenon, <2>1, <2>2, <1>4
<1>6. CombInfo[c].result \in N
  BY CombinationAssumption DEF Operations
<1> QED
  BY Zenon, <1>5, <1>6, ValueIsChosen DEF V, W

-----------------------------------------------------------------------------
\* A match at e changes nothing for the matches that end before e.
LEMMA EarlierSame ==
    ASSUME NEW m, NEW l \in LKeys, NEW e \in Ends, NEW f \in Nat, f < e,
           NEW n, n = m \cup {<<l, e>>}, NEW c
    PROVE  /\ f \in DueAt(n, c) <=> f \in DueAt(m, c)
           /\ \A to : RaisedAs(n, c, to, f) <=> RaisedAs(m, c, to, f)
<1>1. \A k, g : g \in 0 .. f => (<<k, g>> \in n <=> <<k, g>> \in m)
  BY DEF Ends
<1>2. \A g : g \in 0 .. f - 1 => g \in 0 .. f
  OBVIOUS
<1>3. SeenBy(n, f) = SeenBy(m, f) /\ SeenBy(n, f - 1) = SeenBy(m, f - 1)
  BY Zenon, <1>1, <1>2 DEF SeenBy
<1>4. \A k : <<k, f>> \in n <=> <<k, f>> \in m
  BY <1>1
<1>5. Hears(n, f) = Hears(m, f)
  BY Zenon, <1>3 DEF Hears
<1> QED
  BY Zenon, <1>3, <1>4, <1>5 DEF DueAt, RaisedAs

\* ... and with adjustments it only adds to what may be raised for e.
LEMMA SameEnd ==
    ASSUME NEW m, NEW l \in LKeys, NEW e \in Ends, NEW n, n = m \cup {<<l, e>>},
           Adjustments # {0}, NEW c, NEW to, RaisedAs(m, c, to, e)
    PROVE  RaisedAs(n, c, to, e)
<1>1. \A k, g : g \in 0 .. e - 1 => (<<k, g>> \in n <=> <<k, g>> \in m)
  BY DEF Ends
<1>2. SeenBy(n, e - 1) = SeenBy(m, e - 1) /\ SeenBy(m, e) \subseteq SeenBy(n, e)
  BY Zenon, <1>1 DEF SeenBy
<1>3. Hears(m, e) \subseteq Hears(n, e)
  BY Zenon, <1>2 DEF Hears
<1> QED
  BY Zenon, <1>3 DEF RaisedAs

\* Up to the last match the vector is what has been seen, and an evaluation
\* may have seen it.
LEMMA SeenByAll ==
    ASSUME NEW m, NEW a \in Ends, \A l \in LKeys, e \in Ends : <<l, e>> \in m => e =< a
    PROVE  SeenBy(m, a) = Seen(m) /\ SeenBy(m, a) \in Hears(m, a)
<1>1. SeenBy(m, a) = Seen(m)
  BY CombinationAssumption DEF SeenBy, Seen, Ends
<1>2. \A g : g \in 0 .. a - 1 => g \in 0 .. a
  BY DEF Ends
<1>3. SeenBy(m, a - 1) \subseteq SeenBy(m, a)
  BY Zenon, <1>2 DEF SeenBy
<1> QED
  BY Zenon, <1>1, <1>3 DEF Hears

\* A due end is not after the last match.
LEMMA DueBounds ==
    ASSUME NEW m \in SUBSET (LKeys \X Ends), NEW a \in Ends, NEW c \in CKeys,
           \A l \in LKeys, e \in Ends : <<l, e>> \in m => e =< a,
           NEW f \in DueAt(m, c)
    PROVE  f \in Ends /\ f =< a /\ (f = a => c \in Touched(m, a))
<1>1. PICK l \in Operands(c) : <<l, f>> \in m
  BY Zenon DEF DueAt
<1>2. l \in LKeys /\ f \in Ends
  BY Zenon, <1>1
<1> QED
  BY Zenon, <1>1, <1>2 DEF Touched

\* What the flush finds at an offset for matches that end at a may be raised,
\* and a waiting combination that is due is found, unless it is exhausted.
LEMMA ReadyDue ==
    ASSUME NEW m \in SUBSET (LKeys \X Ends), NEW lv, NEW cv, NEW ev, NEW a \in Ends,
           Kept(m, lv, cv, a), NEW last \in RaisedFor(a), NEW c \in CKeys, c \in cv
    PROVE  /\ c \in Ready(lv, cv, ev, last) =>
                 InBounds(c, last) /\ RaisedAs(m, c, last, a)
           /\ a \in DueAt(m, c) /\ ~(CombInfo[c].ekey /\ c \in ev) =>
                 c \in Ready(lv, cv, ev, last)
<1>1. SeenBy(m, a) = lv /\ lv \in Hears(m, a)
  BY Zenon, SeenByAll DEF Kept
<1>2. \E l \in Operands(c) : <<l, a>> \in m
  BY Zenon DEF Kept, Touched
<1> QED
  BY Zenon, <1>1, <1>2 DEF Ready, InBounds, RaisedAs, DueAt

\* A flush raises combinations where they may be raised.
LEMMA FlushRaises ==
    ASSUME NEW m \in SUBSET (LKeys \X Ends), NEW lv, NEW cv \in SUBSET CKeys, NEW ev,
           NEW rp, NEW a \in Ends, NEW last, cv # {} => last \in RaisedFor(a),
           Kept(m, lv, cv, a), RaisedBy(m, rp, a),
           NEW d \in Deliveries(Ready(lv, cv, ev, last))
    PROVE  RaisedBy(m, rp \cup At(d, last), a)
<1>1. d.to_user \subseteq Ready(lv, cv, ev, last) /\ Ready(lv, cv, ev, last) \subseteq cv
  BY Zenon, Delivered DEF Ready
<1>2. \A c \in d.to_user :
        InBounds(c, last) /\ last =< a /\ RaisedAs(m, c, last, a)
  <2> SUFFICES ASSUME NEW c \in d.to_user
               PROVE  InBounds(c, last) /\ last =< a /\ RaisedAs(m, c, last, a)
    BY Zenon
  <2>1. c \in Ready(lv, cv, ev, last) /\ c \in cv /\ last \in RaisedFor(a)
    BY Zenon, <1>1
  <2>2. last =< a
    BY Zenon, <2>1, RaisedNear
  <2> QED BY Zenon, <2>1, <2>2, ReadyDue
<1>3. \A c, e : <<c, e>> \in At(d, last) => c \in d.to_user /\ e = last
  BY Zenon DEF At
<1>4. a =< a
  BY DEF Ends
<1> SUFFICES ASSUME NEW c \in CKeys, NEW to \in Ends, <<c, to>> \in rp \cup At(d, last)
             PROVE  InBounds(c, to) /\ to =< a
                    /\ \E e \in Ends : e =< a /\ RaisedAs(m, c, to, e)
  BY Zenon DEF RaisedBy
<1>5. CASE <<c, to>> \in rp
  BY Zenon, <1>5 DEF RaisedBy
<1>6. CASE <<c, to>> \in At(d, last)
  <2>1. c \in d.to_user /\ to = last
    BY <1>3, <1>6
  <2>2. InBounds(c, last) /\ last =< a /\ RaisedAs(m, c, last, a)
    BY Zenon, <1>2, <2>1
  <2> QED BY Zenon, <1>4, <2>1, <2>2
<1> QED
  BY Zenon, <1>5, <1>6

\* A flush that no callback stops settles everything that was waiting.
LEMMA FlushSettles ==
    ASSUME NEW m \in SUBSET (LKeys \X Ends), NEW lv, NEW cv \in SUBSET CKeys, NEW ev,
           NEW rp, NEW a \in Ends, NEW b, NEW last, cv # {} => last \in RaisedFor(a),
           Kept(m, lv, cv, a),
           Settled(m, cv, ev, rp, a), Once(m, ev, rp),
           NEW d \in Deliveries(Ready(lv, cv, ev, last)), ~d.halt
    PROVE  /\ Settled(m, {}, ev \cup Marked(d), rp \cup At(d, last), b)
           /\ Once(m, ev \cup Marked(d), rp \cup At(d, last))
<1> DEFINE R == Ready(lv, cv, ev, last)
           e1 == ev \cup Marked(d)
           r1 == rp \cup At(d, last)
<1>1. d.to_user = R /\ Marked(d) = {c \in R : CombInfo[c].ekey}
  BY Zenon, Delivered
<1>2. \A c \in CKeys : \A e : <<c, e>> \in r1 <=> <<c, e>> \in rp \/ (c \in R /\ e = last)
  BY Zenon, <1>1 DEF At
<1>3. R \subseteq cv /\ \A c \in R : ~(CombInfo[c].ekey /\ c \in ev)
  BY Zenon DEF Ready
<1>4. \A c \in CKeys : c \in e1 <=> c \in ev \/ (c \in R /\ CombInfo[c].ekey)
  BY Zenon, <1>1
<1>5. \A c \in cv : a \in DueAt(m, c) /\ ~(CombInfo[c].ekey /\ c \in ev) => c \in R
  BY Zenon, ReadyDue
<1>6. cv # {} => last \in RaisedFor(a) /\ last \in Ends /\ last =< a
  BY Zenon, RaisedNear
<1> HIDE DEF R, e1, r1
<1>7. Settled(m, {}, e1, r1, b)
  <2> SUFFICES ASSUME NEW c \in CKeys, NEW e \in DueAt(m, c)
               PROVE  RaisedOf(r1, c, e) \/ (CombInfo[c].ekey /\ c \in e1)
    BY Zenon DEF Settled
  <2>1. CASE e = a /\ c \in cv
    BY Zenon, <2>1, <1>2, <1>4, <1>5, <1>6 DEF RaisedOf
  <2>2. CASE RaisedOf(rp, c, e)
    BY Zenon, <2>2, <1>2 DEF RaisedOf
  <2>3. CASE CombInfo[c].ekey /\ c \in ev
    BY Zenon, <2>3, <1>4
  <2> QED
    BY Zenon, <2>1, <2>2, <2>3 DEF Settled
<1>8. Once(m, e1, r1)
  <2> SUFFICES ASSUME NEW c \in CKeys, CombInfo[c].ekey
               PROVE  /\ c \in e1 => \E e \in Ends : <<c, e>> \in r1
                      /\ \A e \in Ends : <<c, e>> \in r1 =>
                            /\ c \in e1
                            /\ \A f \in Ends : <<c, f>> \in r1 => f = e
                            /\ \A f \in DueAt(m, c) : e =< f
    BY Zenon DEF Once
  <2>1. CASE c \notin R
    BY Zenon, <2>1, <1>2, <1>4 DEF Once
  <2>2. CASE c \in R
    <3>1. c \notin ev /\ last \in Ends /\ last =< a /\ \A e \in Ends : <<c, e>> \notin rp
      BY Zenon, <2>2, <1>3, <1>6 DEF Once
    <3>2. \A f \in DueAt(m, c) : ~RaisedOf(rp, c, f)
      <4> SUFFICES ASSUME NEW f \in DueAt(m, c), NEW to \in RaisedFor(f), <<c, to>> \in rp
                   PROVE  FALSE
        BY Zenon DEF RaisedOf
      <4>1. to \in Ends
        BY Zenon, RaisedNear DEF DueAt
      <4> QED BY Zenon, <3>1, <4>1
    <3>3. \A f \in DueAt(m, c) : f = a
      BY Zenon, <3>1, <3>2 DEF Settled
    <3>4. \A f \in DueAt(m, c) : last =< f
      BY Zenon, <3>1, <3>3
    <3>5. c \in e1 /\ <<c, last>> \in r1
      BY Zenon, <2>2, <1>2, <1>4
    <3>6. \A e \in Ends : <<c, e>> \in r1 => e = last
      <4> SUFFICES ASSUME NEW e \in Ends, <<c, e>> \in r1 PROVE e = last
        BY Zenon
      <4>1. <<c, e>> \in rp \/ (c \in R /\ e = last)
        BY <1>2
      <4> QED BY Zenon, <3>1, <4>1
    <3> QED
      BY Zenon, <3>1, <3>4, <3>5, <3>6
  <2> QED
    BY Zenon, <2>1, <2>2
<1> QED
  BY Zenon, <1>7, <1>8 DEF e1, r1

\* Nothing has been touched at an end that the matches have not reached.
LEMMA NoneTouched ==
    ASSUME NEW m \in SUBSET (LKeys \X Ends), NEW a \in Ends, NEW e \in Ends, a < e,
           \A k \in LKeys, f \in Ends : <<k, f>> \in m => f =< a
    PROVE  Touched(m, e) = {} /\ \A k : <<k, e>> \notin m
<1>1. \A k : <<k, e>> \notin m
  <2> SUFFICES ASSUME NEW k, <<k, e>> \in m PROVE FALSE
    BY Zenon
  <2>1. k \in LKeys /\ e =< a
    BY Zenon
  <2> QED
    BY <2>1 DEF Ends
<1> QED
  BY Zenon, <1>1 DEF Touched

\* A new match at e, once what waited at an earlier end has been flushed.
LEMMA MatchKept ==
    ASSUME NEW m \in SUBSET (LKeys \X Ends), NEW lv, NEW cv \in SUBSET CKeys,
           NEW rp, NEW a \in Ends, NEW l \in LKeys, NEW e \in Ends, a =< e,
           Kept(m, lv, cv, a), RaisedBy(m, rp, a),
           e > a => cv = {}, Adjustments = {0} /\ e = a => Waits(m, cv, rp, a),
           NEW n, n = m \cup {<<l, e>>},
           NEW w, w = cv \cup {c \in CKeys : l \in Operands(c)}
    PROVE  /\ Kept(n, lv \cup {l}, w, e) /\ RaisedBy(n, rp, e)
           /\ Adjustments = {0} => Waits(n, w, rp, e)
<1>0. e \in Nat /\ a \in Nat /\ Ends \subseteq Nat
  BY CombinationAssumption DEF Ends
<1>1. Seen(n) = Seen(m) \cup {l}
  BY Zenon DEF Seen
<1>2. \A k \in LKeys, f \in Ends : <<k, f>> \in n => f =< e
  BY <1>0 DEF Kept
<1>3. \A k : <<k, e>> \in n <=> <<k, e>> \in m \/ k = l
  BY Zenon
<1>4. e > a \/ e = a
  BY <1>0
<1>5. w \subseteq Touched(n, e)
  <2>1. cv \subseteq Touched(m, e)
    BY Zenon, <1>4 DEF Kept
  <2> QED BY Zenon, <1>3, <2>1 DEF Touched
<1>6. Kept(n, lv \cup {l}, w, e)
  BY Zenon, <1>1, <1>2, <1>5 DEF Kept
<1>7. Adjustments = {0} => Waits(n, w, rp, e)
  <2> SUFFICES ASSUME Adjustments = {0} PROVE Waits(n, w, rp, e)
    BY Zenon
  <2>1. CASE e > a
    <3>1. Touched(m, e) = {} /\ \A c \in CKeys : <<c, e>> \notin rp
      BY <2>1, <1>0, NoneTouched DEF Kept, RaisedBy
    <3> QED BY Zenon, <1>3, <3>1 DEF Waits, Touched
  <2>2. CASE e = a
    BY Zenon, <2>2, <1>3 DEF Waits, Touched
  <2> QED BY Zenon, <1>4, <2>1, <2>2
<1>8. RaisedBy(n, rp, e)
  <2> SUFFICES ASSUME NEW c \in CKeys, NEW to \in Ends, <<c, to>> \in rp
               PROVE  InBounds(c, to) /\ to =< e
                      /\ \E g \in Ends : g =< e /\ RaisedAs(n, c, to, g)
    BY Zenon DEF RaisedBy
  <2>1. InBounds(c, to) /\ to =< a /\ \E g \in Ends : g =< a /\ RaisedAs(m, c, to, g)
    BY Zenon DEF RaisedBy
  <2>2. PICK g \in Ends : g =< a /\ RaisedAs(m, c, to, g)
    BY Zenon, <2>1
  <2>3. to =< e /\ g =< e /\ g \in Nat /\ (g < e \/ (g = e /\ e = a))
    <3>1. to \in Nat /\ g \in Nat /\ to =< a /\ g =< a
      BY Zenon, <2>1, <2>2, <1>0
    <3> QED BY <3>1, <1>0
  <2>4. CASE g < e
    <3>1. RaisedAs(n, c, to, g)
      BY SMTT(30), <2>2, <2>3, <2>4, EarlierSame
    <3> QED BY Zenon, <2>1, <2>3, <3>1
  <2>5. CASE g = e /\ e = a
    <3>1. Adjustments # {0}
      <4> SUFFICES ASSUME Adjustments = {0} PROVE FALSE
        BY Zenon
      <4>1. to = e
        <5>1. to \in RaisedFor(e)
          BY Zenon, <2>2, <2>5 DEF RaisedAs
        <5>2. RaisedFor(e) = {e}
          BY Zenon, RaisedNear
        <5> QED BY Zenon, <5>1, <5>2
      <4> QED BY Zenon, <2>5, <4>1 DEF Waits
    <3>2. RaisedAs(n, c, to, e)
      BY Zenon, <2>2, <2>5, <3>1, SameEnd
    <3> QED BY Zenon, <2>1, <2>3, <2>5, <3>2
  <2> QED BY Zenon, <2>3, <2>4, <2>5
<1> QED
  BY Zenon, <1>6, <1>7, <1>8

\* ... and that match leaves nothing unsettled: a combination that has been
\* flushed at e and does not contain l keeps its value.
LEMMA MatchSettled ==
    ASSUME NEW m \in SUBSET (LKeys \X Ends), NEW lv, NEW cv \in SUBSET CKeys, NEW ev,
           NEW rp, NEW a \in Ends, NEW l \in LKeys, NEW e \in Ends, a =< e,
           Kept(m, lv, cv, a), RaisedBy(m, rp, a), e > a => cv = {},
           Settled(m, cv, ev, rp, a), Once(m, ev, rp),
           NEW n, n = m \cup {<<l, e>>},
           NEW w, w = cv \cup {c \in CKeys : l \in Operands(c)}
    PROVE  Settled(n, w, ev, rp, e) /\ Once(n, ev, rp)
<1>0. e \in Nat /\ a \in Nat /\ Ends \subseteq Nat /\ n \in SUBSET (LKeys \X Ends)
  BY CombinationAssumption DEF Ends
<1>1. \A k \in LKeys, f \in Ends : <<k, f>> \in n => f =< e
  BY <1>0 DEF Kept
<1>2. \A c \in CKeys : \A f \in DueAt(n, c) : f \in Ends /\ f =< e
  BY Zenon, <1>0, <1>1, DueBounds
<1>3. \A c \in CKeys : \A f \in DueAt(n, c) : f # e => f \in DueAt(m, c) /\ f < e
  <2> SUFFICES ASSUME NEW c \in CKeys, NEW f \in DueAt(n, c), f # e
               PROVE  f \in DueAt(m, c) /\ f < e
    BY Zenon
  <2>1. f \in Nat /\ f =< e
    BY Zenon, <1>0, <1>2
  <2>2. f < e
    BY <1>0, <2>1
  <2> QED
    BY Zenon, <2>1, <2>2, EarlierSame
<1>4. \A c \in CKeys : e \in DueAt(n, c) => c \in w \/ (e = a /\ e \in DueAt(m, c))
  <2> SUFFICES ASSUME NEW c \in CKeys, e \in DueAt(n, c), l \notin Operands(c)
               PROVE  e = a /\ e \in DueAt(m, c)
    BY Zenon
  <2>1. PICK k \in Operands(c) : <<k, e>> \in n
    BY Zenon DEF DueAt
  <2>2. <<k, e>> \in m
    BY Zenon, <2>1
  <2>3. e = a
    BY <1>0, <2>2, NoneTouched DEF Kept
  <2>4. SeenBy(n, e) \cap Operands(c) = SeenBy(m, e) \cap Operands(c)
    BY Zenon DEF SeenBy
  <2>5. isLogicalCombination(SeenBy(n, e), c) = isLogicalCombination(SeenBy(m, e), c)
    BY Zenon, <2>4, ValueFromOperands
  <2> QED
    BY Zenon, <2>2, <2>3, <2>5 DEF DueAt
<1>5. Settled(n, w, ev, rp, e)
  <2> SUFFICES ASSUME NEW c \in CKeys, NEW f \in DueAt(n, c), ~(f = e /\ c \in w)
               PROVE  RaisedOf(rp, c, f) \/ (CombInfo[c].ekey /\ c \in ev)
    BY Zenon DEF Settled
  <2>1. f \in DueAt(m, c)
    BY Zenon, <1>3, <1>4
  <2>2. ~(f = a /\ c \in cv)
    <3>1. CASE f = e
      BY Zenon, <3>1
    <3>2. CASE f # e
      BY <3>2, <1>0, <1>3
    <3> QED BY Zenon, <3>1, <3>2
  <2> QED
    BY Zenon, <2>1, <2>2 DEF Settled
<1>6. Once(n, ev, rp)
  <2> SUFFICES ASSUME NEW c \in CKeys, CombInfo[c].ekey,
                      NEW f \in Ends, <<c, f>> \in rp, NEW g \in DueAt(n, c)
               PROVE  f =< g
    BY Zenon DEF Once
  <2>1. CASE g = e
    <3>1. f =< a
      BY Zenon DEF RaisedBy
    <3> QED BY <2>1, <3>1, <1>0
  <2>2. CASE g # e
    BY Zenon, <2>2, <1>3 DEF Once
  <2> QED BY Zenon, <2>1, <2>2
<1> QED
  BY Zenon, <1>5, <1>6
=============================================================================
