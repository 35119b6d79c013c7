-------------------------- MODULE CombinationBase ---------------------------
(***************************************************************************)
(* The state of a call and of the data it scans, what a stop leaves to do, *)
(* and the combinations that hold because nothing matched.                 *)
(***************************************************************************)
EXTENDS CombinationSteps

\* Without a match nothing has been seen.
LEMMA SeenNone == Seen({}) = {}
BY Zenon DEF Seen

\* A match adds its sub-expression to what was seen.
LEMMA SeenMore ==
    ASSUME NEW m, NEW l \in LKeys, NEW e \in Ends
    PROVE  Seen(m \cup {<<l, e>>}) = Seen(m) \cup {l}
BY Zenon DEF Seen

\* It is enough to look at the data and the scratch of a step.
LEMMA BaseStep ==
    ASSUME BInv, NEW i, NEW x, OnlyHere(i, x), TypeOK', CallOK(x)', IdOK(i)'
    PROVE  BInv'
<1>1. \A j \in Ids \ {i} : IdOK(j)'
  <2> SUFFICES ASSUME NEW j \in Ids, j # i PROVE IdOK(j)'
    BY Zenon
  <2>1. IdOK(j)
    BY Zenon DEF BInv
  <2>2. (InCall(j)' <=> InCall(j)) /\ (Waiting(j)' <=> Waiting(j))
    BY Zenon, OthersCall
  <2> QED
    BY Zenon, <2>1, <2>2 DEF IdOK, OnlyHere
<1>2. \A y \in Scratches \ {x} : CallOK(y)'
  <2> SUFFICES ASSUME NEW y \in Scratches, y # x, call[y] # NoCall PROVE CallOK(y)'
    BY DEF OnlyHere, CallOK
  <2>1. CallOK(y) /\ call[y] \in Calls /\ call'[y] = call[y]
    BY Zenon DEF BInv, TypeOK, OnlyHere
  <2>2. ScrOf(call[y].id) = y /\ call[y].id \in Ids /\ call[y].id # i
    BY ZenonT(30), <2>1 DEF CallOK, OnlyHere, Calls
  <2>3. ScrOf(call[y].id)' = ScrOf(call[y].id)
    BY ZenonT(30), <2>1 DEF ScrOf
  <2> QED
    BY <2>1, <2>2, <2>3 DEF CallOK, OnlyHere
<1> QED
  BY Zenon, <1>1, <1>2 DEF BInv

\* Every step keeps the base invariant.
LEMMA StepsBase ==
    ASSUME BInv, Steps
    PROVE  BInv'
\* hs_open_stream.
<1>1. ASSUME NEW s \in Streams, hs_open_stream(s), ~InCall(s)
      PROVE  BInv'
  <2> USE <1>1
  <2>1. s \in Ids /\ ScratchOf[s] \in Scratches /\ ScrOf(s) = ScratchOf[s] /\ s \notin Scratches /\ IdOK(s)
    BY Zenon, StreamFacts
  <2>2. TypeOK' /\ life'[s] = "open" /\ life[s] = "new" /\ \A j \in Ids \ {s} : life'[j] = life[j]
    BY Zenon, <2>1 DEF hs_open_stream, BInv, TypeOK
  <2>3. /\ UNCHANGED <<offset, status, lvec, cvec, evec, lastCombMatchOffset, call,
                     matched, reported>>
    BY Zenon DEF hs_open_stream
  <2>5. \A y \in Scratches : CallOK(y)'
    <3> SUFFICES ASSUME NEW y \in Scratches, call[y] # NoCall PROVE CallOK(y)'
      BY ZenonT(30), <2>3 DEF CallOK
    <3>1. CallOK(y) /\ call[y].id \in Ids
      BY Zenon, InCallFacts
    <3>2. call[y].id # s
      BY Zenon, <3>1, <2>2 DEF CallOK
    <3> QED
      BY ZenonT(30), <3>1, <3>2, <2>2, <2>3 DEF CallOK, ScrOf
  <2>6. \A j \in Ids : IdOK(j)'
    <3> SUFFICES ASSUME NEW j \in Ids PROVE IdOK(j)'
      BY Zenon
    <3>1. IdOK(j)
      BY Zenon DEF BInv
    <3>2. CASE j = s
      BY Zenon, <3>1, <3>2, <2>1, <2>2, <2>3 DEF IdOK
    <3>3. CASE j # s
      BY Zenon, <3>1, <3>3, <2>2, <2>3 DEF IdOK, Waiting, InCall, ScrOf
    <3> QED BY Zenon, <3>2, <3>3
  <2> QED
    BY Zenon, <2>2, <2>5, <2>6 DEF BInv
\* hs_close_stream of a broken stream.
<1>2. ASSUME NEW s \in Streams, OnlyHere(s, ScratchOf[s]), TypeOK', Breaks(s)
      PROVE  BInv'
  <2> USE <1>2
  <2>1. PICK x \in Scratches : x = ScratchOf[s]
    BY Zenon, StreamFacts
  <2>2. s \in Ids /\ ScrOf(s) = x /\ s \notin Scratches /\ IdOK(s)
    BY Zenon, <2>1, StreamFacts
  <2>6. CallOK(x)' /\ IdOK(s)'
    BY Zenon, <2>1, <2>2 DEF CallOK, IdOK, Waiting, Breaks
  <2> QED
    BY Zenon, <2>1, <2>6, BaseStep
\* The beginning of hs_scan_stream and hs_close_stream.
<1>3. ASSUME NEW s \in Streams, OnlyHere(s, ScratchOf[s]), TypeOK',
             NEW c, Begins(s, c)
      PROVE  BInv'
  <2> USE <1>3
  <2>1. PICK x \in Scratches : x = ScratchOf[s]
    BY Zenon, StreamFacts
  <2>2. ScrOf(s) = x /\ s \notin Scratches /\ IdOK(s)
    BY Zenon, <2>1, StreamFacts
  <2>3. call'[x] = c /\ c # NoCall
    BY Zenon, <2>1, CombinationAssumption DEF Begins
  <2>4. CallOK(x)'
    <3>1. /\ c \in Calls /\ c.id = s /\ c.at = offset[s] /\ life'[s] = "open"
          /\ status'[s] = {} /\ offset'[s] = offset[s]
          /\ \/ c.kind = "scan" /\ c.phase = "zero" /\ c.at < c.end
                /\ (c.todo # {} => c.at = 0)
             \/ c.kind = "close" /\ c.phase = "boundary" /\ c.at = c.end
                /\ (c.todo # {} /\ EodKeys = {} => c.at = 0)
      BY Zenon DEF Begins
    <3>2. c.at \in Nat /\ c.end \in Nat
      BY <3>1 DEF Calls
    <3> QED
      BY <2>2, <2>3, <3>1, <3>2 DEF CallOK
  <2>5. IdOK(s)'
    <3>1. InCall(s)' /\ life'[s] = "open"
      BY Zenon, <2>1, <2>2, <2>3 DEF InCall, Begins
    <3> QED
      BY Zenon, <3>1, <2>2 DEF IdOK, Waiting, Begins
  <2> QED
    BY Zenon, <2>1, <2>4, <2>5, BaseStep
\* hs_scan.
<1>4. ASSUME NEW x \in Scratches, NEW len, OnlyHere(x, x), TypeOK', ScanStarts(x, len)
      PROVE  BInv'
  <2> USE <1>4
  <2>1. x \in Ids /\ ScrOf(x) = x /\ x \notin Streams /\ NoCall \notin Calls
    BY Zenon, CombinationAssumption DEF Ids, ScrOf
  <2>2. CASE life'[x] = "closed" /\ UNCHANGED <<call, lastCombMatchOffset>>
    BY Zenon, <2>1, <2>2, SeenNone, BaseStep DEF CallOK, IdOK, Waiting, ScanStarts
  <2>3. CASE ~(life'[x] = "closed" /\ UNCHANGED <<call, lastCombMatchOffset>>)
    <3>1. InCall(x)' /\ life'[x] = "open"
      BY Zenon, <2>1, <2>3 DEF ScanStarts, InCall
    <3>2. IdOK(x)'
      BY Zenon, <3>1, SeenNone DEF IdOK, Waiting, ScanStarts
    <3>3. CallOK(x)'
      BY <2>1, <2>3 DEF CallOK, ScanStarts, Ends
    <3> QED
      BY Zenon, <3>2, <3>3, BaseStep
  <2> QED
    BY Zenon, <2>2, <2>3
\* A report.
<1>5. ASSUME NEW x \in Scratches, NEW l, NEW e, NEW a, NEW d, NEW stop,
             OnlyHere(call[x].id, x), TypeOK', Reporting(x, l, e, a),
             Outcome(x, l, e, a, d, stop)
      PROVE  BInv'
  <2> USE <1>5
  <2>0. PICK i \in Ids : i = call[x].id
    BY Zenon, InCallFacts DEF Reporting
  <2>1. /\ call[x] \in Calls /\ call[x].id = i /\ ScrOf(i) = x /\ CallOK(x) /\ IdOK(i) /\ InCall(i)
        /\ call[x] # NoCall /\ call[x].phase # "last" /\ l \in LKeys /\ e \in Ends
        /\ call[x].at =< e /\ e =< call[x].end
        /\ call[x].phase # "body" => e = call[x].at
        /\ call[x].kind \in {"scan", "close", "block"}
    BY Zenon, <2>0, InCallFacts DEF Reporting, Calls
  <2>2. OnlyHere(i, x)
    BY Zenon, <2>0
  <2>4. CallOK(x)'
    <3>1. CASE call'[x] = NoCall
      BY Zenon, <3>1 DEF CallOK
    <3>2. CASE call'[x] # NoCall
      <4>0. /\ call[x].at \in Nat /\ call[x].end \in Nat /\ offset[i] \in Nat /\ e \in Nat
        BY <2>1 DEF BInv, TypeOK, Calls, Ends
      <4>1. ScrOf(i) = x /\ call'[x].id = i
        BY Zenon, <2>1, <2>2, <3>2 DEF OnlyHere
      <4>2. CASE stop
        BY Zenon, <4>0, <4>1, <4>2, <3>2, <2>1, <1>5 DEF CallOK, Outcome
      <4>3. CASE ~stop
        <5>1. /\ call'[x].kind = call[x].kind /\ call'[x].end = call[x].end
              /\ call'[x].phase = call[x].phase /\ call'[x].at = e
              /\ call'[x].todo \subseteq call[x].todo
              /\ life'[i] = life[i] /\ status'[i] = status[i] /\ offset'[i] = offset[i]
          BY Zenon, <4>3, <2>1 DEF Outcome
        <5>2. /\ life[i] = "open" /\ status[i] = {}
              /\ call[x].phase = "zero" /\ call[x].todo # {} => call[x].at = 0
              /\ call[x].phase = "eod" => call[x].end > 0
              /\ call[x].kind = "scan" =>
                    /\ i \in Streams /\ call[x].phase \in {"zero", "body"}
                    /\ offset[i] =< call[x].at /\ offset[i] < call[x].end
                    /\ call[x].phase = "zero" => call[x].at = offset[i]
              /\ call[x].kind = "close" =>
                    /\ i \in Streams /\ call[x].phase \in {"boundary", "eod", "last"}
                    /\ call[x].at = call[x].end /\ call[x].end = offset[i]
                    /\ call[x].todo # {} /\ EodKeys = {} => call[x].end = 0
              /\ call[x].kind = "block" =>
                    /\ i = x /\ x \in BlockScratches /\ call[x].end = offset[i]
                    /\ call[x].phase = "zero" => call[x].at = 0
                    /\ call[x].phase \in {"zero", "body"} => call[x].end > 0
                    /\ call[x].phase \in {"boundary", "eod"} => call[x].at = call[x].end
          BY Zenon, <2>1 DEF CallOK
        <5> QED
          BY <4>0, <4>1, <2>1, <5>1, <5>2 DEF CallOK
      <4> QED BY Zenon, <4>2, <4>3
    <3> QED BY Zenon, <3>1, <3>2
  <2>5. IdOK(i)'
    <3>1. life[i] = "open" /\ status[i] = {}
      BY Zenon, <2>1 DEF CallOK
    <3>2. lvec'[i] = Seen(matched'[i])
      <4>1. CASE stop
        BY ZenonT(30), <4>1, <2>1, <1>5 DEF Outcome, IdOK
      <4>2. CASE ~stop
        <5>1. matched'[i] = matched[i] \cup {<<l, e>>} /\ lvec'[i] = lvec[i] \cup {l}
          BY Zenon, <4>2, <2>1, <1>5 DEF Outcome
        <5> QED
          BY <5>1, <2>1, SeenMore DEF IdOK
      <4> QED BY Zenon, <4>1, <4>2, <1>5 DEF Outcome
    <3>3. life'[i] # "new" /\ (i \in Scratches => life'[i] # "open" \/ InCall(i)')
      <4>1. i \in Scratches => call[x].kind = "block"
        BY Zenon, <2>1, CombinationAssumption DEF CallOK
      <4>2. InCall(i)' <=> call'[x] # NoCall
        BY Zenon, <2>1, <2>2 DEF InCall, OnlyHere
      <4> QED
        BY ZenonT(30), <3>1, <4>1, <4>2, <2>1, <1>5, CombinationAssumption DEF Outcome, Calls
    <3>4. ~Waiting(i)'
      <4>1. InCall(i)' <=> call'[x] # NoCall
        BY Zenon, <2>1, <2>2 DEF InCall, OnlyHere
      <4>2. stop => status'[i] # {}
        BY ZenonT(30), <2>1, <1>5 DEF Outcome
      <4>3. ~stop => call'[x] # NoCall
        BY ZenonT(30), <2>1, <1>5, CombinationAssumption DEF Outcome
      <4> QED
        BY Zenon, <4>1, <4>2, <4>3, <1>5 DEF Waiting, Outcome
    <3> QED
      BY Zenon, <3>2, <3>3, <3>4 DEF IdOK
  <2> QED
    BY Zenon, <2>2, <2>4, <2>5, BaseStep
\* The next phase.
<1>6. ASSUME NEW x \in Scratches, NEW phase, OnlyHere(call[x].id, x), TypeOK',
             Moves(x, phase)
      PROVE  BInv'
  <2> USE <1>6
  <2>0. PICK i \in Ids : i = call[x].id /\ call[x] # NoCall
    BY Zenon, InCallFacts DEF Moves
  <2>1. /\ ScrOf(i) = x /\ CallOK(x) /\ IdOK(i) /\ InCall(i) /\ NoCall \notin Calls
        /\ call[x] \in Calls
    BY ZenonT(30), <2>0, InCallFacts, CombinationAssumption
  <2>2. CallOK(x)'
    BY ZenonT(30), <2>0, <2>1 DEF CallOK, Moves, Calls, Ends
  <2>3. InCall(i)'
    BY ZenonT(30), <2>0, <2>1 DEF InCall, Moves
  <2>4. IdOK(i)'
    BY Zenon, <2>1, <2>3 DEF IdOK, Moves, Waiting
  <2> QED
    BY Zenon, <2>0, <2>2, <2>4, BaseStep
\* The end of the data.
<1>7. ASSUME NEW x \in Scratches, NEW d, OnlyHere(call[x].id, x), TypeOK', Ended(x, d)
      PROVE  BInv'
  <2> USE <1>7
  <2>0. PICK i \in Ids : i = call[x].id /\ call[x] # NoCall
    BY ZenonT(30), InCallFacts DEF Ended
  <2>1. /\ ScrOf(i) = x /\ CallOK(x) /\ IdOK(i) /\ InCall(i) /\ NoCall \notin Calls
        /\ call[x] \in Calls
    BY Zenon, <2>0, InCallFacts, CombinationAssumption
  <2>2. CallOK(x)'
    <3>1. CASE call'[x] = NoCall
      BY Zenon, <3>1 DEF CallOK
    <3>2. CASE call'[x] # NoCall
      <4>1. /\ call'[x].id = i /\ call'[x].kind = "block" /\ call'[x].phase = "eod"
            /\ call'[x].at = call[x].end /\ call'[x].end = call[x].end
            /\ offset'[i] = offset[i] /\ status'[i] = status[i] /\ life'[i] = life[i]
            /\ call[x].kind = "block" /\ call[x].phase = "body"
        BY Zenon, <3>2, <2>0 DEF Ended
      <4>2. call[x].end \in Nat
        BY <2>1 DEF Calls
      <4> QED
        <5>1. /\ life[i] = "open" /\ status[i] = {} /\ i = x /\ x \in BlockScratches
              /\ call[x].end = offset[i] /\ call[x].end > 0
          BY Zenon, <2>0, <2>1, <4>1 DEF CallOK
        <5> QED
          BY <2>1, <4>1, <4>2, <5>1 DEF CallOK
    <3> QED BY Zenon, <3>1, <3>2
  <2>3. InCall(i)' <=> call'[x] # NoCall
    BY Zenon, <2>0, <2>1 DEF InCall, Ended
  <2>4. call[x].kind \in {"scan", "block"} /\ life[i] = "open" /\ status[i] = {}
        /\ (call[x].kind = "scan" => i \notin Scratches /\ call[x].end # 0)
    <3>1. call[x].kind \in {"scan", "close", "block"} /\ call[x].end \in Nat
          /\ offset[i] \in Nat /\ call[x].phase = "body"
      BY <2>0, <2>1 DEF Calls, Ended, BInv, TypeOK
    <3> QED
      BY <2>0, <2>1, <3>1, CombinationAssumption DEF CallOK
  <2>5. IdOK(i)'
    BY ZenonT(30), <2>0, <2>1, <2>3, <2>4 DEF IdOK, Ended, Waiting
  <2> QED
    BY Zenon, <2>0, <2>2, <2>5, BaseStep
\* The last flush.
<1>8. ASSUME NEW x \in Scratches, NEW d, NEW n, OnlyHere(call[x].id, x), TypeOK',
             Flushed(x, d, n)
      PROVE  BInv'
  <2> USE <1>8
  <2>0. PICK i \in Ids : i = call[x].id /\ call[x] # NoCall
    BY ZenonT(30), InCallFacts DEF Flushed
  <2>1. /\ ScrOf(i) = x /\ CallOK(x) /\ IdOK(i)
    BY Zenon, <2>0, InCallFacts
  <2>2. CallOK(x)'
    BY ZenonT(30), <2>0 DEF CallOK, Flushed
  <2>3. life'[i] = "closed"
    BY Zenon, <2>0, <2>1 DEF Flushed, CallOK
  <2>4. IdOK(i)'
    BY Zenon, <2>0, <2>1, <2>3 DEF IdOK, Flushed, Waiting
  <2> QED
    BY Zenon, <2>0, <2>2, <2>4, BaseStep
<1> QED
  BY ZenonT(30), <1>1, <1>2, <1>3, <1>4, <1>5, <1>6, <1>7, <1>8 DEF Steps, StreamSteps, ScratchSteps

\* It holds initially.
LEMMA InitBase == Init => BInv
<1> SUFFICES ASSUME Init PROVE BInv
  BY Zenon
<1>1. TypeOK
  BY CombinationAssumption DEF Init, TypeOK
<1>2. \A x \in Scratches : CallOK(x)
  BY Zenon DEF Init, CallOK
<1>3. \A i \in Ids : IdOK(i)
  BY Zenon, SeenNone DEF Init, IdOK, Waiting
<1> QED
  BY Zenon, <1>1, <1>2, <1>3 DEF BInv

\* It depends on the variables only.
LEMMA StutterBase == BInv /\ UNCHANGED vars => BInv'
<1> SUFFICES ASSUME BInv, UNCHANGED vars PROVE BInv'
  BY Zenon
<1>1. UNCHANGED <<life, offset, status, lvec, cvec, evec, lastCombMatchOffset, call,
                  matched, reported>>
  BY Zenon DEF vars, streamVars
<1>2. TypeOK'
  BY Zenon, <1>1 DEF BInv, TypeOK
<1>3. \A x \in Scratches : CallOK(x)'
  BY <1>1 DEF BInv, CallOK, ScrOf
<1>4. \A i \in Ids : IdOK(i)'
  BY Zenon, <1>1 DEF BInv, IdOK, Waiting, InCall, ScrOf
<1> QED
  BY Zenon, <1>2, <1>3, <1>4 DEF BInv

\* The base invariant is inductive.
LEMMA NextBase ==
    ASSUME BInv, [Next]_vars
    PROVE  BInv'
BY Zenon, NextSteps, StepsBase, StutterBase

\* It holds always.
LEMMA BaseAlways == Spec => []BInv
BY NextBase, InitBase, PTL DEF Spec

\* The vectors hold keys of the database, and the offsets reported and kept in
\* the scratch lie within the data, for every database and any sharing of
\* scratches.
THEOREM CombinationTypes == Spec => []TypeOK
<1>1. BInv => TypeOK
  BY Zenon DEF BInv
<1> QED
  BY <1>1, BaseAlways, PTL

-----------------------------------------------------------------------------
\* It is inductive, and no step reports after a stop.
LEMMA StepsSilent ==
    ASSUME BInv, NoStopAtBoundary, \A x \in Scratches : SilentOK(x), Steps
    PROVE  NoReportAfterStop /\ \A x \in Scratches : SilentOK(x)'
<1>2. ASSUME NEW i, NEW x, OnlyHere(i, x), SilentOK(x)',
             "TERMINATED" \in status[i] => reported'[i] = reported[i] \/ reported'[i] = {}
      PROVE  NoReportAfterStop /\ \A y \in Scratches : SilentOK(y)'
  <2>1. NoReportAfterStop
    BY Zenon, <1>2 DEF OnlyHere, NoReportAfterStop
  <2>2. ASSUME NEW y \in Scratches, y # x PROVE SilentOK(y)'
    <3>1. call'[y] = call[y] /\ lastCombMatchOffset'[y] = lastCombMatchOffset[y]
      BY Zenon, <1>2, <2>2 DEF OnlyHere
    <3>2. CASE call[y] = NoCall
      BY ZenonT(30), <3>1, <3>2 DEF SilentOK
    <3>3. CASE call[y] # NoCall
      <4>1. call[y].id \in Ids /\ call[y].id # i
        BY ZenonT(30), <1>2, <2>2, <3>3, InCallFacts DEF OnlyHere
      <4>2. status'[call[y].id] = status[call[y].id]
        BY Zenon, <1>2, <4>1 DEF OnlyHere
      <4> QED BY Zenon, <3>1, <4>2 DEF SilentOK
    <3> QED BY Zenon, <3>2, <3>3
  <2> QED BY ZenonT(30), <1>2, <2>1, <2>2
<1>3. ASSUME NEW s \in Streams, hs_open_stream(s)
      PROVE  NoReportAfterStop /\ \A y \in Scratches : SilentOK(y)'
  BY ZenonT(30), <1>3 DEF hs_open_stream, NoReportAfterStop, SilentOK
<1>4. ASSUME NEW s \in Streams, OnlyHere(s, ScratchOf[s]), Breaks(s)
      PROVE  NoReportAfterStop /\ \A y \in Scratches : SilentOK(y)'
  BY Zenon, <1>4 DEF NoReportAfterStop, SilentOK, Breaks
<1>5. ASSUME NEW s \in Streams, OnlyHere(s, ScratchOf[s]), NEW c, Begins(s, c)
      PROVE  NoReportAfterStop /\ \A y \in Scratches : SilentOK(y)'
  <2>1. SilentOK(ScratchOf[s])' /\ reported'[s] = reported[s]
    BY Zenon, <1>5 DEF Begins, SilentOK
  <2> QED BY Zenon, <1>2, <1>5, <2>1
<1>6. ASSUME NEW x \in Scratches, OnlyHere(x, x), NEW len, ScanStarts(x, len)
      PROVE  NoReportAfterStop /\ \A y \in Scratches : SilentOK(y)'
  <2>1. x \in BlockScratches /\ ZeroKeys \subseteq Quiet /\ EodKeys = {}
    BY Zenon, <1>6 DEF ScanStarts, NoStopAtBoundary
  <2>2. SilentOK(x)' /\ reported'[x] = {}
    BY ZenonT(30), <1>6, <2>1, CombinationAssumption DEF ScanStarts, SilentOK
  <2> QED BY Zenon, <1>2, <1>6, <2>2
<1>7. ASSUME NEW x \in Scratches, NEW l, NEW e, NEW a, NEW d, NEW stop,
             OnlyHere(call[x].id, x), Reporting(x, l, e, a),
             Outcome(x, l, e, a, d, stop)
      PROVE  NoReportAfterStop /\ \A y \in Scratches : SilentOK(y)'
  <2>1. PICK i \in Ids : i = call[x].id
    BY ZenonT(30), <1>7, InCallFacts DEF Reporting
  <2>2. /\ call[x] # NoCall /\ CallOK(x) /\ SilentOK(x) /\ call[x].phase # "last"
        /\ call[x].phase \in {"zero", "boundary"} =>
              l \in call[x].todo /\ e = call[x].at /\ a = 0
    BY ZenonT(30), <1>7, InCallFacts DEF Reporting
  <2>3. OnlyHere(i, x) /\ status[i] = {}
    BY ZenonT(30), <1>7, <2>1, <2>2 DEF CallOK
  <2>4. Outcome(x, l, e, a, d, stop)
    BY Zenon, <1>7
  <2>5. CASE call[x].kind = "block" /\ call[x].phase \in {"zero", "boundary"}
    <3>1. l \in Quiet /\ e = 0 /\ lastCombMatchOffset[x] = 0 /\ call[x].todo \subseteq Quiet
      BY Zenon, <2>2, <2>5 DEF SilentOK
    <3>2. d = Nothing /\ stop \in BOOLEAN /\ (stop => d.halt)
      BY <2>4, <3>1 DEF Outcome
    <3>3. ~stop
      BY Zenon, <3>2, NothingDelivered
    <3>4. /\ call'[x].phase = call[x].phase /\ call'[x].at = e
          /\ call'[x].todo \subseteq call[x].todo /\ lastCombMatchOffset'[x] = e + a
      BY ZenonT(30), <2>4, <3>3 DEF Outcome
    <3>6. e + a = 0
      BY <2>2, <2>5, <3>1
    <3>5. SilentOK(x)'
      BY ZenonT(30), <2>5, <3>1, <3>4, <3>6 DEF SilentOK
    <3> QED BY Zenon, <1>2, <2>3, <3>5
  <2>6. CASE ~(call[x].kind = "block" /\ call[x].phase \in {"zero", "boundary"})
    <3>1. call'[x] = NoCall \/ (call'[x].kind = call[x].kind /\ call'[x].phase = call[x].phase)
      BY ZenonT(30), <2>4, <2>6 DEF Outcome
    <3>2. SilentOK(x)'
      BY Zenon, <2>2, <2>6, <3>1 DEF SilentOK
    <3> QED BY Zenon, <1>2, <2>3, <3>2
  <2> QED BY Zenon, <2>5, <2>6
<1>8. ASSUME NEW x \in Scratches, OnlyHere(call[x].id, x), NEW phase, Moves(x, phase)
      PROVE  NoReportAfterStop /\ \A y \in Scratches : SilentOK(y)'
  <2>1. PICK i \in Ids : i = call[x].id
    BY ZenonT(30), <1>8, InCallFacts DEF Moves
  <2>2. CallOK(x) /\ call[x].phase # "last" /\ call[x].kind \in {"scan", "close", "block"}
    BY ZenonT(30), <1>8, InCallFacts DEF Moves, Calls
  <2>3. status[i] = {} /\ status'[i] = {} /\ call'[x].id = i
    BY ZenonT(30), <1>8, <2>1, <2>2 DEF CallOK, Moves
  <2>4. phase = "boundary" => call[x].kind = "block" /\ call'[x].todo = EodKeys
    BY Zenon, <1>8 DEF Moves
  <2>5. call[x].kind = "block" => EodKeys = {}
    BY Zenon, <1>8, <2>2 DEF CallOK, Moves, NoStopAtBoundary
  <2>6. phase # "zero" /\ call'[x].phase = phase
    BY ZenonT(30), <1>8 DEF Moves
  <2>7. SilentOK(x)'
    BY Zenon, <2>3, <2>4, <2>5, <2>6 DEF SilentOK
  <2> QED BY Zenon, <1>2, <1>8, <2>1, <2>3, <2>7
<1>9. ASSUME NEW x \in Scratches, OnlyHere(call[x].id, x), NEW d, Ended(x, d)
      PROVE  NoReportAfterStop /\ \A y \in Scratches : SilentOK(y)'
  <2>1. PICK i \in Ids : i = call[x].id
    BY ZenonT(30), <1>9, InCallFacts DEF Ended
  <2>2. CallOK(x) /\ call[x].phase = "body" /\ call[x] # NoCall
    BY ZenonT(30), <1>9, InCallFacts DEF Ended
  <2>3. status[i] = {}
    BY ZenonT(30), <2>1, <2>2 DEF CallOK
  <2>4. call'[x] = NoCall \/ call'[x].phase = "eod"
    BY ZenonT(30), <1>9 DEF Ended
  <2>5. SilentOK(x)'
    BY Zenon, <2>4 DEF SilentOK
  <2> QED BY Zenon, <1>2, <1>9, <2>1, <2>3, <2>5
<1>10. ASSUME NEW x \in Scratches, OnlyHere(call[x].id, x), NEW d, NEW n, Flushed(x, d, n)
       PROVE  NoReportAfterStop /\ \A y \in Scratches : SilentOK(y)'
  <2>1. PICK i \in Ids : i = call[x].id
    BY ZenonT(30), <1>10, InCallFacts DEF Flushed
  <2>2. "TERMINATED" \notin status[i] /\ call'[x] = NoCall
    BY Zenon, <1>10, <2>1 DEF Flushed, SilentOK
  <2>3. SilentOK(x)'
    BY Zenon, <2>2 DEF SilentOK
  <2> QED BY ZenonT(30), <1>2, <1>10, <2>1, <2>2, <2>3
<1> QED
  BY ZenonT(30), <1>3, <1>4, <1>5, <1>6, <1>7, <1>8, <1>9, <1>10 DEF Steps, StreamSteps, ScratchSteps

\* After a callback asked to stop nothing is reported for that stream or block,
\* however scratches are shared, if no boundary report of a block can stop.
THEOREM StopIsFinal ==
    ASSUME NoStopAtBoundary
    PROVE  Spec => SilentAfterStop
<1> DEFINE SInv == \A x \in Scratches : SilentOK(x)
<1>1. Init => SInv
  BY Zenon DEF Init, SilentOK
<1>2. BInv /\ SInv /\ [Next]_vars => SInv' /\ [NoReportAfterStop]_vars
  <2>1. BInv /\ SInv /\ Next => SInv' /\ NoReportAfterStop
    BY Zenon, NextSteps, StepsSilent
  <2>2. SInv /\ UNCHANGED vars => SInv'
    BY Zenon DEF vars, streamVars, SilentOK
  <2> QED BY Zenon, <2>1, <2>2
<1> QED
  BY <1>1, <1>2, BaseAlways, PTL DEF Spec, SilentAfterStop

-----------------------------------------------------------------------------
\* It depends on this data only.
LEMMA NegativeSame ==
    ASSUME NEW i \in Ids, NegativeOK(i),
           UNCHANGED <<offset[i], status[i], evec[i], matched[i], reported[i]>>,
           life'[i] = "closed" => life[i] = "closed"
    PROVE  NegativeOK(i)'
BY Zenon DEF NegativeOK, Complete, DueNegative, Touches

\* Delivered combinations have been reported.
LEMMA MarkedReported ==
    ASSUME NEW d, NEW last, NEW rp, NEW ev, Named(ev, rp)
    PROVE  Named(ev \cup Marked(d), rp \cup At(d, last))
<1>1. ASSUME NEW c \in Marked(d) PROVE \E r \in At(d, last) : r[1] = c
  <2>1. <<c, last>> \in At(d, last) /\ <<c, last>>[1] = c
    BY Zenon DEF Marked, At
  <2> QED BY Zenon, <2>1
<1> QED
  BY Zenon, <1>1 DEF Named

\* checkPurelyNegatives raises what holds because nothing matched.
LEMMA FlushedNegatives ==
    ASSUME BInv, NEW x \in Scratches, NEW d, NEW n, Flushed(x, d, n),
           NEW i \in Ids, i = call[x].id, NegativeOK(i), NEW c \in CKeys,
           ~d.halt, ~n.halt, DueNegative(i, c)'
    PROVE  \E r \in reported'[i] : r[1] = c
<1>1. CallOK(x) /\ IdOK(i) /\ call[x] \in Calls
  BY ZenonT(30), InCallFacts DEF Flushed
<1>2. PICK end \in Ends : end = call[x].end /\ end = offset[i]
  BY ZenonT(30), <1>1 DEF Calls, Ends, CallOK, Flushed
<1>3. /\ n \in Deliveries(NotMatched(lvec[i], evec[i], end))
      /\ reported'[i] = reported[i] \cup At(d, lastCombMatchOffset[x]) \cup At(n, end)
      /\ matched'[i] = matched[i] /\ offset'[i] = end
  BY ZenonT(30), <1>2 DEF Flushed
<1>4. /\ \A l \in Operands(c), e \in 0 .. MaxOffset : <<l, e>> \notin matched[i]
      /\ isLogicalCombination({}, c)
      /\ CombInfo[c].min_offset =< end /\ end =< CombInfo[c].max_offset
  BY ZenonT(30), <1>3 DEF DueNegative, Touches
<1>5. PICK lv : lv = lvec[i]
  BY ZenonT(30)
<1>6. lv \cap Operands(c) = {}
  BY ZenonT(30), <1>1, <1>4, <1>5 DEF IdOK, Seen, Ends
<1>7. isLogicalCombination(lv, c)
  <2>1. lv \cap Operands(c) = {} \cap Operands(c)
    BY Zenon, <1>6
  <2>2. isLogicalCombination(lv, c) = isLogicalCombination({}, c)
    BY Zenon, <2>1, ValueFromOperands
  <2> QED BY Zenon, <1>4, <2>2
<1>8. CASE CombInfo[c].ekey /\ c \in evec[i]
  <2>1. PICK r \in reported[i] : r[1] = c
    BY ZenonT(30), <1>8 DEF NegativeOK, Named
  <2> QED BY ZenonT(30), <1>3, <2>1
<1>9. CASE ~(CombInfo[c].ekey /\ c \in evec[i])
  <2>1. c \in NotMatched(lvec[i], evec[i], end)
    BY ZenonT(30), <1>4, <1>5, <1>6, <1>7, <1>9 DEF NotMatched, isPurelyNegativeMatch
  <2>2. c \in n.to_user
    <3>1. PICK N : N = NotMatched(lvec[i], evec[i], end)
      BY Zenon
    <3>2. n.to_user = N
      BY Zenon, <1>3, <3>1, Delivered
    <3> QED BY Zenon, <2>1, <3>1, <3>2
  <2>3. <<c, end>> \in At(n, end) /\ <<c, end>>[1] = c
    BY Zenon, <2>2 DEF At
  <2> QED BY ZenonT(30), <1>3, <2>3
<1> QED
  BY ZenonT(30), <1>8, <1>9

\* It is inductive where scans are always flushed.
LEMMA StepsNegatives ==
    ASSUME BInv, AlwaysFlushed, \A i \in Ids : NegativeOK(i), Steps
    PROVE  \A i \in Ids : NegativeOK(i)'
<1>2. ASSUME NEW i, NEW x, OnlyHere(i, x), NegativeOK(i)'
      PROVE  \A j \in Ids : NegativeOK(j)'
  <2> SUFFICES ASSUME NEW j \in Ids, j # i PROVE NegativeOK(j)'
    BY Zenon, <1>2
  <2>1. UNCHANGED <<offset[j], status[j], evec[j], matched[j], reported[j], life[j]>>
    BY Zenon, <1>2 DEF OnlyHere
  <2> QED BY Zenon, <2>1, NegativeSame
<1>3. ASSUME NEW s \in Streams, hs_open_stream(s) PROVE \A i \in Ids : NegativeOK(i)'
  <2> SUFFICES ASSUME NEW i \in Ids PROVE NegativeOK(i)'
    BY Zenon
  <2>1. UNCHANGED <<offset, status, evec, matched, reported>>
        /\ life' = [life EXCEPT ![s] = "open"]
    BY Zenon, <1>3 DEF hs_open_stream
  <2>2. life'[i] = "closed" => life[i] = "closed"
    BY Zenon, <2>1 DEF BInv, TypeOK
  <2> QED BY Zenon, <2>1, <2>2, NegativeSame
<1>4. ASSUME NEW s \in Streams, OnlyHere(s, ScratchOf[s]), Breaks(s)
      PROVE \A i \in Ids : NegativeOK(i)'
  <2>1. s \in Ids
    BY Zenon DEF Ids
  <2>2. status[s] # {} /\ UNCHANGED <<offset, status, lvec, cvec, evec, matched, reported>>
    BY Zenon, <1>4 DEF Breaks
  <2>3. "TERMINATED" \in status[s]
    BY <2>1, <2>2 DEF NegativeOK, BInv, TypeOK
  <2>4. NegativeOK(s)'
    BY Zenon, <2>1, <2>2, <2>3 DEF NegativeOK, Complete
  <2> QED BY Zenon, <1>2, <1>4, <2>4
<1>5. ASSUME NEW s \in Streams, OnlyHere(s, ScratchOf[s]), NEW c, Begins(s, c)
      PROVE \A i \in Ids : NegativeOK(i)'
  <2>1. s \in Ids
    BY Zenon DEF Ids
  <2>2. NegativeOK(s)'
    BY Zenon, <1>5, <2>1, NegativeSame DEF Begins
  <2> QED BY Zenon, <1>2, <1>5, <2>2
<1>6. ASSUME NEW x \in Scratches, OnlyHere(x, x), NEW len, ScanStarts(x, len)
      PROVE \A i \in Ids : NegativeOK(i)'
  <2>1. life'[x] # "closed"
    BY <1>6, CombinationAssumption DEF ScanStarts, AlwaysFlushed, Ends
  <2>2. NegativeOK(x)'
    BY Zenon, <1>6, <2>1 DEF NegativeOK, Named, Complete, ScanStarts
  <2> QED BY Zenon, <1>2, <1>6, <2>2
<1>7. ASSUME NEW x \in Scratches, NEW l, NEW e, NEW a, NEW d, NEW stop,
             OnlyHere(call[x].id, x), Reporting(x, l, e, a),
             Outcome(x, l, e, a, d, stop)
      PROVE \A i \in Ids : NegativeOK(i)'
  <2>1. PICK i \in Ids : i = call[x].id
    BY Zenon, <1>7, InCallFacts DEF Reporting
  <2>2. OnlyHere(i, x)
    BY Zenon, <1>7, <2>1
  <2>4. PICK rp, ev, last : rp = reported[i] /\ ev = evec[i] /\ last = lastCombMatchOffset[x]
    BY Zenon
  <2>5. reported'[i] = rp \cup At(d, last) /\ evec'[i] = ev \cup Marked(d)
    BY Zenon, <2>1, <1>7, <2>4 DEF Outcome
  <2>6. Named(ev \cup Marked(d), rp \cup At(d, last))
    <3>1. Named(ev, rp)
      BY Zenon, <2>4 DEF NegativeOK
    <3> QED BY Zenon, <3>1, MarkedReported
  <2>7. "EXHAUSTED" \notin status'[i]
    <3>1. status'[i] = status[i] \cup {"TERMINATED"} \/ status'[i] = status[i]
      BY Zenon, <2>1, <1>7 DEF Outcome
    <3> QED BY <3>1 DEF NegativeOK
  <2>8. ~Complete(i)'
    <3>1. CallOK(x) /\ call[x] # NoCall
      BY ZenonT(30), <1>7, InCallFacts DEF Reporting
    <3>2. life[i] = "open"
      BY Zenon, <2>1, <3>1 DEF CallOK
    <3>3. stop \in BOOLEAN /\ (stop => "TERMINATED" \in status'[i])
          /\ (~stop => life'[i] = life[i])
      BY ZenonT(30), <2>1, <1>7 DEF Outcome
    <3> QED BY Zenon, <3>2, <3>3 DEF Complete
  <2>9. NegativeOK(i)'
    BY ZenonT(30), <2>5, <2>6, <2>7, <2>8 DEF NegativeOK
  <2> QED BY Zenon, <1>2, <2>2, <2>9
<1>8. ASSUME NEW x \in Scratches, OnlyHere(call[x].id, x), NEW phase, Moves(x, phase)
      PROVE \A i \in Ids : NegativeOK(i)'
  <2>1. PICK i \in Ids : i = call[x].id
    BY ZenonT(30), <1>8, InCallFacts DEF Moves
  <2>2. NegativeOK(i)'
    BY ZenonT(30), <1>8, <2>1, NegativeSame DEF Moves
  <2> QED BY Zenon, <1>2, <1>8, <2>1, <2>2
<1>9. ASSUME NEW x \in Scratches, OnlyHere(call[x].id, x), NEW d, Ended(x, d)
      PROVE \A i \in Ids : NegativeOK(i)'
  <2>1. PICK i \in Ids : i = call[x].id
    BY ZenonT(30), <1>9, InCallFacts DEF Ended
  <2>2. call[x] # NoCall /\ call[x] \in Calls /\ CallOK(x)
    BY ZenonT(30), <1>9, InCallFacts DEF Ended
  <2>4. PICK rp, ev, last : rp = reported[i] /\ ev = evec[i] /\ last = lastCombMatchOffset[x]
    BY Zenon
  <2>5. reported'[i] = rp \cup At(d, last) /\ evec'[i] = ev \cup Marked(d)
    BY ZenonT(30), <1>9, <2>1, <2>4 DEF Ended
  <2>6. Named(ev \cup Marked(d), rp \cup At(d, last))
    <3>1. Named(ev, rp)
      BY Zenon, <2>4 DEF NegativeOK
    <3> QED BY Zenon, <3>1, MarkedReported
  <2>7. ~(AnchoredDistance < call[x].end) /\ OutfixLives
    BY <2>2, CombinationAssumption DEF AlwaysFlushed, Calls
  <2>8. "EXHAUSTED" \notin status'[i]
    BY ZenonT(30), <1>9, <2>1, <2>7 DEF Ended, NegativeOK
  <2>9. ~Complete(i)'
    <3>1. life[i] = "open"
      BY ZenonT(30), <2>1, <2>2 DEF CallOK
    <3> QED BY ZenonT(30), <1>9, <2>1, <3>1 DEF Ended, Complete
  <2>10. NegativeOK(i)'
    BY Zenon, <2>5, <2>6, <2>8, <2>9 DEF NegativeOK
  <2> QED BY Zenon, <1>2, <1>9, <2>1, <2>10
<1>10. ASSUME NEW x \in Scratches, OnlyHere(call[x].id, x), NEW d, NEW n, Flushed(x, d, n)
       PROVE \A i \in Ids : NegativeOK(i)'
  <2>1. PICK i \in Ids : i = call[x].id
    BY Zenon, <1>10, InCallFacts DEF Flushed
  <2>4. PICK rp, ev, last, end : /\ rp = reported[i] /\ ev = evec[i]
                                 /\ last = lastCombMatchOffset[x] /\ end = call[x].end
    BY Zenon
  <2>5. /\ reported'[i] = rp \cup At(d, last) \cup At(n, end)
        /\ evec'[i] = ev \cup Marked(d) \cup Marked(n)
    BY ZenonT(30), <1>10, <2>1, <2>4 DEF Flushed
  <2>6. Named(ev \cup Marked(d), rp \cup At(d, last))
    <3>1. Named(ev, rp)
      BY Zenon, <2>4 DEF NegativeOK
    <3> QED BY Zenon, <3>1, MarkedReported
  <2>7. Named(ev \cup Marked(d) \cup Marked(n), rp \cup At(d, last) \cup At(n, end))
    BY Zenon, <2>6, MarkedReported
  <2>8. "EXHAUSTED" \notin status'[i]
    <3>1. status'[i] = status[i] \cup {"TERMINATED"} \/ status'[i] = status[i]
      BY Zenon, <1>10, <2>1 DEF Flushed
    <3> QED BY <3>1 DEF NegativeOK
  <2>9. Complete(i)' => ~d.halt /\ ~n.halt
    BY Zenon, <1>10, <2>1 DEF Flushed, Complete
  <2>10. Complete(i)' => \A c \in CKeys : DueNegative(i, c)' => \E r \in reported'[i] : r[1] = c
    <3> SUFFICES ASSUME Complete(i)', NEW c \in CKeys, DueNegative(i, c)'
                 PROVE  \E r \in reported'[i] : r[1] = c
      BY Zenon
    <3>1. ~d.halt /\ ~n.halt /\ NegativeOK(i) /\ Flushed(x, d, n)
      BY Zenon, <1>10, <2>9
    <3> QED BY <2>1, <3>1, FlushedNegatives
  <2>11. NegativeOK(i)'
    BY Zenon, <2>5, <2>7, <2>8, <2>10 DEF NegativeOK
  <2> QED BY Zenon, <1>2, <1>10, <2>1, <2>11
<1> QED
  BY ZenonT(30), <1>3, <1>4, <1>5, <1>6, <1>7, <1>8, <1>9, <1>10 DEF Steps, StreamSteps, ScratchSteps

\* A combination that holds because no operand matched is raised when the data
\* ends, whatever the scratches are shared by, if no scan skips
\* LAST_FLUSH_COMBINATION: no block is too short to be scanned and no stream is
\* given up as exhausted, be it behind Rose's anchored region or because the one
\* engine that runs it died.
THEOREM NoNegativeMissed ==
    ASSUME AlwaysFlushed
    PROVE  Spec => []NegativesRaised
<1> DEFINE NInv == \A i \in Ids : NegativeOK(i)
<1>1. Init => NInv
  BY Zenon DEF Init, NegativeOK, Named, Complete
<1>2. BInv /\ NInv /\ [Next]_vars => NInv'
  <2>1. BInv /\ NInv /\ Next => NInv'
    BY Zenon, NextSteps, StepsNegatives
  <2>2. NInv /\ UNCHANGED vars => NInv'
    BY Zenon, NegativeSame DEF vars, streamVars
  <2> QED BY Zenon, <2>1, <2>2
<1>3. NInv => NegativesRaised
  BY Zenon DEF NegativeOK, NegativesRaised
<1> QED
  BY <1>1, <1>2, <1>3, BaseAlways, PTL DEF Spec
-----------------------------------------------------------------------------
\* Due, in terms of the history.
LEMMA DueIsDueAt == \A i, c : Due(i, c) = DueAt(matched[i], c)
BY Zenon DEF Due, DueAt, SeenBy, Touches, MatchedBy, InBounds, Ends

\* What was raised where it may be is allowed, now and after a step.
LEMMA RaisedAllowed ==
    ASSUME NEW i \in Ids, NEW p, NEW m, NEW rp \in SUBSET (CKeys \X Ends),
           RaisedBy(m, rp, p), NEW r \in rp
    PROVE  /\ m = matched[i] => Allowed(i, r[1], r[2])
           /\ m = matched'[i] => Allowed(i, r[1], r[2])'
<1>1. PICK c \in CKeys, to \in Ends : r = <<c, to>>
  OBVIOUS
<1>2. PICK e \in Ends : InBounds(c, to) /\ RaisedAs(m, c, to, e)
  BY Zenon, <1>1 DEF RaisedBy
<1>3. PICK S \in Hears(m, e) : isLogicalCombination(S, c)
  BY Zenon, <1>2 DEF RaisedAs
<1>4. to \in RaisedFor(e) /\ \E l \in Operands(c) : <<l, e>> \in m
  BY Zenon, <1>2 DEF RaisedAs
<1>5. CombInfo[c].min_offset =< to /\ to =< CombInfo[c].max_offset
  BY Zenon, <1>2 DEF InBounds
<1>6. ASSUME m = matched[i] PROVE Allowed(i, c, to)
  <2>1. Touches(i, c, e) /\ S \in Heard(i, e)
    BY Zenon, <1>3, <1>4, <1>6 DEF Touches, Heard, Hears, MatchedBy, SeenBy
  <2> QED BY Zenon, <1>3, <1>4, <1>5, <2>1 DEF Allowed, Ends
<1>7. ASSUME m = matched'[i] PROVE Allowed(i, c, to)'
  <2>1. Touches(i, c, e)' /\ S \in Heard(i, e)'
    BY Zenon, <1>3, <1>4, <1>7 DEF Touches, Heard, Hears, MatchedBy, SeenBy
  <2> QED BY Zenon, <1>3, <1>4, <1>5, <2>1 DEF Allowed, Ends
<1> QED
  BY Zenon, <1>1, <1>6, <1>7

\* Types, place by place.
LEMMA DataTypes ==
    ASSUME BInv, NEW i \in Ids
    PROVE  /\ matched[i] \in SUBSET (LKeys \X Ends) /\ reported[i] \in SUBSET (CKeys \X Ends)
           /\ cvec[i] \in SUBSET CKeys /\ offset[i] \in Ends
           /\ lastCombMatchOffset[ScrOf(i)] \in Ends
           /\ InCall(i) => call[ScrOf(i)].at \in Ends /\ call[ScrOf(i)].end \in Ends
<1>1. ScrOf(i) \in Scratches
  BY Zenon, ScrOfType
<1>2. InCall(i) => call[ScrOf(i)] \in Calls
  BY Zenon, <1>1 DEF BInv, TypeOK, InCall
<1>3. InCall(i) => call[ScrOf(i)].at \in Ends /\ call[ScrOf(i)].end \in Ends
  BY Zenon, <1>2 DEF Calls, Ends
<1>4. offset[i] \in Ends /\ lastCombMatchOffset[ScrOf(i)] \in Ends
  BY Zenon, <1>1 DEF BInv, TypeOK, Ends
<1> QED
  BY Zenon, <1>3, <1>4 DEF BInv, TypeOK, Ends

\* A stage stays as it is when the data does, as long as what waits is still
\* to be raised for the same matches.
LEMMA StageStays ==
    ASSUME NEW i, NEW p, Stage(i, p), Position(i)' = Position(i),
           Flushing(i) => Flushing(i)', Pending(i, p)',
           UNCHANGED <<status[i], lvec[i], cvec[i], evec[i], matched[i], reported[i]>>
    PROVE  Stage(i, p)'
BY Zenon DEF Stage

\* Other data keep the offset their combinations wait at.
LEMMA OthersStage ==
    ASSUME BInv, NEW i, NEW x, OnlyHere(i, x), NEW j \in Ids, j # i,
           InCall(j) \/ Waiting(j)
    PROVE  /\ \A p : Stage(j, p) => Stage(j, p)'
           /\ Own => lastCombMatchOffset'[ScrOf(j)] = lastCombMatchOffset[ScrOf(j)]
<1>1. /\ InCall(j)' <=> InCall(j)
      /\ Waiting(j)' <=> Waiting(j)
      /\ InCall(j) => ScrOf(j) # x /\ call'[ScrOf(j)] = call[ScrOf(j)]
                      /\ lastCombMatchOffset'[ScrOf(j)] = lastCombMatchOffset[ScrOf(j)]
  BY OthersCall
<1>2. UNCHANGED <<offset[j], status[j], lvec[j], cvec[j], evec[j], matched[j], reported[j]>>
  BY Zenon DEF OnlyHere
<1>3. /\ Position(j)' = Position(j) /\ (Flushing(j)' <=> Flushing(j))
      /\ (Current(j)' <=> Current(j)) /\ (Restores(j)' <=> Restores(j))
      /\ Current(j) \/ Own => lastCombMatchOffset'[ScrOf(j)] = lastCombMatchOffset[ScrOf(j)]
  <2>1. CASE InCall(j)
    <3>1. Position(j)' = Position(j) /\ (Flushing(j)' <=> Flushing(j))
      BY ZenonT(30), <1>1, <1>2, <2>1 DEF Position, Flushing, ScrOf
    <3>2. Unrestored(call[ScrOf(j)])' <=> Unrestored(call[ScrOf(j)])
      BY ZenonT(30), <1>1, <2>1 DEF Unrestored, ScrOf
    <3>3. (Current(j)' <=> Current(j)) /\ (Restores(j)' <=> Restores(j))
      BY ZenonT(30), <1>1, <2>1, <3>1, <3>2 DEF Current, Restores, ScrOf
    <3> QED BY Zenon, <1>1, <2>1, <3>1, <3>3
  <2>2. CASE Waiting(j)
    <3>1. j \in Streams /\ ~InCall(j)
      BY ZenonT(30), <2>2 DEF Waiting, BInv, IdOK, Ids
    <3>2. Own => ScrOf(j) # x
      BY <3>1, CombinationAssumption DEF Own, OnlyHere, ScrOf, Ids
    <3>3. Own => lastCombMatchOffset'[ScrOf(j)] = lastCombMatchOffset[ScrOf(j)]
      BY Zenon, <3>2, ScrOfType DEF OnlyHere
    <3> QED
      BY Zenon, <3>1, <3>3, <1>1, <1>2 DEF Position, Flushing, Current, Restores
  <2> QED BY Zenon, <2>1, <2>2
<1>4. ASSUME NEW p, Stage(j, p) PROVE Stage(j, p)'
  <2>1. Pending(j, p)'
    BY Zenon, <1>2, <1>3, <1>4 DEF Stage, Pending, ScrOf
  <2> QED BY Zenon, <1>2, <1>3, <1>4, <2>1, StageStays
<1> QED
  BY Zenon, <1>3, <1>4

\* What is over stays as it is when the data does.
LEMMA OverStays ==
    ASSUME NEW i, OverOK(i), InCall(i)' <=> InCall(i), Waiting(i)' <=> Waiting(i),
           UNCHANGED <<offset[i], status[i], evec[i], matched[i], reported[i]>>
    PROVE  OverOK(i)'
<1>1. \A c, to : Allowed(i, c, to)' <=> Allowed(i, c, to)
  BY ZenonT(30) DEF Allowed, Touches, Heard, MatchedBy
<1>2. \A c : DueNegative(i, c)' <=> DueNegative(i, c)
  BY Zenon DEF DueNegative, Touches
<1> QED
  BY Zenon, <1>1, <1>2 DEF OverOK

\* It is enough to look at the data and the scratch of a step.
LEMMA KeptStep ==
    ASSUME BInv, KInv, NEW i, NEW x, OnlyHere(i, x),
           LastOK(x)', IdleOK(i)', LiveOK(i)', OverOK(i)'
    PROVE  KInv'
<1>1. ASSUME NEW j \in Ids, j # i PROVE IdleOK(j)' /\ LiveOK(j)' /\ OverOK(j)'
  <2>1. UNCHANGED <<offset[j], status[j], lvec[j], cvec[j], evec[j], matched[j], reported[j]>>
    BY Zenon, <1>1 DEF OnlyHere
  <2>2. (InCall(j)' <=> InCall(j)) /\ (Waiting(j)' <=> Waiting(j))
    BY Zenon, <1>1, OthersCall
  <2>3. InCall(j) \/ Waiting(j) =>
           /\ \A p : Stage(j, p) => Stage(j, p)'
           /\ Own => lastCombMatchOffset'[ScrOf(j)] = lastCombMatchOffset[ScrOf(j)]
    BY Zenon, <1>1, OthersStage
  <2>4. IdleOK(j) /\ LiveOK(j) /\ OverOK(j)
    BY Zenon DEF KInv
  <2>5. IdleOK(j)'
    BY ZenonT(30), <2>1, <2>2, <2>3, <2>4 DEF IdleOK, ScrOf
  <2>6. LiveOK(j)'
    BY Zenon, <2>2, <2>3, <2>4 DEF LiveOK
  <2>7. OverOK(j)'
    BY Zenon, <2>1, <2>2, <2>4, OverStays
  <2> QED BY Zenon, <2>5, <2>6, <2>7
<1>2. ASSUME NEW y \in Scratches, y # x PROVE LastOK(y)'
  <2>1. call'[y] = call[y] /\ lastCombMatchOffset'[y] = lastCombMatchOffset[y] /\ LastOK(y)
    BY Zenon, <1>2 DEF OnlyHere, KInv
  <2>2. CASE call[y] = NoCall
    BY Zenon, <2>1, <2>2 DEF LastOK
  <2>3. CASE call[y] # NoCall
    <3>1. call[y].id \in Ids /\ call[y].id # i
      BY ZenonT(30), <1>2, <2>3, InCallFacts DEF OnlyHere
    <3>2. offset'[call[y].id] = offset[call[y].id]
      BY Zenon, <3>1 DEF OnlyHere
    <3> QED
      BY ZenonT(30), <2>1, <3>2 DEF LastOK, Base, Unrestored, ByRose, Skipped
  <2> QED BY Zenon, <2>2, <2>3
<1> QED
  BY Zenon, <1>1, <1>2 DEF KInv

\* Nothing has matched, nothing waits, nothing was raised.
LEMMA Fresh ==
    ASSUME NEW p
    PROVE  /\ Kept({}, {}, {}, p) /\ RaisedBy({}, {}, p) /\ Waits({}, {}, {}, p)
           /\ Settled({}, {}, {}, {}, p) /\ Once({}, {}, {})
BY Zenon DEF Kept, RaisedBy, Waits, Settled, Once, Seen, Touched, DueAt

\* Data that has not been scanned is at its first stage.
LEMMA FreshStage ==
    ASSUME NEW i, matched'[i] = {}, lvec'[i] = {}, cvec'[i] = {}, evec'[i] = {},
           reported'[i] = {}, Position(i)' \in Ends
    PROVE  LiveOK(i)'
<1>1. 0 \in Ends /\ 0 =< Position(i)'
  BY CombinationAssumption DEF Ends
<1>2. Stage(i, 0)'
  BY Zenon, <1>1, Fresh DEF Stage, Pending
<1> QED
  BY Zenon, <1>1, <1>2 DEF LiveOK

\* With nothing waiting a flush does nothing.
LEMMA FlushNone ==
    ASSUME NEW lv, NEW ev, NEW a
    PROVE  Deliveries(Ready(lv, {}, ev, a)) = {Nothing}
<1>1. Ready(lv, {}, ev, a) = {}
  BY Zenon DEF Ready
<1> QED
  BY Zenon, <1>1 DEF Deliveries, Nothing

\* The flush of data i whose last matches end at p, from the state in call.
LEMMA FlushHere ==
    ASSUME BInv, NEW i \in Ids, NEW p \in Ends, NEW last,
           cvec[i] # {} => last \in RaisedFor(p),
           Kept(matched[i], lvec[i], cvec[i], p), RaisedBy(matched[i], reported[i], p),
           NEW d \in Deliveries(Ready(lvec[i], cvec[i], evec[i], last)), d.halt \in BOOLEAN,
           NEW rp, rp = reported[i] \cup At(d, last)
    PROVE  /\ RaisedBy(matched[i], rp, p)
           /\ ~d.halt /\ Settled(matched[i], cvec[i], evec[i], reported[i], p)
              /\ Once(matched[i], evec[i], reported[i]) =>
                 \A b : /\ Settled(matched[i], {}, evec[i] \cup Marked(d), rp, b)
                        /\ Once(matched[i], evec[i] \cup Marked(d), rp)
<1>1. PICK m, lv, cv, ev, r : /\ m = matched[i] /\ lv = lvec[i] /\ cv = cvec[i]
                              /\ ev = evec[i] /\ r = reported[i]
  BY Zenon
<1>2. m \in SUBSET (LKeys \X Ends) /\ cv \in SUBSET CKeys
  BY Zenon, <1>1, DataTypes
<1>3. Kept(m, lv, cv, p) /\ RaisedBy(m, r, p) /\ (cv # {} => last \in RaisedFor(p))
      /\ d \in Deliveries(Ready(lv, cv, ev, last))
  BY Zenon, <1>1
<1>5. RaisedBy(m, r \cup At(d, last), p)
  BY Zenon, <1>2, <1>3, FlushRaises
<1>6. ~d.halt /\ Settled(m, cv, ev, r, p) /\ Once(m, ev, r) =>
         \A b : /\ Settled(m, {}, ev \cup Marked(d), r \cup At(d, last), b)
                /\ Once(m, ev \cup Marked(d), r \cup At(d, last))
  BY Zenon, <1>2, <1>3, FlushSettles
<1> QED
  BY Zenon, <1>1, <1>5, <1>6

\* Combinations that no match touched do not disturb the others.
LEMMA NegativesSettle ==
    ASSUME NEW m \in SUBSET (LKeys \X Ends), NEW lv, NEW ev, NEW rp, NEW a, NEW b,
           NEW end \in Ends, lv = Seen(m), NEW e0,
           RaisedBy(m, rp, a), Settled(m, {}, ev, rp, b), Once(m, ev, rp),
           NEW n \in Deliveries(NotMatched(lv, e0, end)), ~n.halt
    PROVE  /\ Settled(m, {}, ev \cup Marked(n), rp \cup At(n, end), b)
           /\ Once(m, ev \cup Marked(n), rp \cup At(n, end))
<1>1. /\ n.to_user = NotMatched(lv, e0, end)
      /\ Marked(n) = {c \in n.to_user : CombInfo[c].ekey}
  BY Zenon, Delivered
<1>2. \A c \in n.to_user : /\ c \in CKeys
                           /\ \A k \in Operands(c), e \in Ends : <<k, e>> \notin m
  <2> SUFFICES ASSUME NEW c \in n.to_user
               PROVE  c \in CKeys /\ \A k \in Operands(c), e \in Ends : <<k, e>> \notin m
    BY Zenon
  <2>1. c \in CKeys /\ lv \cap Operands(c) = {}
    BY Zenon, <1>1 DEF NotMatched, isPurelyNegativeMatch
  <2> QED
    BY ZenonT(30), <2>1 DEF Seen, Operands
<1>3. \A c \in n.to_user : DueAt(m, c) = {} /\ \A e \in Ends : <<c, e>> \notin rp
  BY ZenonT(30), <1>2 DEF DueAt, RaisedBy, RaisedAs
<1>4. \A c, e : <<c, e>> \in At(n, end) <=> c \in n.to_user /\ e = end
  BY Zenon DEF At
<1>5. Settled(m, {}, ev \cup Marked(n), rp \cup At(n, end), b)
  BY ZenonT(30) DEF Settled, RaisedOf
<1>6. ASSUME NEW c \in CKeys, CombInfo[c].ekey
      PROVE  /\ c \in ev \cup Marked(n) => \E e \in Ends : <<c, e>> \in rp \cup At(n, end)
             /\ \A e \in Ends : <<c, e>> \in rp \cup At(n, end) =>
                   /\ c \in ev \cup Marked(n)
                   /\ \A f \in Ends : <<c, f>> \in rp \cup At(n, end) => f = e
                   /\ \A f \in DueAt(m, c) : e =< f
  <2>1. CASE c \in n.to_user
    <3>1. DueAt(m, c) = {} /\ \A e \in Ends : <<c, e>> \notin rp
      BY Zenon, <1>3, <2>1
    <3>2. c \in Marked(n)
      BY Zenon, <1>1, <1>6, <2>1
    <3>3. \A e : <<c, e>> \in At(n, end) <=> e = end
      BY <1>4, <2>1
    <3> QED BY <3>1, <3>2, <3>3
  <2>2. CASE c \notin n.to_user
    BY ZenonT(30), <1>1, <1>4, <1>6, <2>2 DEF Once
  <2> QED BY ZenonT(30), <2>1, <2>2
<1> QED
  BY Zenon, <1>5, <1>6 DEF Once
=============================================================================
