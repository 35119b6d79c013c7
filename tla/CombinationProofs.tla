------------------------- MODULE CombinationProofs --------------------------
(***************************************************************************)
(* Combinations are raised where they are due, and none is missed.  The    *)
(* hypotheses say for which databases and which use of scratches.          *)
(***************************************************************************)
EXTENDS CombinationBase

\* Before Rose has restored the offset nothing is reported, unless the offset
\* is the data's already.
LEMMA ReportsAreCurrent ==
    ASSUME OffsetKept, NEW x \in Scratches, call[x] # NoCall, CallOK(x),
           call[x].todo # {} \/ call[x].phase \in {"body", "eod", "last"}
    PROVE  ~Unrestored(call[x]) \/ Own \/ call[x].at = 0
<1>1. CASE call[x].phase = "zero"
  BY Zenon, <1>1 DEF CallOK
<1>2. CASE call[x].phase = "boundary" /\ call[x].kind = "close"
  BY Zenon, <1>2 DEF CallOK, OffsetKept
<1> QED BY Zenon, <1>1, <1>2 DEF Unrestored

\* Every step keeps the invariant, where the offset is kept.
LEMMA StepsKept ==
    ASSUME BInv, OffsetKept, KInv, Steps
    PROVE  KInv'
\* hs_open_stream.
<1>1. ASSUME NEW s \in Streams, hs_open_stream(s), ~InCall(s)
      PROVE  KInv'
  <2> USE <1>1
  <2>1. s \in Ids /\ ScrOf(s) = ScratchOf[s] /\ IdOK(s)
    BY Zenon, StreamFacts
  <2>2. life'[s] = "open" /\ life[s] = "new" /\ \A j \in Ids \ {s} : life'[j] = life[j]
    BY Zenon, <2>1 DEF hs_open_stream, BInv, TypeOK
  <2>3. UNCHANGED <<offset, status, lvec, cvec, evec, lastCombMatchOffset, call,
                    matched, reported>>
    BY Zenon DEF hs_open_stream
  <2>4. ~InCall(s)
    BY Zenon
  <2>5. \A x \in Scratches : LastOK(x)'
    BY Zenon, <2>3 DEF KInv, LastOK, Base, Unrestored, ByRose, Skipped
  <2>6. ASSUME NEW j \in Ids PROVE IdleOK(j)' /\ LiveOK(j)' /\ OverOK(j)'
    <3>1. IdleOK(j) /\ LiveOK(j) /\ OverOK(j)
      BY Zenon DEF KInv
    <3>2. /\ InCall(j)' <=> InCall(j)
          /\ Position(j)' = Position(j)
          /\ Flushing(j)' <=> Flushing(j)
      BY Zenon, <2>3 DEF InCall, Position, Flushing, ScrOf
    <3>3. CASE j # s
      <4>1. Waiting(j)' <=> Waiting(j)
        BY Zenon, <2>2, <2>3, <3>2, <3>3 DEF Waiting
      <4>2. IdleOK(j)'
        BY Zenon, <2>3, <3>1, <4>1 DEF IdleOK, ScrOf
      <4>3. LiveOK(j)'
        <5> SUFFICES ASSUME NEW p \in Ends, Stage(j, p) PROVE Stage(j, p)'
          BY Zenon, <3>1, <3>2, <4>1 DEF LiveOK
        <5>1. Pending(j, p)'
          BY Zenon, <2>3, <3>2, <4>1 DEF Stage, Pending, Current, Restores, Unrestored, ScrOf
        <5> QED BY Zenon, <2>3, <3>2, <5>1, StageStays
      <4>4. OverOK(j)'
        BY Zenon, <2>3, <3>1, <3>2, <4>1, OverStays
      <4> QED BY Zenon, <4>2, <4>3, <4>4
    <3>4. CASE j = s
      <4>1. Waiting(s)' /\ offset[s] = 0
        BY Zenon, <2>1, <2>2, <2>3, <2>4, <3>2, <3>4 DEF Waiting, IdOK
      <4>2. /\ matched[s] = {} /\ cvec[s] = {} /\ evec[s] = {} /\ reported[s] = {}
            /\ lvec[s] = {}
        BY ZenonT(30), <2>1, <2>2, SeenNone DEF IdOK
      <4>3. Position(s)' \in Ends
        <5>1. Position(s)' = 0
          BY Zenon, <2>3, <2>4, <3>2, <3>4, <4>1 DEF Position
        <5> QED BY <5>1, CombinationAssumption DEF Ends
      <4>4. LiveOK(s)'
        BY Zenon, <2>3, <4>2, <4>3, FreshStage
      <4> QED
        BY <2>3, <3>4, <4>1, <4>4 DEF IdleOK, OverOK
    <3> QED BY Zenon, <3>3, <3>4
  <2> QED
    BY Zenon, <2>5, <2>6 DEF KInv
\* hs_close_stream of a broken stream.
<1>2. ASSUME NEW s \in Streams, OnlyHere(s, ScratchOf[s]), Breaks(s)
      PROVE  KInv'
  <2> USE <1>2
  <2>1. PICK x \in Scratches : x = ScratchOf[s]
    BY Zenon, StreamFacts
  <2>2. s \in Ids /\ ScrOf(s) = x /\ OverOK(s)
    BY Zenon, <2>1, StreamFacts DEF KInv
  <2>3. /\ OnlyHere(s, x) /\ call[x] = NoCall /\ status[s] # {}
        /\ UNCHANGED <<offset, status, lvec, cvec, evec, matched, reported, call,
                       lastCombMatchOffset>>
    BY Zenon, <2>1 DEF Breaks
  <2>4. ~InCall(s) /\ ~InCall(s)' /\ ~Waiting(s) /\ ~Waiting(s)'
    BY Zenon, <2>2, <2>3 DEF InCall, Waiting
  <2>5. LastOK(x)' /\ IdleOK(s)' /\ LiveOK(s)'
    BY Zenon, <2>3, <2>4 DEF LastOK, IdleOK, LiveOK
  <2>6. OverOK(s)'
    BY Zenon, <2>2, <2>3, <2>4, OverStays
  <2> QED
    BY Zenon, <2>3, <2>5, <2>6, KeptStep
\* hs_scan_stream and hs_close_stream keep it as they begin: on the first write
\* the offset is set to 0, later it is the stream's own or Rose's to restore.
<1>3. ASSUME NEW s \in Streams, OnlyHere(s, ScratchOf[s]), NEW c, Begins(s, c)
      PROVE  KInv'
  <2> USE <1>3
  <2>1. PICK x \in Scratches : x = ScratchOf[s]
    BY Zenon, StreamFacts
  <2>2. s \in Ids /\ ScrOf(s) = x /\ IdOK(s) /\ IdleOK(s) /\ LiveOK(s) /\ offset[s] \in Nat
    BY Zenon, <2>1, StreamFacts DEF KInv
  <2>3. /\ call[x] = NoCall /\ call'[x] = c /\ c # NoCall /\ c.id = s /\ c.at = offset[s]
        /\ lastCombMatchOffset'[x] = IF offset[s] = 0 THEN 0 ELSE lastCombMatchOffset[x]
        /\ Unrestored(c) /\ c.phase # "body" /\ c.phase # "last"
        /\ UNCHANGED <<life, offset, status, lvec, cvec, evec, matched, reported>>
        /\ life[s] = "open" /\ status[s] = {}
    BY ZenonT(30), <2>1, CombinationAssumption DEF Begins, Unrestored
  <2>4. ~InCall(s) /\ InCall(s)' /\ Waiting(s) /\ ~Waiting(s)'
    BY ZenonT(30), <2>2, <2>3 DEF InCall, Waiting
  <2>5. LastOK(x)'
    <3>1. offset[s] # 0 /\ Own => lastCombMatchOffset[x] =< offset[s]
      BY <2>2, <2>4 DEF IdleOK
    <3> QED
      BY <2>2, <2>3, <3>1 DEF LastOK
  <2>6. IdleOK(s)' /\ OverOK(s)'
    BY Zenon, <2>4 DEF IdleOK, OverOK
  <2>7. PICK p \in Ends : Stage(s, p)
    BY Zenon, <2>2, <2>4 DEF LiveOK
  <2>8. Position(s) = offset[s] /\ Position(s)' = offset[s] /\ ~Flushing(s)
    BY Zenon, <2>2, <2>3, <2>4 DEF Position, Flushing
  <2>9. offset[s] = 0 => cvec[s] = {}
    <3>1. offset[s] = 0 => matched[s] = {}
      BY Zenon, <2>2, <2>4 DEF IdOK
    <3>2. cvec[s] \subseteq Touched(matched[s], p)
      BY Zenon, <2>7 DEF Stage, Kept
    <3> QED BY Zenon, <3>1, <3>2 DEF Touched
  <2>10. Pending(s, p)'
    <3> SUFFICES ASSUME cvec[s] # {}
                 PROVE  /\ Current(s)' => lastCombMatchOffset'[x] \in RaisedFor(p)
                        /\ Restores(s)' => p = Position(s)'
      BY Zenon, <2>2, <2>3 DEF Pending, ScrOf
    <3>1. /\ Current(s) => lastCombMatchOffset[x] \in RaisedFor(p)
          /\ Restores(s) => p = Position(s)
      BY Zenon, <2>2, <2>7 DEF Stage, Pending
    <3>2. Current(s)' => Own
      BY Zenon, <2>2, <2>3, <2>9 DEF Current, ScrOf
    <3>3. Own => Current(s)
      BY Zenon DEF Current
    <3>4. Restores(s)' => Restores(s)
      BY Zenon, <2>4, <2>8 DEF Restores
    <3> QED BY Zenon, <2>3, <2>8, <2>9, <3>1, <3>2, <3>3, <3>4
  <2>11. LiveOK(s)'
    <3>1. Stage(s, p)'
      BY Zenon, <2>3, <2>7, <2>8, <2>10, StageStays
    <3> QED BY Zenon, <3>1 DEF LiveOK
  <2> QED
    BY Zenon, <2>1, <2>5, <2>6, <2>11, KeptStep
\* hs_scan.
<1>4. ASSUME NEW x \in Scratches, NEW len, OnlyHere(x, x), ScanStarts(x, len)
      PROVE  KInv'
  <2> USE <1>4
  <2>1. x \in Ids /\ ScrOf(x) = x /\ NoCall \notin Calls
    BY Zenon, CombinationAssumption DEF Ids, ScrOf
  <2>2. /\ matched'[x] = {} /\ lvec'[x] = {} /\ cvec'[x] = {} /\ evec'[x] = {}
        /\ reported'[x] = {} /\ call[x] = NoCall
    BY Zenon DEF ScanStarts
  <2>4. OverOK(x)'
    BY Zenon, <2>2, Fresh DEF OverOK
  <2>5. LastOK(x)' /\ IdleOK(x)' /\ LiveOK(x)'
    <3>1. CASE call'[x] = NoCall
      <4>1. life'[x] = "closed"
        BY ZenonT(30), <2>1, <3>1 DEF ScanStarts
      <4>2. ~InCall(x)' /\ ~Waiting(x)'
        BY Zenon, <2>1, <3>1, <4>1 DEF InCall, Waiting
      <4> QED
        BY Zenon, <3>1, <4>2 DEF LastOK, IdleOK, LiveOK
    <3>2. CASE call'[x] # NoCall
      <4>1. /\ lastCombMatchOffset'[x] = 0 /\ call'[x].at = 0 /\ call'[x].id = x
            /\ call'[x].phase # "body"
        BY Zenon, <2>2, <3>2 DEF ScanStarts
      <4>2. InCall(x)' /\ Position(x)' = 0
        BY Zenon, <2>1, <3>2, <4>1 DEF InCall, Position
      <4>3. Position(x)' \in Ends
        BY <4>2, CombinationAssumption DEF Ends
      <4>4. LiveOK(x)'
        BY Zenon, <2>2, <4>3, FreshStage
      <4> QED
        BY <2>2, <3>2, <4>1, <4>2, <4>4 DEF LastOK, IdleOK, Waiting
    <3> QED BY Zenon, <3>1, <3>2
  <2> QED
    BY Zenon, <2>4, <2>5, KeptStep
\* Report keeps it, with or without the flush and wherever a callback stops.
<1>5. ASSUME NEW x \in Scratches, NEW l, NEW e, NEW a, NEW d, NEW stop,
             OnlyHere(call[x].id, x), TypeOK', Reporting(x, l, e, a),
             Outcome(x, l, e, a, d, stop)
      PROVE  KInv'
  <2> USE <1>5
  <2>0. PICK i \in Ids : i = call[x].id
    BY Zenon, InCallFacts DEF Reporting
  <2>1. /\ call[x] \in Calls /\ ScrOf(i) = x /\ CallOK(x) /\ InCall(i)
        /\ call[x] # NoCall /\ call[x].phase # "last" /\ l \in LKeys /\ e \in Ends
        /\ call[x].at =< e /\ e =< call[x].end /\ status[i] = {}
        /\ call[x].phase # "body" => e = call[x].at
        /\ call[x].todo # {} \/ call[x].phase \in {"body", "eod"}
        /\ call[x].phase = "body" => e =< AnchoredDistance
        /\ a \in Adjustments /\ e + a \in Ends
        /\ LastOK(x) /\ LiveOK(i)
    BY Zenon, <2>0, InCallFacts DEF Reporting, CallOK, KInv
  <2>2. OnlyHere(i, x)
    BY Zenon, <2>0
  <2>4. PICK last \in Ends : last = lastCombMatchOffset[x]
    BY Zenon, <2>1, InCallFacts
  <2>5. PICK p \in Ends : Stage(i, p)
    BY Zenon, <2>1 DEF LiveOK
  <2>6. /\ matched[i] \in SUBSET (LKeys \X Ends) /\ reported[i] \in SUBSET (CKeys \X Ends)
        /\ cvec[i] \in SUBSET CKeys /\ call[x].at \in Nat /\ last \in Nat /\ p \in Nat
        /\ e \in Nat /\ reported'[i] \in SUBSET (CKeys \X Ends)
        /\ cvec'[i] \in SUBSET CKeys
    <3>1. call[x].at \in Nat
      BY <2>1 DEF Calls
    <3>2. reported'[i] \in SUBSET (CKeys \X Ends) /\ cvec'[i] \in SUBSET CKeys
      BY Zenon DEF TypeOK, Ends
    <3> QED
      BY <2>1, <2>4, <2>5, <3>1, <3>2, DataTypes DEF Ends
  \* The offset in the scratch is that of the data, and not ahead of the scan.
  <2>7. Current(i) /\ last =< call[x].at
    <3>1. ~Unrestored(call[x]) \/ Own \/ call[x].at = 0
      BY Zenon, <2>1, ReportsAreCurrent
    <3> QED
      BY Zenon, <3>1, <2>1, <2>4 DEF LastOK, Current
  <2>8. cvec[i] # {} => /\ last \in RaisedFor(p) /\ last =< p
                        /\ (Adjustments = {0} => last = p)
    <3> SUFFICES ASSUME cvec[i] # {}
                 PROVE  last \in RaisedFor(p) /\ last =< p /\ (Adjustments = {0} => last = p)
      BY Zenon
    <3>1. last \in RaisedFor(p)
      BY Zenon, <2>1, <2>4, <2>5, <2>7 DEF Stage, Pending
    <3>2. last =< p /\ (Adjustments = {0} => RaisedFor(p) = {p})
      BY Zenon, <3>1, RaisedNear
    <3> QED BY Zenon, <3>1, <3>2
  <2>9. p =< call[x].at /\ p =< e
    <3>1. p =< call[x].at
      BY Zenon, <2>1, <2>5 DEF Stage, Position
    <3> QED BY <3>1, <2>1, <2>6
  <2>10. /\ Kept(matched[i], lvec[i], cvec[i], p) /\ RaisedBy(matched[i], reported[i], p)
         /\ Settled(matched[i], cvec[i], evec[i], reported[i], p)
         /\ Once(matched[i], evec[i], reported[i])
         /\ Adjustments = {0} /\ p = call[x].at => Waits(matched[i], cvec[i], reported[i], p)
    BY Zenon, <2>1, <2>5 DEF Stage, Position, Flushing
  <2>11. PICK cv \in SUBSET CKeys : cv = IF e > last /\ ~d.halt THEN {} ELSE cvec[i]
    BY Zenon, <2>6
  <2>17. PICK ev, rp : ev = evec[i] \cup Marked(d) /\ rp = reported[i] \cup At(d, last)
    BY Zenon
  <2>16. d.halt \in BOOLEAN
    BY Zenon, <1>5 DEF Outcome
  \* After the flush, if there is one.
  <2>12. /\ Kept(matched[i], lvec[i], cv, p) /\ RaisedBy(matched[i], rp, p)
         /\ ~d.halt => /\ Settled(matched[i], cv, ev, rp, p) /\ Once(matched[i], ev, rp)
                       /\ e > p => cv = {}
                       /\ Adjustments = {0} /\ e = p => Waits(matched[i], cv, rp, p)
    <3>1. CASE e > last
      <4>1. d \in Deliveries(Ready(lvec[i], cvec[i], evec[i], last))
        BY Zenon, <2>0, <1>5, <2>4, <3>1 DEF Outcome
      <4>2. /\ RaisedBy(matched[i], rp, p)
            /\ ~d.halt => Settled(matched[i], {}, ev, rp, p) /\ Once(matched[i], ev, rp)
        BY ZenonT(30), <2>8, <2>10, <2>17, <2>16, <4>1, FlushHere
      <4>4. Kept(matched[i], lvec[i], cv, p)
        BY Zenon, <2>10, <2>11 DEF Kept
      <4>5. ~d.halt => cv = {}
        BY Zenon, <2>11, <3>1
      <4>6. ~d.halt /\ Adjustments = {0} /\ e = p => Waits(matched[i], cv, rp, p)
        <5> SUFFICES ASSUME ~d.halt, Adjustments = {0}, e = p
                     PROVE  Waits(matched[i], cv, rp, p)
          BY Zenon
        <5>1. p = call[x].at
          BY <2>1, <2>6, <2>9
        <5>2. cvec[i] = {}
          <6>1. last # p
            BY <3>1, <2>6
          <6> QED BY Zenon, <2>8, <6>1
        <5>3. cv = cvec[i] /\ rp = reported[i]
          BY Zenon, <2>11, <2>17, <4>1, <5>2, FlushNone, NothingDelivered
        <5> QED BY Zenon, <2>10, <5>1, <5>3
      <4> QED
        BY Zenon, <4>2, <4>4, <4>5, <4>6
    <3>2. CASE ~(e > last)
      <4>1. d = Nothing
        BY ZenonT(30), <2>0, <1>5, <2>4, <3>2 DEF Outcome
      <4>2. cv = cvec[i] /\ rp = reported[i] /\ ev = evec[i]
        BY Zenon, <4>1, <3>2, <2>11, <2>17, NothingDelivered
      <4>3. call[x].at = e /\ (e > p => ~(last =< p))
        BY <2>1, <2>6, <2>7, <3>2
      <4>4. e > p => cv = {}
        BY Zenon, <2>8, <4>2, <4>3
      <4> QED
        BY Zenon, <2>10, <4>2, <4>3, <4>4
    <3> QED BY Zenon, <3>1, <3>2
  <2>13. /\ reported'[i] = rp /\ evec'[i] = ev /\ stop \in BOOLEAN /\ (d.halt => stop)
         /\ d.halt \in BOOLEAN
         /\ cvec'[i] = cv \cup (IF stop THEN {} ELSE {c \in CKeys : l \in Operands(c)})
    BY ZenonT(30), <2>0, <1>5, <2>4, <2>11, <2>17 DEF Outcome
  <2>14. CASE ~stop
    <3>1. /\ lvec'[i] = lvec[i] \cup {l} /\ matched'[i] = matched[i] \cup {<<l, e>>}
          /\ lastCombMatchOffset'[x] = e + a /\ call'[x] \in Calls /\ call'[x].id = i
          /\ call'[x].kind = call[x].kind /\ call'[x].phase = call[x].phase
          /\ call'[x].at = e /\ status'[i] = status[i]
      BY ZenonT(30), <2>0, <1>5, <2>14 DEF Outcome
    <3>2. InCall(i)' /\ ~Waiting(i)' /\ call'[x] # NoCall
      BY Zenon, <2>1, <3>1, CombinationAssumption DEF InCall, Waiting
    <3>3. IdleOK(i)' /\ OverOK(i)'
      BY Zenon, <3>2 DEF IdleOK, OverOK
    <3>15. e + a =< e /\ e + a \in RaisedFor(e)
           /\ (call[x].phase = "body" => e + a =< AnchoredDistance)
      <4>1. a \in {-1, 0}
        BY Zenon, <2>1, Adjusts
      <4>2. e + a \in RaisedFor(e)
        BY Zenon, <2>1, RaisedNear
      <4> QED BY <4>1, <4>2, <2>1, <2>6, CombinationAssumption
    <3>4. LastOK(x)'
      BY Zenon, <3>1, <3>15 DEF LastOK
    <3>5. Position(i)' = e /\ Pending(i, e)' /\ e =< e
      <4>1. Position(i)' = e
        BY Zenon, <2>1, <3>1, <3>2 DEF Position, ScrOf
      <4>2. Pending(i, e)'
        BY Zenon, <2>1, <3>1, <3>15, <4>1 DEF Pending, ScrOf
      <4> QED BY <4>1, <4>2, <2>6
    <3>6. PICK n, w : n = matched[i] \cup {<<l, e>>}
                      /\ w = cv \cup {c \in CKeys : l \in Operands(c)}
      BY ZenonT(30)
    <3>10. /\ Kept(matched[i], lvec[i], cv, p) /\ RaisedBy(matched[i], rp, p)
           /\ Settled(matched[i], cv, ev, rp, p) /\ Once(matched[i], ev, rp)
           /\ e > p => cv = {}
           /\ Adjustments = {0} /\ e = p => Waits(matched[i], cv, rp, p)
      BY Zenon, <2>12, <2>13, <2>14
    <3>11. matched[i] \in SUBSET (LKeys \X Ends) /\ l \in LKeys /\ e \in Ends /\ p =< e
      BY Zenon, <2>1, <2>6, <2>9
    <3>12. PICK m, lv : m = matched[i] /\ lv = lvec[i]
      BY Zenon
    <3>13. /\ Kept(m, lv, cv, p) /\ RaisedBy(m, rp, p) /\ m \in SUBSET (LKeys \X Ends)
           /\ e > p => cv = {}
           /\ Adjustments = {0} /\ e = p => Waits(m, cv, rp, p)
           /\ n = m \cup {<<l, e>>} /\ w = cv \cup {c \in CKeys : l \in Operands(c)}
      BY Zenon, <3>6, <3>10, <3>11, <3>12
    <3>14. Settled(m, cv, ev, rp, p) /\ Once(m, ev, rp)
      BY Zenon, <3>10, <3>12
    <3>7. /\ Kept(n, lvec[i] \cup {l}, w, e) /\ RaisedBy(n, rp, e)
          /\ Adjustments = {0} => Waits(n, w, rp, e)
      <4>1. /\ Kept(n, lv \cup {l}, w, e) /\ RaisedBy(n, rp, e)
            /\ Adjustments = {0} => Waits(n, w, rp, e)
        BY SMTT(30), <3>11, <3>13, MatchKept
      <4> QED BY Zenon, <3>12, <4>1
    <3>8. Settled(n, w, ev, rp, e) /\ Once(n, ev, rp)
      BY SMTT(30), <3>11, <3>13, <3>14, MatchSettled
    <3>9. LiveOK(i)'
      <4>1. /\ matched'[i] = n /\ lvec'[i] = lvec[i] \cup {l} /\ cvec'[i] = w
            /\ evec'[i] = ev /\ reported'[i] = rp
        BY ZenonT(30), <2>13, <2>14, <3>1, <3>6
      <4>2. Stage(i, e)'
        BY Zenon, <3>5, <3>7, <3>8, <4>1 DEF Stage
      <4> QED BY Zenon, <2>1, <4>2 DEF LiveOK
    <3> QED
      BY Zenon, <2>2, <3>3, <3>4, <3>9, KeptStep
  <2>15. CASE stop
    <3>1. /\ lvec'[i] = lvec[i] /\ matched'[i] = matched[i] /\ cvec'[i] = cv
          /\ lastCombMatchOffset'[x] = last /\ "TERMINATED" \in status'[i]
      BY ZenonT(30), <2>0, <1>5, <2>4, <2>13, <2>15 DEF Outcome
    <3>2. CASE call'[x] = NoCall
      <4>1. ~InCall(i)' /\ ~Waiting(i)'
        BY ZenonT(30), <2>1, <3>1, <3>2 DEF InCall, Waiting
      <4>2. IdleOK(i)' /\ LiveOK(i)' /\ LastOK(x)'
        BY Zenon, <3>2, <4>1 DEF IdleOK, LiveOK, LastOK
      <4>3. \A r \in reported'[i] : Allowed(i, r[1], r[2])'
        BY ZenonT(30), <2>6, <2>12, <2>13, <3>1, RaisedAllowed
      <4>4. OverOK(i)'
        BY Zenon, <3>1, <4>3 DEF OverOK
      <4> QED
        BY Zenon, <2>2, <4>2, <4>4, KeptStep
    <3>3. CASE call'[x] # NoCall
      <4>1. /\ call[x].kind = "block" /\ call[x].phase \in {"zero", "boundary"}
            /\ call'[x].id = i /\ call'[x].kind = "block" /\ call'[x].phase = "last"
            /\ call'[x].at = call[x].at
        BY ZenonT(30), <2>0, <1>5, <2>15, <3>3 DEF Outcome
      <4>2. InCall(i)' /\ ~Waiting(i)' /\ Flushing(i)' /\ Position(i)' = call[x].at
        BY ZenonT(30), <2>1, <3>3, <4>1 DEF InCall, Waiting, Flushing, Position
      <4>3. IdleOK(i)' /\ OverOK(i)'
        BY Zenon, <4>2 DEF IdleOK, OverOK
      <4>4. LastOK(x)'
        BY Zenon, <2>7, <3>1, <4>1 DEF LastOK, Unrestored
      <4>5. Pending(i, p)'
        <5>1. cv # {} => cvec[i] # {}
          BY Zenon, <2>11
        <5>2. ~Restores(i)'
          BY Zenon, <2>1, <4>1, <4>2 DEF Restores, Unrestored, ScrOf
        <5> QED BY Zenon, <2>1, <2>8, <3>1, <5>1, <5>2 DEF Pending, ScrOf
      <4>6. Stage(i, p)'
        BY Zenon, <2>9, <2>12, <2>13, <3>1, <4>2, <4>5 DEF Stage
      <4>10. LiveOK(i)'
        BY Zenon, <4>6 DEF LiveOK
      <4> QED
        BY Zenon, <2>2, <4>3, <4>4, <4>10, KeptStep
    <3> QED BY Zenon, <3>2, <3>3
  <2> QED
    BY Zenon, <2>13, <2>14, <2>15
\* A change of phase keeps it: Rose restores the offset to where the
\* combinations wait, and the last flush comes with the offset still right.
<1>6. ASSUME NEW x \in Scratches, NEW phase, OnlyHere(call[x].id, x), Moves(x, phase)
      PROVE  KInv'
  <2> USE <1>6
  <2>0. PICK i \in Ids : i = call[x].id
    BY ZenonT(30), InCallFacts DEF Moves
  <2>1. /\ ScrOf(i) = x /\ CallOK(x) /\ InCall(i) /\ call[x] \in Calls
        /\ LastOK(x) /\ LiveOK(i) /\ call[x] # NoCall
    BY ZenonT(30), <2>0, InCallFacts DEF Moves, KInv
  <2>2. /\ call'[x] # NoCall /\ call'[x].id = i /\ call'[x].kind = call[x].kind
        /\ call'[x].at = call[x].at /\ call'[x].end = call[x].end /\ call'[x].phase = phase
        /\ UNCHANGED <<life, offset, status, lvec, cvec, evec, matched, reported>>
    BY Zenon, <2>0, CombinationAssumption DEF Moves
  <2>3. InCall(i)' /\ ~Waiting(i)'
    BY ZenonT(30), <2>1, <2>2 DEF InCall, Waiting
  <2>4. IdleOK(i)' /\ OverOK(i)'
    BY Zenon, <2>3 DEF IdleOK, OverOK
  <2>5. /\ call[x].at \in Nat /\ call[x].end \in Nat /\ call[x].end =< MaxOffset
        /\ call[x].at \in Ends /\ call[x].at =< call[x].end
        /\ call[x].kind \in {"scan", "close", "block"}
        /\ call[x].phase \in {"zero", "body", "eod", "boundary", "last"}
    <3>1. call[x].at =< call[x].end
      BY Zenon, <2>1 DEF CallOK
    <3> QED BY <2>1, <3>1 DEF Calls, Ends
  <2>6. /\ ~Unrestored(call'[x]) /\ call[x].phase # "last"
        /\ Position(i) = call[x].at /\ Position(i)' = Position(i)
    BY Zenon, <2>1, <2>2, <2>3, <2>5 DEF Unrestored, Moves, Position, CallOK
  \* What the lengths of the data say of the skipped scans.
  <2>7. /\ Rose /\ ~Skipped(x) => call[x].at =< MaxBiAnchoredWidth
        /\ Skipped(x) /\ call[x].kind # "block" => Own
        /\ ~Rose => Own
    <3>1. /\ call[x].kind = "block" /\ ~Skipped(x) => ~(call[x].end > MaxBiAnchoredWidth)
          /\ call[x].kind # "block" =>
                (Skipped(x) <=> Rose /\ call[x].end > MaxBiAnchoredWidth)
      BY Zenon DEF Skipped, Rose
    <3>2. MaxBiAnchoredWidth \in Nat /\ MaxOffset \in Nat
      BY CombinationAssumption
    <3>3. Own \/ (Rose /\ MaxOffset =< MaxBiAnchoredWidth)
      BY Zenon DEF OffsetKept
    <3>4. ~(call[x].end > MaxBiAnchoredWidth) => call[x].at =< MaxBiAnchoredWidth
      BY <2>5, <3>2
    <3>5. MaxOffset =< MaxBiAnchoredWidth => ~(call[x].end > MaxBiAnchoredWidth)
      BY <2>5, <3>2
    <3> QED BY Zenon, <3>1, <3>3, <3>4, <3>5
  \* Either the offset is restored, or it is the data's and stays.
  <2>8. \/ lastCombMatchOffset'[x] = call[x].at /\ Restores(i)
        \/ /\ lastCombMatchOffset'[x] = lastCombMatchOffset[x]
           /\ ~Unrestored(call[x]) \/ Own \/ call[x].at = 0
    <3>0. Rose /\ ~Skipped(x) /\ Unrestored(call[x]) => Restores(i)
      BY Zenon, <2>1, <2>6, <2>7 DEF Restores
    <3>1. CASE call[x].phase = "zero"
      <4>1. lastCombMatchOffset'[x] = IF ByRose(x) THEN call[x].at ELSE lastCombMatchOffset[x]
        BY Zenon, <3>1 DEF Moves
      <4>2. ByRose(x) => Rose /\ ~Skipped(x)
        BY Zenon DEF ByRose, Rose
      <4>3. ~ByRose(x) => ~Rose \/ Skipped(x) \/ call[x].kind = "block"
        BY Zenon DEF ByRose, Rose
      <4>4. call[x].kind = "block" => call[x].at = 0
        BY Zenon, <2>1, <3>1 DEF CallOK
      <4>5. Unrestored(call[x])
        BY Zenon, <3>1 DEF Unrestored
      <4> QED BY Zenon, <2>7, <3>0, <4>1, <4>2, <4>3, <4>4, <4>5
    <3>2. CASE call[x].phase = "boundary" /\ call[x].kind = "close"
      <4>1. /\ phase = (IF call[x].end > 0 /\ RequiresEodCheck /\ ~Skipped(x)
                        THEN "eod" ELSE "last")
            /\ lastCombMatchOffset'[x] = IF phase = "eod" /\ Rose THEN call[x].end
                                         ELSE lastCombMatchOffset[x]
        BY Zenon, <3>2 DEF Moves
      <4>2. call[x].at = call[x].end /\ Unrestored(call[x]) /\ (Own \/ RequiresEodCheck)
        BY Zenon, <2>1, <3>2 DEF CallOK, Unrestored, OffsetKept
      <4>3. ~(call[x].end > 0) => call[x].at = 0
        BY <2>5, <4>2
      <4>4. CASE phase = "eod" /\ Rose
        BY Zenon, <3>0, <4>1, <4>2, <4>4
      <4>5. CASE ~(phase = "eod" /\ Rose)
        BY Zenon, <2>7, <3>2, <4>1, <4>2, <4>3, <4>5
      <4> QED BY Zenon, <4>4, <4>5
    <3>3. CASE call[x].phase = "boundary" /\ call[x].kind # "close"
      BY ZenonT(30), <3>3, <2>5 DEF Moves, Unrestored
    <3>4. CASE call[x].phase = "eod"
      BY Zenon, <3>4 DEF Moves, Unrestored
    <3> QED BY Zenon, <3>1, <3>2, <3>3, <3>4 DEF Moves
  <2>9. LastOK(x)'
    <3>1. phase = "body" /\ ByRose(x)' => lastCombMatchOffset'[x] = call[x].at /\ call[x].phase = "zero"
      <4>1. ByRose(x)' <=> ByRose(x)
        BY Zenon, <2>2 DEF ByRose, Skipped
      <4> QED BY Zenon, <4>1 DEF Moves
    <3>2. call[x].phase = "zero" => Base(x)' = call[x].at
      BY ZenonT(30), <2>0, <2>1, <2>2, <2>5 DEF Base, CallOK
    <3>3. phase = "body" /\ ByRose(x)' => lastCombMatchOffset'[x] =< Base(x)'
      BY <3>1, <3>2, <2>5
    <3>4. lastCombMatchOffset'[x] =< call[x].at
      <4>1. call[x].at =< call[x].at
        BY <2>5
      <4> QED BY Zenon, <2>1, <2>8, <4>1 DEF LastOK
    <3> QED
      BY Zenon, <2>2, <3>3, <3>4 DEF LastOK
  <2>10. LiveOK(i)'
    <3>1. PICK p \in Ends : Stage(i, p)
      BY Zenon, <2>1 DEF LiveOK
    <3>2. Pending(i, p)'
      <4> SUFFICES ASSUME cvec[i] # {} PROVE lastCombMatchOffset'[x] \in RaisedFor(p) /\ ~Restores(i)'
        BY Zenon, <2>1, <2>2 DEF Pending, ScrOf
      <4>1. /\ Current(i) => lastCombMatchOffset[x] \in RaisedFor(p)
            /\ Restores(i) => p = call[x].at
        BY Zenon, <2>1, <2>6, <3>1 DEF Stage, Pending
      <4>2. p \in RaisedFor(p)
        BY Zenon, RaisedNear
      <4>3. ~Unrestored(call[x]) \/ Own \/ call[x].at = 0 => Current(i)
        BY Zenon, <2>1 DEF Current
      <4>4. ~Restores(i)'
        BY Zenon, <2>1, <2>3, <2>6 DEF Restores, ScrOf
      <4> QED BY Zenon, <2>8, <4>1, <4>2, <4>3, <4>4
    <3>3. ~Flushing(i)
      BY Zenon, <2>1, <2>6 DEF Flushing
    <3>4. Stage(i, p)'
      BY Zenon, <2>2, <2>6, <3>1, <3>2, <3>3, StageStays
    <3> QED
      BY Zenon, <3>4 DEF LiveOK
  <2> QED
    BY Zenon, <2>0, <2>4, <2>9, <2>10, KeptStep
\* The end of the data keeps it.
<1>7. ASSUME NEW x \in Scratches, NEW d, OnlyHere(call[x].id, x), TypeOK', Ended(x, d)
      PROVE  KInv'
  <2> USE <1>7
  <2>0. PICK i \in Ids : i = call[x].id /\ call[x] # NoCall
    BY Zenon, InCallFacts DEF Ended
  <2>1. /\ ScrOf(i) = x /\ CallOK(x) /\ InCall(i) /\ NoCall \notin Calls
        /\ call[x] \in Calls /\ LastOK(x) /\ LiveOK(i) /\ call[x].phase = "body"
        /\ status[i] = {} /\ call[x].kind \in {"scan", "close", "block"}
    BY ZenonT(30), <2>0, InCallFacts, CombinationAssumption DEF KInv, Ended, CallOK, Calls
  <2>2. PICK last \in Ends : last = lastCombMatchOffset[x]
    BY ZenonT(30), <2>0, InCallFacts
  <2>3. PICK end \in Ends : end = call[x].end
    BY Zenon, <2>1 DEF Calls, Ends
  <2>4. /\ last =< call[x].at /\ call[x].at =< end /\ call[x].at \in Nat /\ last \in Nat
        /\ end \in Nat /\ last =< end
    BY <2>0, <2>1, <2>2, <2>3, CombinationAssumption DEF LastOK, Unrestored, CallOK, Calls, Ends
  <2>5. PICK p \in Ends : Stage(i, p)
    BY Zenon, <2>1 DEF LiveOK
  <2>16. Position(i) = call[x].at /\ ~Flushing(i) /\ Current(i)
    BY Zenon, <2>1 DEF Current, Unrestored, Position, Flushing
  <2>17. /\ cvec[i] # {} => /\ last \in RaisedFor(p) /\ last =< p
                            /\ (Adjustments = {0} => last = p)
         /\ p =< call[x].at /\ p \in Nat /\ p =< end
    <3>1. cvec[i] # {} => last \in RaisedFor(p)
      BY Zenon, <2>1, <2>2, <2>5, <2>16 DEF Stage, Pending
    <3>2. last \in RaisedFor(p) => last =< p /\ (Adjustments = {0} => last \in {p})
      BY Zenon, RaisedNear
    <3>3. p =< call[x].at
      BY Zenon, <2>5, <2>16 DEF Stage
    <3>4. p \in Nat /\ p =< end
      BY <2>4, <3>3 DEF Ends
    <3> QED BY Zenon, <3>1, <3>2, <3>3, <3>4
  <2>6. /\ Kept(matched[i], lvec[i], cvec[i], p) /\ RaisedBy(matched[i], reported[i], p)
        /\ Settled(matched[i], cvec[i], evec[i], reported[i], p)
        /\ Once(matched[i], evec[i], reported[i])
        /\ Adjustments = {0} /\ p = call[x].at => Waits(matched[i], cvec[i], reported[i], p)
    BY ZenonT(30), <2>1, <2>5, <2>16 DEF Stage
  <2>7. /\ matched'[i] = matched[i] /\ lvec'[i] = lvec[i]
        /\ lastCombMatchOffset'[x] = last /\ d.halt \in BOOLEAN
        /\ reported'[i] = reported[i] \cup At(d, last)
        /\ evec'[i] = evec[i] \cup Marked(d)
        /\ cvec'[i] = IF ByRose(x) /\ end > last /\ ~d.halt THEN {} ELSE cvec[i]
        /\ d \in (IF ByRose(x) /\ end > last
                  THEN Deliveries(Ready(lvec[i], cvec[i], evec[i], last)) ELSE {Nothing})
    BY ZenonT(30), <2>0, <2>2, <2>3 DEF Ended
  <2>8. /\ reported'[i] \in SUBSET (CKeys \X Ends)
        /\ matched[i] \in SUBSET (LKeys \X Ends) /\ cvec'[i] \in SUBSET CKeys
    BY ZenonT(30), DataTypes DEF TypeOK, Ends
  <2>9. PICK cv, ev, rp : cv = cvec'[i] /\ ev = evec'[i] /\ rp = reported'[i]
    BY Zenon
  <2>10. /\ RaisedBy(matched[i], rp, p) /\ Kept(matched[i], lvec[i], cv, p)
         /\ ~d.halt => Settled(matched[i], cv, ev, rp, p) /\ Once(matched[i], ev, rp)
         /\ ~d.halt /\ ByRose(x) /\ end > last => cv = {} /\ Settled(matched[i], {}, ev, rp, 0)
         /\ Adjustments = {0} /\ p = end => Waits(matched[i], cv, rp, p)
    <3>0. p = end => p = call[x].at
      BY <2>4, <2>17
    <3>1. CASE ByRose(x) /\ end > last
      <4>1. d \in Deliveries(Ready(lvec[i], cvec[i], evec[i], last))
        BY Zenon, <2>7, <3>1
      <4>2. rp = reported[i] \cup At(d, last) /\ ev = evec[i] \cup Marked(d)
        BY Zenon, <2>7, <2>9
      <4>3. RaisedBy(matched[i], rp, p)
        BY Zenon, <2>6, <2>7, <2>17, <4>1, <4>2, FlushHere
      <4>4. ~d.halt => \A b : /\ Settled(matched[i], {}, ev, rp, b)
                              /\ Once(matched[i], ev, rp)
        BY ZenonT(30), <2>6, <2>7, <2>17, <4>1, <4>2, FlushHere
      <4>5. cv = {} \/ cv = cvec[i]
        BY ZenonT(30), <2>7, <2>9
      <4>6. Kept(matched[i], lvec[i], cv, p)
        BY Zenon, <2>6, <4>5 DEF Kept
      <4>7. ~d.halt => cv = {}
        BY Zenon, <2>7, <2>9, <3>1
      <4>8. Adjustments = {0} /\ p = end => Waits(matched[i], cv, rp, p)
        <5> SUFFICES ASSUME Adjustments = {0}, p = end PROVE Waits(matched[i], cv, rp, p)
          BY Zenon
        <5>1. last # p
          BY <2>4, <3>1
        <5>2. cvec[i] = {}
          BY Zenon, <2>17, <5>1
        <5>3. cv = cvec[i] /\ rp = reported[i]
          BY Zenon, <4>1, <4>2, <4>5, <5>2, FlushNone, NothingDelivered
        <5> QED BY Zenon, <2>6, <3>0, <5>3
      <4> QED
        BY ZenonT(30), <4>3, <4>4, <4>6, <4>7, <4>8
    <3>2. CASE ~(ByRose(x) /\ end > last)
      <4>1. d = Nothing
        BY ZenonT(30), <2>7, <3>2
      <4>2. cv = cvec[i] /\ ev = evec[i] /\ rp = reported[i] /\ ~d.halt
        BY Zenon, <2>7, <2>9, <3>2, <4>1, NothingDelivered
      <4> QED
        BY Zenon, <2>6, <3>0, <3>2, <4>2
    <3> QED BY ZenonT(30), <3>1, <3>2
  <2>11. \A r \in reported'[i] : Allowed(i, r[1], r[2])'
    BY ZenonT(30), <2>7, <2>8, <2>9, <2>10, RaisedAllowed
  <2>18. cv # {} => cvec[i] # {}
    BY ZenonT(30), <2>7, <2>9
  \* Told to stop.
  <2>12. CASE d.halt
    <3>1. call'[x] = NoCall /\ "TERMINATED" \in status'[i]
      BY ZenonT(30), <2>0, <2>12 DEF Ended
    <3>2. ~InCall(i)' /\ ~Waiting(i)'
      BY ZenonT(30), <2>1, <3>1 DEF InCall, Waiting
    <3>3. LastOK(x)' /\ IdleOK(i)' /\ LiveOK(i)' /\ OverOK(i)'
      BY Zenon, <2>11, <3>1, <3>2 DEF LastOK, IdleOK, LiveOK, OverOK
    <3> QED BY Zenon, <2>0, <3>3, KeptStep
  \* A block goes on to the EOD program.
  <2>13. CASE ~d.halt /\ call[x].kind = "block"
    <3>1. /\ call'[x] # NoCall /\ call'[x].id = i /\ call'[x].kind = "block"
          /\ call'[x].phase = "eod" /\ call'[x].at = end
      BY ZenonT(30), <2>0, <2>1, <2>3, <2>13 DEF Ended
    <3>2. InCall(i)' /\ ~Waiting(i)' /\ ~Unrestored(call'[x])
      BY ZenonT(30), <2>1, <3>1 DEF InCall, Waiting, Unrestored
    <3>3. LastOK(x)' /\ IdleOK(i)' /\ OverOK(i)'
      BY ZenonT(30), <2>4, <2>7, <3>1, <3>2 DEF LastOK, IdleOK, OverOK
    <3>4. Position(i)' = end /\ ~Restores(i)'
      BY ZenonT(30), <2>1, <3>1, <3>2 DEF Position, Restores, ScrOf
    <3>5. Pending(i, p)'
      BY Zenon, <2>1, <2>7, <2>9, <2>17, <2>18, <3>4 DEF Pending, ScrOf
    <3>6. Stage(i, p)'
      BY ZenonT(30), <2>7, <2>9, <2>10, <2>13, <2>17, <3>4, <3>5 DEF Stage
    <3>7. LiveOK(i)'
      BY Zenon, <3>6 DEF LiveOK
    <3> QED BY Zenon, <2>0, <3>3, <3>7, KeptStep
  \* A stream has nothing more to match.
  <2>14. CASE ~d.halt /\ call[x].kind # "block" /\ status'[i] # status[i]
    <3>1. /\ call'[x] = NoCall /\ status'[i] = {"EXHAUSTED"}
          /\ OutfixLives => ByRose(x) /\ AnchoredDistance < end
      BY ZenonT(30), <2>0, <2>3, <2>14 DEF Ended
    <3>2. ~InCall(i)' /\ ~Waiting(i)'
      BY Zenon, <2>1, <3>1 DEF InCall, Waiting
    <3>3. OutfixLives => ByRose(x) /\ end > last
      <4> SUFFICES ASSUME OutfixLives PROVE ByRose(x) /\ end > last
        BY Zenon
      <4>0. ByRose(x) /\ AnchoredDistance < end
        BY Zenon, <3>1
      <4>1. last =< Base(x) \/ last =< AnchoredDistance
        BY ZenonT(30), <2>1, <2>0, <2>2, <4>0 DEF LastOK
      <4>2. Base(x) < end /\ Base(x) \in Nat
        <5>1. offset[i] \in Nat /\ call[x].kind = "scan"
          BY <2>0, <2>1, <2>14 DEF CallOK, BInv, TypeOK
        <5> QED BY ZenonT(30), <5>1, <2>0, <2>1, <2>3 DEF Base, CallOK
      <4>3. end > last
        BY <2>4, <4>0, <4>1, <4>2, CombinationAssumption
      <4> QED BY Zenon, <4>0, <4>3
    <3>4. OverOK(i)'
      BY ZenonT(30), <2>7, <2>9, <2>10, <2>11, <2>14, <3>3 DEF OverOK
    <3>5. LastOK(x)' /\ IdleOK(i)' /\ LiveOK(i)'
      BY Zenon, <3>1, <3>2 DEF LastOK, IdleOK, LiveOK
    <3> QED BY Zenon, <2>0, <3>4, <3>5, KeptStep
  \* A stream waits for its next write.
  <2>15. CASE ~d.halt /\ call[x].kind # "block" /\ status'[i] = status[i]
    <3>1. /\ call'[x] = NoCall /\ life'[i] = life[i] /\ offset'[i] = end
      BY ZenonT(30), <2>0, <2>1, <2>3, <2>15 DEF Ended
    <3>2. ~InCall(i)' /\ Waiting(i)'
      BY ZenonT(30), <2>0, <2>1, <3>1, <2>15 DEF InCall, Waiting, CallOK
    <3>3. Position(i)' = end
      BY ZenonT(30), <3>1, <3>2 DEF Position
    <3>5. LastOK(x)' /\ IdleOK(i)' /\ OverOK(i)'
      BY ZenonT(30), <2>1, <2>4, <2>7, <3>1, <3>2 DEF LastOK, IdleOK, OverOK, ScrOf
    \* What Rose will restore the offset to is where what waits matched.
    <3>6. Rose /\ end =< MaxBiAnchoredWidth /\ cv # {} => p = end
      <4> SUFFICES ASSUME Rose, end =< MaxBiAnchoredWidth, cv # {} PROVE p = end
        BY Zenon
      <4>1. ~(end > MaxBiAnchoredWidth)
        BY <2>4, CombinationAssumption
      <4>2. ByRose(x)
        BY Zenon, <2>3, <2>15, <4>1 DEF ByRose, Skipped, Rose
      <4>3. ~(end > last) /\ last =< p
        BY Zenon, <2>10, <2>15, <2>17, <2>18, <4>2
      <4> QED BY <4>3, <2>4, <2>17
    <3>7. Pending(i, p)'
      BY Zenon, <2>1, <2>7, <2>9, <2>17, <2>18, <3>3, <3>6 DEF Pending, Restores, ScrOf
    <3>8. Stage(i, p)'
      BY ZenonT(30), <2>7, <2>9, <2>10, <2>15, <2>17, <3>3, <3>7 DEF Stage
    <3>9. LiveOK(i)'
      BY Zenon, <3>8 DEF LiveOK
    <3> QED BY Zenon, <2>0, <3>5, <3>9, KeptStep
  <2> QED
    BY Zenon, <2>7, <2>12, <2>13, <2>14, <2>15
\* The last flush keeps it.
<1>8. ASSUME NEW x \in Scratches, NEW d, NEW n, OnlyHere(call[x].id, x), TypeOK',
             Flushed(x, d, n)
      PROVE  KInv'
  <2> USE <1>8
  <2>0. PICK i \in Ids : i = call[x].id /\ call[x] # NoCall
    BY ZenonT(30), InCallFacts DEF Flushed
  <2>1. /\ ScrOf(i) = x /\ CallOK(x) /\ InCall(i) /\ IdOK(i) /\ call[x] \in Calls
        /\ LiveOK(i) /\ call[x].phase = "last"
    BY ZenonT(30), <2>0, InCallFacts DEF KInv, Flushed
  <2>2. PICK end \in Ends : end = call[x].end /\ end = offset[i]
    BY ZenonT(30), <2>0, <2>1 DEF Calls, Ends, CallOK
  <2>3. PICK p \in Ends, last \in Ends : Stage(i, p) /\ last = lastCombMatchOffset[x]
    BY Zenon, <2>0, <2>1, InCallFacts DEF LiveOK
  <2>4. cvec[i] # {} => last \in RaisedFor(p)
    BY Zenon, <2>1, <2>3 DEF Stage, Pending, Current, Unrestored
  <2>5. /\ Kept(matched[i], lvec[i], cvec[i], p) /\ RaisedBy(matched[i], reported[i], p)
        /\ "TERMINATED" \notin status[i] =>
              /\ Settled(matched[i], cvec[i], evec[i], reported[i], p)
              /\ Once(matched[i], evec[i], reported[i])
    BY ZenonT(30), <2>3 DEF Stage
  <2>6. /\ d.halt \in BOOLEAN /\ n.halt \in BOOLEAN
        /\ d \in Deliveries(Ready(lvec[i], cvec[i], evec[i], last))
        /\ n \in (IF d.halt THEN {Nothing} ELSE Deliveries(NotMatched(lvec[i], evec[i], end)))
        /\ reported'[i] = reported[i] \cup At(d, last) \cup At(n, end)
        /\ evec'[i] = evec[i] \cup Marked(d) \cup Marked(n)
        /\ matched'[i] = matched[i] /\ offset'[i] = end
        /\ call'[x] = NoCall
        /\ status'[i] = IF d.halt \/ n.halt THEN status[i] \cup {"TERMINATED"} ELSE status[i]
    BY ZenonT(30), <2>0, <2>2, <2>3 DEF Flushed
  <2>7. life'[i] = "closed"
    BY ZenonT(30), <2>0, <2>1 DEF Flushed, CallOK
  <2>8. ~InCall(i)' /\ ~Waiting(i)'
    BY ZenonT(30), <2>1, <2>6, <2>7 DEF InCall, Waiting
  <2>9. LastOK(x)' /\ IdleOK(i)' /\ LiveOK(i)'
    BY ZenonT(30), <2>6, <2>8 DEF LastOK, IdleOK, LiveOK
  <2>10. PICK rp, ev : rp = reported[i] \cup At(d, last) /\ ev = evec[i] \cup Marked(d)
    BY Zenon
  <2>11. /\ RaisedBy(matched[i], rp, p)
         /\ ~d.halt /\ "TERMINATED" \notin status[i] =>
               Settled(matched[i], {}, ev, rp, 0) /\ Once(matched[i], ev, rp)
    BY ZenonT(30), <2>4, <2>5, <2>6, <2>10, FlushHere
  <2>12. lvec[i] = Seen(matched[i]) /\ matched[i] \in SUBSET (LKeys \X Ends)
         /\ reported[i] \in SUBSET (CKeys \X Ends) /\ reported'[i] \in SUBSET (CKeys \X Ends)
    BY ZenonT(30), <2>1, DataTypes DEF IdOK, TypeOK, Ends
  <2>13. \A r \in At(n, end) : DueNegative(i, r[1])' /\ r[2] = offset'[i]
    <3> SUFFICES ASSUME NEW r \in At(n, end) PROVE DueNegative(i, r[1])' /\ r[2] = offset'[i]
      BY ZenonT(30)
    <3>1. PICK c \in n.to_user : r = <<c, end>>
      BY ZenonT(30) DEF At
    <3>2. ~d.halt
      BY ZenonT(30), <2>6, <3>1, NothingDelivered
    <3>3. c \in NotMatched(lvec[i], evec[i], end)
      BY ZenonT(30), <2>6, <3>1, <3>2, Delivered
    <3>4. /\ c \in CKeys /\ CombInfo[c].min_offset =< end /\ end =< CombInfo[c].max_offset
          /\ lvec[i] \cap Operands(c) = {} /\ isLogicalCombination(lvec[i], c)
      BY ZenonT(30), <3>3 DEF NotMatched, isPurelyNegativeMatch
    <3>5. isLogicalCombination({}, c)
      <4>1. PICK lv : lv = lvec[i]
        BY Zenon
      <4>2. lv \cap Operands(c) = {} \cap Operands(c)
        BY Zenon, <3>4, <4>1
      <4>3. isLogicalCombination(lv, c) = isLogicalCombination({}, c)
        BY Zenon, <3>4, <4>2, ValueFromOperands
      <4> QED BY Zenon, <3>4, <4>1, <4>3
    <3>6. \A l \in Operands(c), e \in 0 .. MaxOffset : <<l, e>> \notin matched[i]
      BY ZenonT(30), <2>12, <3>4 DEF Seen, Operands, Ends
    <3>7. DueNegative(i, c)'
      BY Zenon, <2>6, <3>4, <3>5, <3>6 DEF DueNegative, Touches
    <3> QED BY ZenonT(30), <2>6, <3>1, <3>7
  <2>14. \A r \in rp : Allowed(i, r[1], r[2])'
    <3>1. rp \in SUBSET (CKeys \X Ends)
      BY Zenon, <2>6, <2>10, <2>12
    <3> QED BY ZenonT(30), <2>6, <2>11, <3>1, RaisedAllowed
  <2>15. "TERMINATED" \notin status'[i] =>
            /\ Settled(matched[i], {}, evec'[i], reported'[i], 0)
            /\ Once(matched[i], evec'[i], reported'[i])
    <3> SUFFICES ASSUME "TERMINATED" \notin status'[i]
                 PROVE  /\ Settled(matched[i], {}, evec'[i], reported'[i], 0)
                        /\ Once(matched[i], evec'[i], reported'[i])
      BY Zenon
    <3>1. ~d.halt /\ ~n.halt /\ "TERMINATED" \notin status[i]
      BY Zenon, <2>6
    <3>2. PICK m, lv, e0 : m = matched[i] /\ lv = lvec[i] /\ e0 = evec[i]
      BY Zenon
    <3>3. n \in Deliveries(NotMatched(lv, e0, end))
      BY ZenonT(30), <2>6, <3>1, <3>2
    <3>4. /\ m \in SUBSET (LKeys \X Ends) /\ lv = Seen(m) /\ RaisedBy(m, rp, p)
          /\ Settled(m, {}, ev, rp, 0) /\ Once(m, ev, rp)
      BY Zenon, <2>11, <2>12, <3>1, <3>2
    <3>5. /\ Settled(m, {}, ev \cup Marked(n), rp \cup At(n, end), 0)
          /\ Once(m, ev \cup Marked(n), rp \cup At(n, end))
      BY ZenonT(30), <3>1, <3>3, <3>4, NegativesSettle
    <3> QED BY ZenonT(30), <2>6, <2>10, <3>2, <3>5
  <2>16. OverOK(i)'
    BY ZenonT(30), <2>6, <2>10, <2>13, <2>14, <2>15 DEF OverOK
  <2> QED
    BY Zenon, <2>0, <2>9, <2>16, KeptStep
<1> QED
  BY Zenon, <1>1, <1>2, <1>3, <1>4, <1>5, <1>6, <1>7, <1>8 DEF Steps, StreamSteps, ScratchSteps

-----------------------------------------------------------------------------
\* It holds initially.
LEMMA InitKept == Init => KInv
<1> SUFFICES ASSUME Init PROVE KInv
  BY Zenon
<1>1. \A x \in Scratches : LastOK(x)
  BY Zenon DEF Init, LastOK
<1>2. ASSUME NEW i \in Ids PROVE IdleOK(i) /\ LiveOK(i) /\ OverOK(i)
  <2>1. /\ matched[i] = {} /\ lvec[i] = {} /\ cvec[i] = {} /\ evec[i] = {}
        /\ reported[i] = {} /\ offset[i] = 0
    BY Zenon DEF Init
  <2>2. life[i] = "new" /\ ~InCall(i) /\ 0 \in Ends /\ 0 =< 0
    <3>1. call[ScrOf(i)] = NoCall
      BY Zenon, ScrOfType DEF Init
    <3> QED BY <3>1, CombinationAssumption DEF Init, InCall, Ends
  <2> QED
    BY Zenon, <2>1, <2>2, Fresh DEF IdleOK, LiveOK, OverOK, Waiting
<1> QED
  BY Zenon, <1>1, <1>2 DEF KInv

\* It depends on the variables only.
LEMMA StutterKept == KInv /\ UNCHANGED vars => KInv'
<1> SUFFICES ASSUME KInv, UNCHANGED vars PROVE KInv'
  BY Zenon
<1>1. UNCHANGED <<life, offset, status, lvec, cvec, evec, lastCombMatchOffset, call,
                  matched, reported>>
  BY Zenon DEF vars, streamVars
<1>2. \A x \in Scratches : LastOK(x)'
  BY Zenon, <1>1 DEF KInv, LastOK, Base, Unrestored, ByRose, Skipped
<1>3. ASSUME NEW i \in Ids PROVE IdleOK(i)' /\ LiveOK(i)' /\ OverOK(i)'
  <2>1. /\ InCall(i)' <=> InCall(i)
        /\ Waiting(i)' <=> Waiting(i)
        /\ Position(i)' = Position(i)
        /\ Flushing(i)' <=> Flushing(i)
    BY Zenon, <1>1 DEF InCall, Waiting, Position, Flushing, ScrOf
  <2>2. IdleOK(i) /\ LiveOK(i) /\ OverOK(i)
    BY Zenon DEF KInv
  <2>3. IdleOK(i)'
    BY ZenonT(30), <1>1, <2>1, <2>2 DEF IdleOK, ScrOf
  <2>4. LiveOK(i)'
    <3> SUFFICES ASSUME NEW p \in Ends, Stage(i, p) PROVE Stage(i, p)'
      BY Zenon, <2>1, <2>2 DEF LiveOK
    <3>1. Pending(i, p)'
      BY Zenon, <1>1, <2>1 DEF Stage, Pending, Current, Restores, Unrestored, ScrOf
    <3> QED BY Zenon, <1>1, <2>1, <3>1, StageStays
  <2>5. OverOK(i)'
    BY Zenon, <1>1, <2>1, <2>2, OverStays
  <2> QED BY Zenon, <2>3, <2>4, <2>5
<1> QED
  BY Zenon, <1>2, <1>3 DEF KInv

\* It implies that combinations are raised where due.
LEMMA KeptRaised ==
    ASSUME BInv, KInv
    PROVE  RaisedWhereDue
<1> SUFFICES ASSUME NEW i \in Ids, NEW r \in reported[i]
             PROVE  Allowed(i, r[1], r[2]) \/ (DueNegative(i, r[1]) /\ r[2] = offset[i])
  BY Zenon DEF RaisedWhereDue
<1>1. CASE InCall(i) \/ Waiting(i)
  <2>1. PICK p \in Ends : RaisedBy(matched[i], reported[i], p)
    BY ZenonT(30), <1>1 DEF KInv, LiveOK, Stage
  <2>2. PICK m, rp : m = matched[i] /\ rp = reported[i]
    BY Zenon
  <2>3. rp \in SUBSET (CKeys \X Ends) /\ RaisedBy(m, rp, p) /\ r \in rp
    BY Zenon, <2>1, <2>2, DataTypes
  <2> QED
    BY Zenon, <2>2, <2>3, RaisedAllowed
<1>2. CASE ~InCall(i) /\ ~Waiting(i)
  BY Zenon, <1>2 DEF KInv, OverOK
<1> QED
  BY Zenon, <1>1, <1>2

\* It implies that none is missed, if no engine that runs alone dies.
LEMMA KeptNoneMissed ==
    ASSUME BInv, KInv, OutfixLives
    PROVE  NoneMissed
<1> SUFFICES ASSUME NEW i \in Ids, Complete(i), NEW c \in CKeys
             PROVE  LET raised == {e \in 0 .. MaxOffset : <<c, e>> \in reported[i]}
                        due == Due(i, c)
                    IN  IF CombInfo[c].ekey
                        THEN due # {} => \E e \in raised : raised = {e} /\ \A f \in due : e =< f
                        ELSE \A e \in due : raised \cap RaisedFor(e) # {}
  BY Zenon DEF NoneMissed
<1>1. ~InCall(i) /\ ~Waiting(i)
  <2>1. life[i] = "closed"
    BY Zenon DEF Complete
  <2>2. ScrOf(i) \in Scratches
    BY Zenon, ScrOfType
  <2> QED
    BY Zenon, <2>1, <2>2 DEF BInv, CallOK, InCall, Waiting
<1>2. Settled(matched[i], {}, evec[i], reported[i], 0) /\ Once(matched[i], evec[i], reported[i])
  BY Zenon, <1>1 DEF Complete, KInv, OverOK
<1>3. Due(i, c) = DueAt(matched[i], c)
  BY Zenon, DueIsDueAt
<1>4. \A e \in Due(i, c) : RaisedOf(reported[i], c, e) \/ (CombInfo[c].ekey /\ c \in evec[i])
  BY Zenon, <1>2, <1>3 DEF Settled
<1>5. \A e : <<c, e>> \in reported[i] => e \in Ends
  BY Zenon, DataTypes
<1>6. CASE CombInfo[c].ekey
  <2> DEFINE raised == {e \in 0 .. MaxOffset : <<c, e>> \in reported[i]}
  <2> SUFFICES ASSUME Due(i, c) # {}
               PROVE  \E e \in raised : raised = {e} /\ \A f \in Due(i, c) : e =< f
    BY Zenon, <1>6
  <2>1. c \in evec[i] => \E e \in Ends : <<c, e>> \in reported[i]
    BY Zenon, <1>2, <1>6 DEF Once
  <2>2. PICK e \in Ends : <<c, e>> \in reported[i]
    BY ZenonT(30), <1>4, <1>5, <2>1 DEF RaisedOf
  <2>3. /\ \A f \in Ends : <<c, f>> \in reported[i] => f = e
        /\ \A f \in Due(i, c) : e =< f
    BY <1>2, <1>3, <1>6, <2>2 DEF Once
  <2>4. e \in raised /\ raised = {e}
    BY Zenon, <2>2, <2>3 DEF Ends
  <2> QED BY Zenon, <2>3, <2>4
<1>7. CASE ~CombInfo[c].ekey
  <2>1. ASSUME NEW e \in Due(i, c)
        PROVE  \E to \in Ends : to \in RaisedFor(e) /\ <<c, to>> \in reported[i]
    BY Zenon, <1>4, <1>5, <1>7 DEF RaisedOf
  <2> QED BY Zenon, <1>7, <2>1 DEF Ends
<1> QED
  BY Zenon, <1>6, <1>7

\* It implies the assertions on lastCombMatchOffset.
LEMMA KeptInOrder ==
    ASSUME BInv, OffsetKept, KInv
    PROVE  LastCombInOrder
<1> SUFFICES ASSUME NEW x \in Scratches, call[x] # NoCall,
                    call[x].todo # {} \/ call[x].phase \in {"body", "eod", "last"}
             PROVE  lastCombMatchOffset[x] =< call[x].at
  BY Zenon DEF LastCombInOrder
<1>1. CallOK(x) /\ LastOK(x)
  BY Zenon DEF BInv, KInv
<1>2. ~Unrestored(call[x]) \/ Own \/ call[x].at = 0
  BY Zenon, <1>1, ReportsAreCurrent
<1> QED
  BY Zenon, <1>1, <1>2 DEF LastOK

\* It holds always.
LEMMA KeptAlways ==
    ASSUME OffsetKept
    PROVE  Spec => [](BInv /\ KInv)
<1>1. BInv /\ KInv /\ [Next]_vars => BInv' /\ KInv'
  BY Zenon, NextBase, NextSteps, StepsKept, StutterKept
<1> QED
  BY <1>1, InitBase, InitKept, PTL DEF Spec

-----------------------------------------------------------------------------
\* flushActiveCombinations and checkPurelyNegatives raise a combination only at
\* an offset where it may be raised, however reports are adjusted, if the offset
\* in the scratch is kept for the stream.
THEOREM CombinationsWhereDue ==
    ASSUME OffsetKept
    PROVE  Spec => []RaisedWhereDue
<1>1. BInv /\ KInv => RaisedWhereDue
  BY Zenon, KeptRaised
<1> QED
  BY <1>1, KeptAlways, PTL

\* By the end of the data a combination has been raised for every due offset,
\* once and no later than first due with an exhaustion key, however reports are
\* adjusted, if the offset in the scratch is kept and the stream is not run by
\* one engine that can die.
THEOREM NoCombinationMissed ==
    ASSUME OffsetKept, OutfixLives
    PROVE  Spec => []NoneMissed
<1>1. BInv /\ KInv => NoneMissed
  BY Zenon, KeptNoneMissed
<1> QED
  BY <1>1, KeptAlways, PTL

\* The assertions of FLUSH_COMBINATION and LAST_FLUSH_COMBINATION never fail, if
\* the offset in the scratch is kept.  That of updateLastCombMatchOffset is not
\* among them: ReportsMoveOn fails once a report is adjusted.
THEOREM CombinationOffsets ==
    ASSUME OffsetKept
    PROVE  Spec => []LastCombInOrder
<1>1. BInv /\ KInv => LastCombInOrder
  BY Zenon, KeptInOrder
<1> QED
  BY <1>1, KeptAlways, PTL
=============================================================================
