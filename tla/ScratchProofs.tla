--------------------------- MODULE ScratchProofs ---------------------------
(***************************************************************************)
(* Proofs that the invariants of module Scratch hold for any databases,    *)
(* handles and blocks.                                                     *)
(***************************************************************************)
EXTENDS Scratch, TLAPS

\* The log is large enough for every database with no more keys than the
\* header counts: what makes raising the two fields together sound.
LogSuffices(p) ==
    \A e \in Databases :
        Rose[e].dkeyCount > 0 /\ Rose[e].dkeyCount =< p["dkey_count"]
            => Rose[e].dkeyLogSize =< p["log_size"]

\* A scan only ever runs on a live scratch.
CallsOnLive == \A b \in Blocks : call[b] # NoCall => b \in live

LogsSuffice == \A b \in live : LogSuffices(heap[b])

IInv ==
    /\ TypeOK
    /\ PointersOwnLiveBlocks
    /\ CallsOnLive
    /\ MarkedExactlyWhileScanning
    /\ LogsSuffice
    /\ ServesEveryDatabase

-----------------------------------------------------------------------------
\* The size a database needs of block state is a number.
LEMMA bStateSizeType ==
    ASSUME NEW d \in Databases
    PROVE  bStateSize(d) \in Nat
BY RoseAssumption DEF bStateSize, Modes

\* hs_alloc_scratch computes a header from a header.
LEMMA ProtoType ==
    ASSUME NEW d \in Databases, NEW p \in Headers
    PROVE  Proto(p, d) \in Headers
BY bStateSizeType, RoseAssumption DEF Proto, Headers, Fields, MaxOf, SizeFields

\* What the fields of the computed header are.
LEMMA ProtoFields ==
    ASSUME NEW d \in Databases, NEW p \in Headers
    PROVE  /\ \A f \in SizeFields : Proto(p, d)[f] = MaxOf(p[f], Rose[d].size[f])
           /\ Proto(p, d)["bStateSize"] = MaxOf(p["bStateSize"], bStateSize(d))
           /\ Proto(p, d)["dkey_count"] = MaxOf(p["dkey_count"], Rose[d].dkeyCount)
           /\ Proto(p, d)["log_size"] =
                 IF Rose[d].dkeyCount > p["dkey_count"]
                 THEN Rose[d].dkeyLogSize ELSE p["log_size"]
BY DEF Proto, Fields, SizeFields

\* Growing for d keeps the log large enough for every database it covers.
LEMMA ProtoLog ==
    ASSUME NEW d \in Databases, NEW p \in Headers, LogSuffices(p)
    PROVE  LogSuffices(Proto(p, d))
<1> SUFFICES ASSUME NEW e \in Databases, Rose[e].dkeyCount > 0,
                    Rose[e].dkeyCount =< Proto(p, d)["dkey_count"]
             PROVE  Rose[e].dkeyLogSize =< Proto(p, d)["log_size"]
  BY DEF LogSuffices
<1>1. /\ p["dkey_count"] \in Nat /\ p["log_size"] \in Nat
      /\ Rose[e].dkeyCount \in Nat /\ Rose[d].dkeyCount \in Nat
      /\ Rose[e].dkeyLogSize \in Nat /\ Rose[d].dkeyLogSize \in Nat
  BY RoseAssumption DEF Headers, Fields
<1>2. CASE Rose[d].dkeyCount > p["dkey_count"]
  BY <1>1, <1>2, ProtoFields, LogAssumption DEF MaxOf
<1>3. CASE ~(Rose[d].dkeyCount > p["dkey_count"])
  BY <1>1, <1>3, ProtoFields DEF MaxOf, LogSuffices
<1> QED BY <1>2, <1>3

\* Growing for d serves d.
LEMMA ProtoServes ==
    ASSUME NEW d \in Databases, NEW p \in Headers, LogSuffices(p)
    PROVE  Enough(Proto(p, d), d)
<1>1. /\ \A f \in Fields : p[f] \in Nat
      /\ Rose[d].dkeyCount \in Nat /\ Rose[d].dkeyLogSize \in Nat
      /\ \A f \in SizeFields : Rose[d].size[f] \in Nat
      /\ bStateSize(d) \in Nat
  BY RoseAssumption, bStateSizeType DEF Headers
<1>2. /\ SizeFields \subseteq Fields /\ "bStateSize" \in Fields
      /\ "dkey_count" \in Fields /\ "log_size" \in Fields
  BY DEF Fields
<1>3. \A f \in SizeFields : Rose[d].size[f] =< Proto(p, d)[f]
  BY <1>1, <1>2, ProtoFields DEF MaxOf
<1>4. /\ bStateSize(d) =< Proto(p, d)["bStateSize"]
      /\ Rose[d].dkeyCount =< Proto(p, d)["dkey_count"]
  BY <1>1, <1>2, ProtoFields DEF MaxOf
<1>5. Rose[d].dkeyCount > 0 => Rose[d].dkeyLogSize =< Proto(p, d)["log_size"]
  BY <1>4, ProtoLog DEF LogSuffices
<1> QED BY <1>3, <1>4, <1>5 DEF Enough

\* Growing for d still serves whatever the scratch served before.
LEMMA ProtoKeeps ==
    ASSUME NEW d \in Databases, NEW e \in Databases, NEW p \in Headers,
           LogSuffices(p), Enough(p, e)
    PROVE  Enough(Proto(p, d), e)
<1>1. /\ \A f \in Fields : p[f] \in Nat
      /\ Rose[d].dkeyCount \in Nat /\ Rose[e].dkeyCount \in Nat
      /\ \A f \in SizeFields : Rose[d].size[f] \in Nat /\ Rose[e].size[f] \in Nat
      /\ bStateSize(d) \in Nat /\ bStateSize(e) \in Nat
  BY RoseAssumption, bStateSizeType DEF Headers
<1>2. /\ SizeFields \subseteq Fields /\ "bStateSize" \in Fields
      /\ "dkey_count" \in Fields /\ "log_size" \in Fields
  BY DEF Fields
<1>3. \A f \in SizeFields : Rose[e].size[f] =< Proto(p, d)[f]
  BY <1>1, <1>2, ProtoFields DEF MaxOf, Enough
<1>4. /\ bStateSize(e) =< Proto(p, d)["bStateSize"]
      /\ Rose[e].dkeyCount =< Proto(p, d)["dkey_count"]
  BY <1>1, <1>2, ProtoFields DEF MaxOf, Enough
<1>5. Rose[e].dkeyCount > 0 => Rose[e].dkeyLogSize =< Proto(p, d)["log_size"]
  BY <1>4, ProtoLog DEF LogSuffices
<1> QED BY <1>3, <1>4, <1>5 DEF Enough

-----------------------------------------------------------------------------
LEMMA InitIInv == Init => IInv
<1> SUFFICES ASSUME Init PROVE IInv
  OBVIOUS
<1> USE DEF Init
<1>1. TypeOK
  BY RoseAssumption DEF TypeOK, Headers, Zeroed, Fields
<1> QED BY <1>1 DEF IInv, PointersOwnLiveBlocks, CallsOnLive,
          MarkedExactlyWhileScanning, LogsSuffice, ServesEveryDatabase

\* hs_alloc_scratch, when the scratch already suffices.
LEMMA AllocFitsIInv ==
    ASSUME IInv, NEW h \in Handles, NEW d \in Databases, AllocFits(h, d)
    PROVE  IInv'
<1> DEFINE b == ptr[h]
<1> USE DEF IInv
<1>1. b \in live /\ b \in Blocks /\ heap[b] \in Headers
  BY DEF AllocFits, TypeOK, PointersOwnLiveBlocks
<1>2. TypeOK'
  BY <1>1 DEF TypeOK, AllocFits
<1>3. Enough(heap[b], d)
  BY <1>1, ProtoServes DEF AllocFits, LogsSuffice
<1>4. \A k \in Blocks : asked'[k] = IF k = b THEN asked[b] \cup {d} ELSE asked[k]
  BY DEF AllocFits, TypeOK
<1>5. ServesEveryDatabase'
  BY <1>1, <1>3, <1>4 DEF AllocFits, ServesEveryDatabase, TypeOK, Enough
<1> QED BY <1>2, <1>5 DEF AllocFits, PointersOwnLiveBlocks, CallsOnLive,
          MarkedExactlyWhileScanning, LogsSuffice, LogSuffices

\* hs_alloc_scratch, when a first or a bigger region is allocated.
LEMMA AllocGrowIInv ==
    ASSUME IInv, NEW h \in Handles, NEW d \in Databases, AllocGrow(h, d)
    PROVE  IInv'
<1> DEFINE old == IF ptr[h] = NULL THEN Zeroed ELSE heap[ptr[h]]
           for == IF ptr[h] = NULL THEN {} ELSE asked[ptr[h]]
           new == Proto(old, d)
<1> USE DEF IInv
<1>1. PICK b \in Blocks :
         /\ alloc_scratch(b, new, Held(h))
         /\ ptr' = [ptr EXCEPT ![h] = b]
         /\ asked' = [asked EXCEPT ![b] = for \cup {d}]
  BY DEF AllocGrow
<1>2. call' = call /\ ptr[h] \notin in_use
  BY DEF AllocGrow
<1>3. /\ old \in Headers /\ LogSuffices(old) /\ for \subseteq Databases
      /\ \A e \in for : Enough(old, e)
  <2>1. CASE ptr[h] = NULL
    BY <2>1, RoseAssumption DEF Zeroed, Headers, Fields, LogSuffices
  <2>2. CASE ptr[h] # NULL
    BY <2>2 DEF TypeOK, PointersOwnLiveBlocks, LogsSuffice, ServesEveryDatabase
  <2> QED BY <2>1, <2>2
<1>4. new \in Headers /\ LogSuffices(new)
  BY <1>3, ProtoType, ProtoLog
<1>5. \A e \in for \cup {d} : Enough(new, e)
  BY <1>3, ProtoServes, ProtoKeeps
<1> HIDE DEF old, for, new
<1>6. /\ b \notin live \/ b \in Held(h)
      /\ live' = (live \ Held(h)) \cup {b}
      /\ heap' = [heap EXCEPT ![b] = new]
      /\ in_use' = in_use \ {b}
  BY <1>1 DEF alloc_scratch
<1>7. TypeOK'
  BY <1>1, <1>2, <1>3, <1>4, <1>6 DEF TypeOK
<1>8. /\ Held(h) = IF ptr[h] = NULL THEN {} ELSE {ptr[h]}
      /\ ptr[h] # NULL => call[ptr[h]] = NoCall
  BY <1>2 DEF Held, TypeOK, PointersOwnLiveBlocks, MarkedExactlyWhileScanning
<1>9. \A g \in Handles : ptr'[g] = IF g = h THEN b ELSE ptr[g]
  BY <1>1 DEF TypeOK
<1>10. \A k \in Blocks : heap'[k] = IF k = b THEN new ELSE heap[k]
  BY <1>6 DEF TypeOK
<1>11. \A k \in Blocks : asked'[k] = IF k = b THEN for \cup {d} ELSE asked[k]
  BY <1>1 DEF TypeOK
<1>12. \A g \in Handles : g # h /\ ptr[g] # NULL => ptr[g] # b
  BY <1>6, <1>8 DEF PointersOwnLiveBlocks
<1>13. call[b] = NoCall
  BY <1>6, <1>8 DEF CallsOnLive
<1>14. PointersOwnLiveBlocks'
  <2>1. \A g \in Handles : ptr'[g] # NULL => ptr'[g] \in live'
    BY <1>6, <1>8, <1>9, <1>12 DEF PointersOwnLiveBlocks
  <2>2. \A g, k \in Handles : ptr'[g] = ptr'[k] /\ ptr'[g] # NULL => g = k
    BY <1>9, <1>12, RoseAssumption DEF PointersOwnLiveBlocks
  <2>3. \A k \in live' : \E g \in Handles : ptr'[g] = k
    <3> SUFFICES ASSUME NEW k \in live', k # b
                 PROVE  \E g \in Handles : ptr'[g] = k
      BY <1>9
    <3>1. k \in live /\ k # ptr[h]
      BY <1>6, <1>8, RoseAssumption DEF TypeOK
    <3>2. PICK g \in Handles : ptr[g] = k
      BY <3>1 DEF PointersOwnLiveBlocks
    <3> QED BY <1>9, <3>1, <3>2
  <2> QED BY <2>1, <2>2, <2>3 DEF PointersOwnLiveBlocks
<1>15. CallsOnLive'
  BY <1>2, <1>6, <1>8, <1>13 DEF CallsOnLive
<1>16. MarkedExactlyWhileScanning'
  BY <1>2, <1>6, <1>8, <1>13 DEF MarkedExactlyWhileScanning
<1>17. LogsSuffice'
  BY <1>4, <1>6, <1>10 DEF LogsSuffice, LogSuffices, TypeOK
<1>18. ServesEveryDatabase'
  BY <1>5, <1>9, <1>10, <1>11, <1>12 DEF ServesEveryDatabase, TypeOK, Enough
<1> QED BY <1>7, <1>14, <1>15, <1>16, <1>17, <1>18

\* hs_alloc_scratch, when the allocator fails.
LEMMA AllocFailIInv ==
    ASSUME IInv, NEW h \in Handles, NEW d \in Databases, AllocFail(h, d)
    PROVE  IInv'
<1> USE DEF IInv
<1>1. TypeOK'
  BY DEF TypeOK, AllocFail, Held
<1>2. ptr[h] # NULL => call[ptr[h]] = NoCall
  BY DEF AllocFail, TypeOK, PointersOwnLiveBlocks, MarkedExactlyWhileScanning
<1>3. \A g \in Handles : ptr'[g] = IF g = h THEN NULL ELSE ptr[g]
  BY DEF AllocFail, TypeOK
<1>4. PointersOwnLiveBlocks'
  BY <1>3 DEF PointersOwnLiveBlocks, AllocFail, Held, TypeOK
<1>5. CallsOnLive' /\ MarkedExactlyWhileScanning'
  BY <1>2 DEF CallsOnLive, MarkedExactlyWhileScanning, AllocFail, Held, TypeOK
<1>6. LogsSuffice' /\ ServesEveryDatabase'
  BY <1>3 DEF LogsSuffice, LogSuffices, ServesEveryDatabase, Enough, AllocFail, TypeOK
<1> QED BY <1>1, <1>4, <1>5, <1>6

\* hs_clone_scratch.
LEMMA CloneIInv ==
    ASSUME IInv, NEW src \in Handles, NEW dest \in Handles,
           hs_clone_scratch(src, dest)
    PROVE  IInv'
<1> USE DEF IInv
<1> DEFINE from == heap[ptr[src]]
           for  == asked[ptr[src]]
<1>0. /\ call' = call /\ ptr[src] # NULL /\ ptr[dest] = NULL
      /\ from \in Headers /\ LogSuffices(from) /\ for \subseteq Databases
      /\ \A e \in for : Enough(from, e)
  BY DEF hs_clone_scratch, TypeOK, PointersOwnLiveBlocks, LogsSuffice,
         ServesEveryDatabase
<1>1. CASE UNCHANGED <<heap, live, in_use, ptr, asked>>
  BY <1>0, <1>1 DEF TypeOK, PointersOwnLiveBlocks, CallsOnLive, LogsSuffice,
         MarkedExactlyWhileScanning, LogSuffices, ServesEveryDatabase, Enough
<1>2. CASE \E b \in Blocks :
             /\ alloc_scratch(b, heap[ptr[src]], {})
             /\ ptr' = [ptr EXCEPT ![dest] = b]
             /\ asked' = [asked EXCEPT ![b] = asked[ptr[src]]]
  <2>1. PICK b \in Blocks :
             /\ b \notin live
             /\ live' = live \cup {b}
             /\ heap' = [heap EXCEPT ![b] = from]
             /\ in_use' = in_use \ {b}
             /\ ptr' = [ptr EXCEPT ![dest] = b]
             /\ asked' = [asked EXCEPT ![b] = for]
    BY <1>2 DEF alloc_scratch
  <2> HIDE DEF from, for
  <2>2. TypeOK'
    BY <1>0, <2>1 DEF TypeOK
  <2>3. \A g \in Handles : ptr'[g] = IF g = dest THEN b ELSE ptr[g]
    BY <2>1 DEF TypeOK
  <2>4. \A g \in Handles : ptr[g] # b
    BY <2>1, RoseAssumption DEF PointersOwnLiveBlocks
  <2>5. \A k \in Blocks : /\ heap'[k] = IF k = b THEN from ELSE heap[k]
                          /\ asked'[k] = IF k = b THEN for ELSE asked[k]
    BY <2>1 DEF TypeOK
  <2>6. PointersOwnLiveBlocks'
    <3>1. \A g \in Handles : ptr'[g] # NULL => ptr'[g] \in live'
      BY <2>1, <2>3 DEF PointersOwnLiveBlocks
    <3>2. \A g, k \in Handles : ptr'[g] = ptr'[k] /\ ptr'[g] # NULL => g = k
      BY <2>3, <2>4 DEF PointersOwnLiveBlocks
    <3>3. \A k \in live' : \E g \in Handles : ptr'[g] = k
      <4> SUFFICES ASSUME NEW k \in live
                   PROVE  \E g \in Handles : ptr'[g] = k
        BY <2>1, <2>3
      <4>1. PICK g \in Handles : ptr[g] = k
        BY DEF PointersOwnLiveBlocks
      <4> QED BY <1>0, <2>3, <4>1, RoseAssumption DEF TypeOK
    <3> QED BY <3>1, <3>2, <3>3 DEF PointersOwnLiveBlocks
  <2>7. CallsOnLive' /\ MarkedExactlyWhileScanning'
    BY <1>0, <2>1 DEF CallsOnLive, MarkedExactlyWhileScanning
  <2>8. LogsSuffice'
    BY <1>0, <2>1, <2>5 DEF LogsSuffice, LogSuffices, TypeOK
  <2>9. ServesEveryDatabase'
    BY <1>0, <2>3, <2>4, <2>5 DEF ServesEveryDatabase, TypeOK, Enough
  <2> QED BY <2>2, <2>6, <2>7, <2>8, <2>9
<1> QED BY <1>1, <1>2 DEF hs_clone_scratch

\* hs_free_scratch.
LEMMA FreeIInv ==
    ASSUME IInv, NEW h \in Handles, hs_free_scratch(h)
    PROVE  IInv'
<1> USE DEF IInv
<1>0. heap' = heap /\ call' = call /\ asked' = asked /\ ptr[h] # NULL
  BY DEF hs_free_scratch
<1>1. CASE UNCHANGED <<in_use, live, ptr>>
  BY <1>0, <1>1 DEF TypeOK, PointersOwnLiveBlocks, CallsOnLive, LogsSuffice,
         MarkedExactlyWhileScanning, LogSuffices, ServesEveryDatabase, Enough
<1>2. CASE /\ markScratchInUse(ptr[h])
           /\ live' = live \ {ptr[h]}
           /\ ptr' = [ptr EXCEPT ![h] = NULL]
  <2>1. TypeOK'
    BY <1>0, <1>2 DEF TypeOK, markScratchInUse
  <2>2. call[ptr[h]] = NoCall
    BY <1>0, <1>2 DEF markScratchInUse, TypeOK, PointersOwnLiveBlocks,
           MarkedExactlyWhileScanning
  <2>3. \A g \in Handles : ptr'[g] = IF g = h THEN NULL ELSE ptr[g]
    BY <1>2 DEF TypeOK
  <2>4. PointersOwnLiveBlocks'
    BY <1>0, <1>2, <2>3 DEF PointersOwnLiveBlocks, TypeOK
  <2>5. CallsOnLive' /\ MarkedExactlyWhileScanning'
    BY <1>0, <1>2, <2>2 DEF CallsOnLive, MarkedExactlyWhileScanning,
           markScratchInUse, TypeOK
  <2>6. LogsSuffice' /\ ServesEveryDatabase'
    BY <1>0, <1>2, <2>3 DEF LogsSuffice, LogSuffices, ServesEveryDatabase, Enough, TypeOK
  <2> QED BY <2>1, <2>4, <2>5, <2>6
<1> QED BY <1>1, <1>2 DEF hs_free_scratch

\* The two halves of a scanning call.
LEMMA ScanIInv ==
    ASSUME IInv,
           \/ \E h \in Handles, d \in Databases : ScanBegin(h, d)
           \/ \E b \in Blocks : ScanEnd(b)
    PROVE  IInv'
<1> USE DEF IInv
<1>1. ASSUME NEW h \in Handles, NEW d \in Databases, ScanBegin(h, d)
      PROVE  IInv'
  <2>1. ptr[h] \in live /\ ptr[h] \in Blocks
    BY <1>1 DEF ScanBegin, TypeOK, PointersOwnLiveBlocks
  <2>2. TypeOK'
    BY <1>1, <2>1 DEF TypeOK, ScanBegin, markScratchInUse
  <2>3. CallsOnLive' /\ MarkedExactlyWhileScanning'
    BY <1>1, <2>1, RoseAssumption DEF CallsOnLive, MarkedExactlyWhileScanning,
           ScanBegin, markScratchInUse, TypeOK
  <2> QED BY <1>1, <2>2, <2>3 DEF ScanBegin, PointersOwnLiveBlocks,
           LogsSuffice, LogSuffices, ServesEveryDatabase, Enough
<1>2. ASSUME NEW b \in Blocks, ScanEnd(b)
      PROVE  IInv'
  <2>1. TypeOK'
    BY <1>2 DEF TypeOK, ScanEnd, unmarkScratchInUse
  <2>2. CallsOnLive' /\ MarkedExactlyWhileScanning'
    BY <1>2 DEF CallsOnLive, MarkedExactlyWhileScanning, ScanEnd,
           unmarkScratchInUse, TypeOK
  <2> QED BY <1>2, <2>1, <2>2 DEF ScanEnd, PointersOwnLiveBlocks,
           LogsSuffice, LogSuffices, ServesEveryDatabase, Enough
<1> QED BY <1>1, <1>2

LEMMA NextIInv == IInv /\ [Next]_vars => IInv'
<1> SUFFICES ASSUME IInv, [Next]_vars PROVE IInv'
  OBVIOUS
<1>1. ASSUME UNCHANGED vars PROVE IInv'
  BY <1>1 DEF vars, IInv, TypeOK, PointersOwnLiveBlocks, CallsOnLive, LogsSuffice,
         MarkedExactlyWhileScanning, LogSuffices, ServesEveryDatabase, Enough
<1>2. ASSUME NEW h \in Handles, NEW d \in Databases, hs_alloc_scratch(h, d)
      PROVE  IInv'
  BY <1>1, <1>2, AllocFitsIInv, AllocGrowIInv, AllocFailIInv
     DEF hs_alloc_scratch, AllocInUse
<1> QED BY <1>1, <1>2, CloneIInv, FreeIInv, ScanIInv DEF Next

\* For any databases, pointers and allocator: an allocated scratch serves
\* every database it was ever asked for, through any sequence of growing,
\* cloning, failing and freeing.
THEOREM ScratchServes == Spec => []ServesEveryDatabase
<1>1. IInv => ServesEveryDatabase
  BY DEF IInv
<1> QED BY <1>1, InitIInv, NextIInv, PTL DEF Spec

\* For any instance: no pointer dangles and no scratch leaks.
THEOREM ScratchOwned == Spec => []PointersOwnLiveBlocks
<1>1. IInv => PointersOwnLiveBlocks
  BY DEF IInv
<1> QED BY <1>1, InitIInv, NextIInv, PTL DEF Spec

\* For any instance: the in_use marker is set exactly while a scan runs.
THEOREM ScratchMarked == Spec => []MarkedExactlyWhileScanning
<1>1. IInv => MarkedExactlyWhileScanning
  BY DEF IInv
<1> QED BY <1>1, InitIInv, NextIInv, PTL DEF Spec

\* For any instance: the variables keep their types.
THEOREM ScratchTypes == Spec => []TypeOK
<1>1. IInv => TypeOK
  BY DEF IInv
<1> QED BY <1>1, InitIInv, NextIInv, PTL DEF Spec

\* For any instance: a running scan keeps its scratch.
THEOREM ScratchKept == Spec => ScanKeepsItsScratch
<1>1. ASSUME IInv, [Next]_vars
      PROVE  [KeepsScannedBlocks]_vars
  <2> SUFFICES ASSUME NEW b \in Blocks, call[b] # NoCall, Next
               PROVE  b \in live' /\ heap'[b] = heap[b]
    BY <1>1 DEF KeepsScannedBlocks, IInv, CallsOnLive
  <2>1. b \in live /\ b \in in_use
    BY <1>1 DEF IInv, CallsOnLive, MarkedExactlyWhileScanning
  <2>2. \A h \in Handles : ptr[h] \notin in_use => b \notin Held(h)
    BY <2>1 DEF Held
  <2>3. ASSUME NEW h \in Handles, NEW d \in Databases, hs_alloc_scratch(h, d)
        PROVE  b \in live' /\ heap'[b] = heap[b]
    <3>1. CASE AllocGrow(h, d)
      BY <1>1, <2>1, <2>2, <3>1 DEF AllocGrow, alloc_scratch, IInv, TypeOK
    <3>2. CASE AllocFail(h, d)
      BY <2>1, <2>2, <3>2 DEF AllocFail
    <3> QED BY <2>1, <2>3, <3>1, <3>2 DEF hs_alloc_scratch, AllocFits, AllocInUse, vars
  <2>4. ASSUME NEW h \in Handles, NEW g \in Handles, hs_clone_scratch(h, g)
        PROVE  b \in live' /\ heap'[b] = heap[b]
    BY <1>1, <2>1, <2>4 DEF hs_clone_scratch, alloc_scratch, IInv, TypeOK
  <2>5. ASSUME NEW h \in Handles, hs_free_scratch(h)
        PROVE  b \in live' /\ heap'[b] = heap[b]
    BY <2>1, <2>5 DEF hs_free_scratch, markScratchInUse
  <2> QED BY <2>1, <2>3, <2>4, <2>5 DEF Next, ScanBegin, ScanEnd
<1>2. Init => IInv
  BY InitIInv
<1>3. IInv /\ [Next]_vars => IInv'
  BY NextIInv
<1> QED BY <1>1, <1>2, <1>3, PTL DEF Spec, ScanKeepsItsScratch
=============================================================================
