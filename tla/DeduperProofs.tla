--------------------------- MODULE DeduperProofs ----------------------------
(***************************************************************************)
(* Proofs about the match deduper, for any number of dedupe keys, any end  *)
(* offsets and any number of reports in a call.                            *)
(***************************************************************************)
EXTENDS Deduper, SequenceTheorems, TLAPS

LOCAL INSTANCE WellFoundedInduction

\* Reports, and the reports of a log.
Reports == [key : Dkeys \cup {MO_INVALID_IDX}, from : Offsets, to : Offsets]

SomLogs ==
    [Parities -> UNION {[keys -> Offsets] : keys \in SUBSET SomKeys}]

Types ==
    /\ log \in [Parities -> SUBSET (Dkeys \ SomKeys)]
    /\ som_log \in SomLogs
    /\ som_log_dirty \in 0 .. 3
    /\ current_report_offset \in Offsets \cup {NoOffset}
    /\ call \in {"idle", "start", "scan", "flushed", "halted"}
    /\ offset \in Offsets
    /\ raised \in SUBSET Reports
    /\ delivered \in Seq(Reports)

\* No report of R for the key and end offset of m starts before it.
Leftmost(R, m) == \A r \in R : r.key = m.key /\ r.to = m.to => m.from =< r.from

Same(m, r) == m.key = r.key /\ m.to = r.to

\* No key is in D twice for an end offset.
Once(D) == \A i, j \in DOMAIN D : D[i].key \in Dkeys /\ Same(D[i], D[j]) => i = j

\* The end offsets a report at offset c may have.
EndsAt(c) == {c - 1, c} \cap Offsets

\* The user's callback has got what it should of the reports R of a scan that
\* has come to offset c and, if fl, has flushed: nothing but the leftmost reports,
\* and all that is not held back.
Got(c, R, D, fl) ==
    /\ \A r \in R : r.to =< c /\ (r.key \notin SomKeys => r.from = 0)
    /\ \A m \in Range(D) :
          m \in R /\ Leftmost(R, m) /\ (m.key \in SomKeys => fl \/ m.to < c - 1)
    /\ \A r \in R : \/ r.key \in SomKeys /\ ~fl /\ r.to >= c - 1
                    \/ \E m \in Range(D) : Same(m, r)
    /\ Once(D)

\* The log of plain keys knows what was reported at the live end offsets.
Logged(lg, c, R) ==
    \A to \in EndsAt(c), k \in Dkeys \ SomKeys :
        k \in lg[to % 2] <=> \E r \in R : r.key = k /\ r.to = to

\* The log of start-of-match keys holds the leftmost report of each.
Held(sl, c, R) ==
    /\ \A to \in EndsAt(c), k \in SomKeys :
          /\ k \in DOMAIN sl[to % 2] <=> \E r \in R : r.key = k /\ r.to = to
          /\ k \in DOMAIN sl[to % 2] =>
                /\ Match(k, sl[to % 2][k], to) \in R
                /\ Leftmost(R, Match(k, sl[to % 2][k], to))
    /\ c = 0 => sl[1] = <<>>

\* A log whose dirty bit is down holds nothing.
Clean(sl, dirty, c) ==
    /\ dirty % 2 = 0 => sl[(c - 1) % 2] = <<>>
    /\ dirty < 2 => sl[c % 2] = <<>>

\* The state of the deduper when the scan is at offset c and has reported R.
Caught(lg, sl, dirty, c, R, D, fl) ==
    /\ Got(c, R, D, fl)
    /\ Logged(lg, c, R)
    /\ IF fl THEN sl = NoneHeld /\ dirty = 0
       ELSE Held(sl, c, R) /\ Clean(sl, dirty, c)

\* What the callback has got is right, as far as it goes.
Fine(R, D) == Once(D) /\ \A m \in Range(D) : m \in R /\ Leftmost(R, m)

\* The state of a call in progress.  Before its first report nothing is known of
\* the logs but that the dirty bits make that report clear them.
InCall ==
    call \in {"start", "scan", "flushed"} =>
        IF current_report_offset = NoOffset
        THEN /\ call # "scan" /\ raised = {} /\ delivered = <<>>
             /\ call = "start" => som_log_dirty = 1
             /\ call = "flushed" => som_log = NoneHeld /\ som_log_dirty = 0
        ELSE /\ offset = current_report_offset
             /\ Caught(log, som_log, som_log_dirty, current_report_offset, raised,
                       delivered, call = "flushed")

\* DeliversLeftmost and DeliversOnce speak of the callback; what keeps them true
\* is what the logs hold.
Inv == Types /\ Fine(raised, delivered) /\ InCall

-----------------------------------------------------------------------------
(* Numbers, sequences and the order of keys.                               *)

\* The two logs of a kind are told apart by the parity of the end offset.
LEMMA Parity ==
    ASSUME NEW n \in Int
    PROVE  /\ n % 2 \in Parities /\ (n - 1) % 2 \in Parities
           /\ n % 2 # (n - 1) % 2 /\ (n + 1) % 2 = (n - 1) % 2
           /\ \A i \in Parities : i = n % 2 \/ i = (n - 1) % 2
BY DEF Parities

\* A non-empty set of numbers has a least one.
LEMMA LeastNat ==
    ASSUME NEW T \in SUBSET Nat, T # {}
    PROVE  \E n \in T : \A k \in T : n =< k
<1>1. PICK n \in T : \A k \in T : ~(<<k, n>> \in OpToRel(<, Nat))
  BY Zenon, NatLessThanWellFounded, WFMin
<1>2. \A k \in T : ~(k < n)
  BY Zenon, <1>1 DEF OpToRel
<1> QED
  BY <1>2

\* s lists the keys in S in increasing order.
Lists(s, S) ==
    Range(s) = S /\ \A i, j \in DOMAIN s : i < j => s[i] < s[j]

\* A set of n or fewer keys can be listed with n or fewer of them.
Listed(n) ==
    \A S \in SUBSET (0 .. n - 1) :
        \E m \in 0 .. n : \E s \in [1 .. m -> S] : Lists(s, S)

\* No keys are listed by the empty sequence.
LEMMA ListedNone == Listed(0)
<1> SUFFICES ASSUME NEW S \in SUBSET (0 .. 0 - 1)
             PROVE  \E m \in 0 .. 0 : \E s \in [1 .. m -> S] : Lists(s, S)
  BY Zenon DEF Listed
<1>1. S = {} /\ 1 .. 0 = {} /\ 0 \in 0 .. 0
  OBVIOUS
<1> DEFINE s == [i \in 1 .. 0 |-> 0]
<1>2. s \in [1 .. 0 -> S] /\ DOMAIN s = {}
  BY Zenon, <1>1
<1>3. Range(s) = {}
  BY Zenon, <1>2 DEF Range
<1> HIDE DEF s
<1>4. Lists(s, S)
  BY Zenon, <1>1, <1>2, <1>3 DEF Lists
<1> QED BY Zenon, <1>1, <1>2, <1>4

\* The largest key goes last.
LEMMA ListedMore ==
    ASSUME NEW n \in Nat, Listed(n)
    PROVE  Listed(n + 1)
<1> SUFFICES ASSUME NEW S \in SUBSET (0 .. (n + 1) - 1)
             PROVE  \E m \in 0 .. n + 1 : \E s \in [1 .. m -> S] : Lists(s, S)
  BY Zenon DEF Listed
<1> DEFINE T == S \ {n}
<1>1. T \in SUBSET (0 .. n - 1)
  OBVIOUS
<1>2. PICK m \in 0 .. n : \E s \in [1 .. m -> T] : Lists(s, T)
  BY Zenon, <1>1 DEF Listed
<1>3. PICK s \in [1 .. m -> T] : Lists(s, T)
  BY Zenon, <1>2
<1>4. CASE n \notin S
  <2>1. T = S /\ m \in 0 .. n + 1
    BY <1>4
  <2> QED BY Zenon, <1>3, <2>1
<1>5. CASE n \in S
  <2> DEFINE u == [i \in 1 .. m + 1 |-> IF i = m + 1 THEN n ELSE s[i]]
  <2>1. m + 1 \in 0 .. n + 1 /\ m + 1 \in 1 .. m + 1
    OBVIOUS
  <2>2. \A i \in 1 .. m + 1 : i # m + 1 => i \in 1 .. m
    OBVIOUS
  <2>3. \A i \in 1 .. m : i \in 1 .. m + 1 /\ i # m + 1
    OBVIOUS
  <2>4. u \in [1 .. m + 1 -> S]
    BY Zenon, <1>5, <2>2
  <2>5. u[m + 1] = n /\ \A i \in 1 .. m : u[i] = s[i]
    BY Zenon, <2>1, <2>3
  <2>6. DOMAIN u = 1 .. m + 1 /\ DOMAIN s = 1 .. m
    BY Zenon
  <2> HIDE DEF u
  <2>7. Range(s) = T /\ \A i, j \in 1 .. m : i < j => s[i] < s[j]
    BY Zenon, <1>3, <2>6 DEF Lists
  <2>8. Range(u) = S
    <3>1. \A x \in Range(u) : x \in S
      BY Zenon, <2>4, <2>6 DEF Range
    <3>2. ASSUME NEW x \in S PROVE x \in Range(u)
      <4>1. CASE x = n
        BY Zenon, <2>1, <2>5, <2>6, <4>1 DEF Range
      <4>2. CASE x # n
        <5>1. x \in Range(s)
          BY Zenon, <2>7, <4>2
        <5>2. PICK i \in 1 .. m : x = s[i]
          BY Zenon, <2>6, <5>1 DEF Range
        <5> QED BY Zenon, <2>3, <2>5, <2>6, <5>2 DEF Range
      <4> QED BY Zenon, <4>1, <4>2
    <3> QED BY Zenon, <3>1, <3>2
  <2>9. ASSUME NEW i \in 1 .. m + 1, NEW j \in 1 .. m + 1, i < j PROVE u[i] < u[j]
    <3>1. i \in 1 .. m
      BY <2>9
    <3>2. CASE j = m + 1
      <4>1. s[i] \in 0 .. n - 1
        BY Zenon, <1>1, <3>1
      <4>2. s[i] < n
        BY <4>1
      <4> QED BY Zenon, <2>5, <3>1, <3>2, <4>2
    <3>3. CASE j # m + 1
      BY Zenon, <2>2, <2>5, <2>7, <2>9, <3>1, <3>3
    <3> QED BY Zenon, <3>2, <3>3
  <2>10. Lists(u, S)
    BY Zenon, <2>6, <2>8, <2>9 DEF Lists
  <2> QED BY Zenon, <2>1, <2>4, <2>10
<1> QED BY Zenon, <1>4, <1>5

\* Any set of keys below a bound can be listed in increasing order.
LEMMA ListedAll == \A n \in Nat : Listed(n)
<1> SUFFICES ASSUME NEW x \in Nat, ~Listed(x) PROVE FALSE
  BY Zenon
<1> DEFINE T == {n \in Nat : ~Listed(n)}
<1>1. PICK n \in T : \A k \in T : n =< k
  <2>1. T \in SUBSET Nat /\ T # {}
    BY Zenon
  <2> HIDE DEF T
  <2> QED BY Zenon, <2>1, LeastNat
<1>2. n # 0
  BY Zenon, ListedNone
<1>3. n - 1 \in Nat /\ ~(n =< n - 1) /\ (n - 1) + 1 = n
  BY <1>2
<1>4. Listed(n - 1)
  BY Zenon, <1>1, <1>3
<1>5. Listed((n - 1) + 1)
  BY Zenon, <1>3, <1>4, ListedMore
<1> QED BY Zenon, <1>3, <1>5

\* fatbit_iterate lists each of the keys held once.
LEMMA Iterated ==
    ASSUME NEW held \in SUBSET Dkeys
    PROVE  /\ \E n \in Nat : fatbit_iterate(held) \in [1 .. n -> held]
           /\ Range(fatbit_iterate(held)) = held
           /\ \A i, j \in DOMAIN fatbit_iterate(held) :
                 fatbit_iterate(held)[i] = fatbit_iterate(held)[j] => i = j
<1> DEFINE All == UNION {[1 .. n -> held] : n \in 0 .. DkeyCount}
           keys == fatbit_iterate(held)
<1>1. DkeyCount \in Nat /\ held \in SUBSET (0 .. DkeyCount - 1)
  BY Zenon, DeduperAssumption DEF Dkeys
<1>2. PICK m \in 0 .. DkeyCount : \E s \in [1 .. m -> held] : Lists(s, held)
  BY Zenon, <1>1, ListedAll DEF Listed
<1>3. \E s \in All : Lists(s, held)
  BY Zenon, <1>2
<1>4. keys = CHOOSE s \in All : Lists(s, held)
  BY Zenon DEF fatbit_iterate, Lists
<1> HIDE DEF keys
<1>5. keys \in All /\ Lists(keys, held)
  BY Zenon, <1>3, <1>4
<1>6. PICK n \in 0 .. DkeyCount : keys \in [1 .. n -> held]
  BY Zenon, <1>5
<1>7. n \in Nat /\ DOMAIN keys = 1 .. n
  BY <1>6
<1>8. ASSUME NEW i \in 1 .. n, NEW j \in 1 .. n, keys[i] = keys[j] PROVE i = j
  <2>1. i < j => keys[i] < keys[j]
    BY Zenon, <1>5, <1>7 DEF Lists
  <2>2. j < i => keys[j] < keys[i]
    BY Zenon, <1>5, <1>7 DEF Lists
  <2>3. keys[i] \in 0 .. DkeyCount - 1
    BY Zenon, <1>1, <1>6
  <2> QED BY <1>1, <1>8, <2>1, <2>2, <2>3
<1> QED BY Zenon, <1>5, <1>6, <1>7, <1>8 DEF keys, Lists

\* s raises what is held in a log, once.
Clears(s, held, to) ==
    /\ s \in Seq(Reports) /\ Once(s)
    /\ \A m : m \in Range(s) <=> \E k \in DOMAIN held : m = Match(k, held[k], to)

\* What clearSomLog raises.
LEMMA Cleared ==
    ASSUME NEW sl \in SomLogs, NEW i \in Parities, NEW to,
           to \in Offsets \/ sl[i] = <<>>
    PROVE  Clears(clearSomLog(sl, i, to), sl[i], to)
<1> DEFINE held == DOMAIN sl[i]
           keys == fatbit_iterate(held)
           M(k) == Match(k, sl[i][k], to)
           s == clearSomLog(sl, i, to)
<1>1. PICK K \in SUBSET SomKeys : sl[i] \in [K -> Offsets]
  <2>1. sl[i] \in UNION {[k -> Offsets] : k \in SUBSET SomKeys}
    BY Zenon DEF SomLogs
  <2> QED BY <2>1
<1>2. held \in SUBSET Dkeys /\ held = K
  BY Zenon, <1>1, DeduperAssumption
<1>3. PICK n \in Nat : keys \in [1 .. n -> held]
  BY Zenon, <1>2, Iterated
<1>4. /\ Range(keys) = held
      /\ \A a, b \in DOMAIN keys : keys[a] = keys[b] => a = b
  BY Zenon, <1>2, Iterated
<1>5. s = [a \in DOMAIN keys |-> M(keys[a])]
  BY Zenon DEF clearSomLog
<1>6. DOMAIN keys = 1 .. n
  BY Zenon, <1>3
<1>7. \A k : M(k).key = k
  BY DEF Match
<1>8. ASSUME NEW k \in held PROVE M(k) \in Reports
  <2>1. sl[i][k] \in Offsets /\ k \in Dkeys
    BY Zenon, <1>1, <1>2
  <2>2. to \in Offsets
    <3>1. CASE sl[i] = <<>>
      BY <3>1
    <3> QED BY Zenon, <3>1
  <2> QED BY <2>1, <2>2 DEF Reports, Match
<1> HIDE DEF keys, s, M, held
<1>9. DOMAIN s = 1 .. n /\ \A a \in 1 .. n : s[a] = M(keys[a])
  BY Zenon, <1>5, <1>6
<1>10. \A m : m \in Range(s) <=> \E k \in held : m = M(k)
  <2>1. \A k : k \in held <=> \E a \in 1 .. n : k = keys[a]
    BY Zenon, <1>4, <1>6 DEF Range
  <2>2. \A m : m \in Range(s) <=> \E a \in 1 .. n : m = s[a]
    BY Zenon, <1>9 DEF Range
  <2>3. ASSUME NEW m \in Range(s) PROVE \E k \in held : m = M(k)
    <3>1. PICK a \in 1 .. n : m = s[a]
      BY Zenon, <2>2
    <3> QED BY Zenon, <1>9, <2>1, <3>1
  <2>4. ASSUME NEW k \in held PROVE M(k) \in Range(s)
    <3>1. PICK a \in 1 .. n : k = keys[a]
      BY Zenon, <2>1
    <3> QED BY Zenon, <1>9, <2>2, <3>1
  <2> QED BY Zenon, <2>3, <2>4
<1>11. s \in Seq(Reports)
  <2>1. \A a \in 1 .. n : s[a] \in Reports
    BY Zenon, <1>3, <1>8, <1>9
  <2>2. s \in [1 .. n -> Reports]
    BY Zenon, <1>5, <1>6, <2>1
  <2> QED BY Zenon, <2>2, SeqDef
<1>12. Once(s)
  <2>1. ASSUME NEW a \in 1 .. n, NEW b \in 1 .. n, s[a].key = s[b].key PROVE a = b
    <3>1. s[a].key = keys[a] /\ s[b].key = keys[b]
      BY Zenon, <1>7, <1>9
    <3> QED BY Zenon, <1>4, <1>6, <2>1, <3>1
  <2> QED BY Zenon, <1>9, <2>1 DEF Once, Same
<1> QED BY Zenon, <1>10, <1>11, <1>12 DEF s, M, held, Clears

\* Reports that no report before them is the same as can be added.
LEMMA OnceJoined ==
    ASSUME NEW s \in Seq(Reports), NEW t \in Seq(Reports), Once(s), Once(t),
           \A m \in Range(s), r \in Range(t) : m.key \in Dkeys => ~Same(m, r)
    PROVE  Once(s \o t)
<1>1. /\ Len(s) \in Nat /\ Len(t) \in Nat /\ DOMAIN s = 1 .. Len(s) /\ DOMAIN t = 1 .. Len(t)
      /\ s \o t \in Seq(Reports) /\ Len(s \o t) = Len(s) + Len(t)
  BY ConcatProperties, LenProperties
<1>2. \A i \in 1 .. Len(s) + Len(t) :
         (s \o t)[i] = IF i =< Len(s) THEN s[i] ELSE t[i - Len(s)]
  BY Zenon, ConcatProperties
<1>3. DOMAIN (s \o t) = 1 .. Len(s) + Len(t)
  BY <1>1, LenProperties
<1>4. ASSUME NEW i \in 1 .. Len(s) + Len(t)
      PROVE  \/ i \in DOMAIN s /\ (s \o t)[i] = s[i]
             \/ i - Len(s) \in DOMAIN t /\ (s \o t)[i] = t[i - Len(s)]
  <2>1. CASE i =< Len(s)
    BY <1>1, <1>2, <2>1
  <2>2. CASE ~(i =< Len(s))
    BY <1>1, <1>2, <2>2
  <2> QED BY Zenon, <2>1, <2>2
<1>5. /\ \A i \in DOMAIN s : s[i] \in Range(s)
      /\ \A i \in DOMAIN t : t[i] \in Range(t)
  BY Zenon DEF Range
<1>6. ASSUME NEW i \in 1 .. Len(s) + Len(t), NEW j \in 1 .. Len(s) + Len(t),
             (s \o t)[i].key \in Dkeys, Same((s \o t)[i], (s \o t)[j])
      PROVE  i = j
  <2>0. (s \o t)[j].key \in Dkeys /\ Same((s \o t)[j], (s \o t)[i])
    BY Zenon, <1>6 DEF Same
  <2>1. CASE i \in DOMAIN s /\ j \in DOMAIN s /\ (s \o t)[i] = s[i] /\ (s \o t)[j] = s[j]
    BY Zenon, <1>6, <2>1 DEF Once
  <2>2. CASE /\ i - Len(s) \in DOMAIN t /\ (s \o t)[i] = t[i - Len(s)]
             /\ j - Len(s) \in DOMAIN t /\ (s \o t)[j] = t[j - Len(s)]
    <3>1. i - Len(s) = j - Len(s)
      BY Zenon, <1>6, <2>2 DEF Once
    <3> QED BY <1>1, <3>1
  <2>3. CASE /\ i \in DOMAIN s /\ (s \o t)[i] = s[i]
             /\ j - Len(s) \in DOMAIN t /\ (s \o t)[j] = t[j - Len(s)]
    BY Zenon, <1>5, <1>6, <2>3
  <2>4. CASE /\ j \in DOMAIN s /\ (s \o t)[j] = s[j]
             /\ i - Len(s) \in DOMAIN t /\ (s \o t)[i] = t[i - Len(s)]
    BY Zenon, <1>5, <2>0, <2>4
  <2> QED BY Zenon, <1>4, <2>1, <2>2, <2>3, <2>4
<1> QED BY Zenon, <1>3, <1>6 DEF Once

\* So can the first few of them.
LEMMA OncePrefix ==
    ASSUME NEW s \in Seq(Reports), NEW n \in 1 .. Len(s)
    PROVE  /\ SubSeq(s, 1, n) \in Seq(Reports)
           /\ Range(SubSeq(s, 1, n)) \subseteq Range(s)
           /\ Once(s) => Once(SubSeq(s, 1, n))
<1> DEFINE u == SubSeq(s, 1, n)
<1>1. Len(s) \in Nat /\ n \in Nat /\ DOMAIN s = 1 .. Len(s)
  BY LenProperties
<1>2. u = [i \in 1 .. n |-> s[i]]
  <2>1. u = [i \in 1 .. (n - 1 + 1) |-> s[i + 1 - 1]]
    BY <1>1
  <2>2. n - 1 + 1 = n /\ \A i \in 1 .. n : i + 1 - 1 = i
    BY <1>1
  <2> HIDE DEF u
  <2> QED BY Zenon, <2>1, <2>2
<1> HIDE DEF u
<1>3. \A i \in 1 .. n : i \in DOMAIN s /\ u[i] = s[i]
  BY <1>1, <1>2
<1>4. DOMAIN u = 1 .. n
  BY Zenon, <1>2
<1>5. \A i \in 1 .. n : s[i] \in Reports
  BY <1>1, <1>3, ElementOfSeq
<1>6. u \in Seq(Reports)
  BY <1>1, <1>2, <1>5, SeqDef
<1>7. Range(u) \subseteq Range(s)
  BY Zenon, <1>3, <1>4 DEF Range
<1>8. Once(s) => Once(u)
  BY Zenon, <1>3, <1>4 DEF Once
<1> QED BY Zenon, <1>6, <1>7, <1>8 DEF u

-----------------------------------------------------------------------------
(* What a flush raises.                                                    *)

\* s raises the leftmost of the reports of R that are held for the end offset to.
Raises(s, R, to) ==
    /\ s \in Seq(Reports) /\ Once(s)
    /\ \A m \in Range(s) : m \in R /\ m.key \in SomKeys /\ Leftmost(R, m) /\ m.to = to
    /\ \A r \in R : r.key \in SomKeys /\ r.to = to => \E m \in Range(s) : Same(m, r)

\* Offsets are far from 2^64: the offset before one wraps only at 0.
LEMMA Before ==
    ASSUME NEW c \in Offsets
    PROVE  /\ c \in Int /\ c >= 0 /\ NoOffset \notin Offsets /\ NoOffset > c + 1
           /\ c > 0 => (c - 1) % U64 = c - 1 /\ c - 1 \in Offsets
           /\ c = 0 => (c - 1) % U64 = NoOffset
           /\ ((c - 1) % U64) % 2 = (c - 1) % 2
           /\ (c + 1) % U64 = c + 1 /\ (NoOffset + 1) % U64 = 0
<1>1. /\ U64 \in Nat /\ U64 % 2 = 0 /\ MaxOffset \in Nat /\ MaxOffset < U64 - 2
      /\ c \in 0 .. MaxOffset /\ NoOffset = U64 - 1
  BY DeduperAssumption DEF Offsets, NoOffset
<1>2. c > 0 => (c - 1) % U64 = c - 1
  BY <1>1
<1>3. (-1) % U64 = U64 - 1
  <2> DEFINE q == (-1) \div U64
             r == (-1) % U64
  <2>1. -1 = U64 * q + r /\ r \in 0 .. U64 - 1 /\ q \in Int
    BY <1>1
  <2> HIDE DEF q, r
  <2>2. q < 0
    BY <1>1, <2>1
  <2>3. q > -2
    <3> SUFFICES ASSUME q =< -2 PROVE FALSE
      BY <2>1
    <3>1. U64 * q =< U64 * (-2)
      BY <1>1, <2>1
    <3> QED BY <1>1, <2>1, <3>1
  <2>4. q = -1
    BY <2>1, <2>2, <2>3
  <2>5. U64 * q = -U64
    BY <1>1, <2>4
  <2>6. r = U64 - 1
    BY <1>1, <2>1, <2>5
  <2> QED BY Zenon, <2>6 DEF r
<1>4. (U64 - 1) % 2 = 1 /\ (-1) % 2 = 1
  <2>1. PICK h \in Nat : U64 = 2 * h
    BY <1>1
  <2>2. \A n \in Nat : (2 * n - 1) % 2 = 1
    OBVIOUS
  <2>3. (2 * h - 1) % 2 = 1
    BY Zenon, <2>2
  <2>4. (-1) % 2 = 1
    <3>1. 0 \in Nat /\ 2 * 0 - 1 = -1
      OBVIOUS
    <3> QED BY Zenon, <2>2, <3>1
  <2> QED BY Zenon, <2>1, <2>3, <2>4
<1>5. c = 0 => c - 1 = -1
  BY <1>1
<1>6. (c + 1) % U64 = c + 1
  BY <1>1
<1>7. U64 % U64 = 0
  BY <1>1
<1>8. NoOffset + 1 = U64 /\ NoOffset > c + 1 /\ c >= 0 /\ c \in Int
  BY <1>1
<1>9. ((c - 1) % U64) % 2 = (c - 1) % 2
  <2>1. CASE c > 0
    BY Zenon, <1>2, <2>1
  <2>2. CASE c = 0
    BY Zenon, <1>3, <1>4, <1>5, <2>2
  <2> QED BY <1>1, <2>1, <2>2
<1>10. NoOffset \notin Offsets /\ (c > 0 => c - 1 \in Offsets)
  BY <1>1 DEF Offsets
<1>11. c = 0 => (c - 1) % U64 = NoOffset
  BY Zenon, <1>1, <1>3, <1>5
<1> QED BY Zenon, <1>2, <1>6, <1>7, <1>8, <1>9, <1>10, <1>11

\* Two end offsets are live, and the parity tells them apart.
LEMMA Ends ==
    ASSUME NEW c \in Offsets
    PROVE  /\ c \in EndsAt(c) /\ (c > 0 => c - 1 \in EndsAt(c)) /\ EndsAt(c) \subseteq Offsets
           /\ \A t \in EndsAt(c) : (t = c \/ t = c - 1) /\ t % 2 \in Parities
           /\ \A t, u \in EndsAt(c) : t % 2 = u % 2 => t = u
           /\ \A r \in Reports : r.to >= c - 1 /\ r.to =< c => r.to \in EndsAt(c)
<1>1. MaxOffset \in Nat /\ c \in 0 .. MaxOffset
  BY Zenon, DeduperAssumption DEF Offsets
<1>2. \A t : t \in EndsAt(c) <=> (t = c \/ t = c - 1) /\ t \in 0 .. MaxOffset
  BY Zenon DEF EndsAt, Offsets
<1>3. c % 2 # (c - 1) % 2 /\ c % 2 \in Parities /\ (c - 1) % 2 \in Parities
  BY <1>1, Parity
<1>4. c > 0 => c - 1 \in 0 .. MaxOffset
  BY <1>1
<1>5. ASSUME NEW r \in Reports, r.to >= c - 1, r.to =< c PROVE r.to \in EndsAt(c)
  <2>1. r.to \in 0 .. MaxOffset
    BY DEF Reports, Offsets
  <2>2. r.to = c \/ r.to = c - 1
    BY <1>1, <1>5, <2>1
  <2> QED BY Zenon, <1>2, <2>1, <2>2
<1>6. \A t, u \in EndsAt(c) : t % 2 = u % 2 => t = u
  BY <1>2, <1>3
<1>7. \A t \in EndsAt(c) : (t = c \/ t = c - 1) /\ t % 2 \in Parities
  BY Zenon, <1>2, <1>3
<1>8. c \in EndsAt(c) /\ (c > 0 => c - 1 \in EndsAt(c)) /\ EndsAt(c) \subseteq Offsets
  BY Zenon, <1>1, <1>2, <1>4 DEF Offsets
<1> QED BY Zenon, <1>5, <1>6, <1>7, <1>8

\* The log of a live end offset holds what is to be raised for it.
LEMMA ClearRaises ==
    ASSUME NEW sl \in SomLogs, NEW R \in SUBSET Reports, NEW c \in Offsets, Held(sl, c, R),
           NEW to \in {(c - 1) % U64, c}
    PROVE  Raises(clearSomLog(sl, to % 2, to), R, to)
<1> DEFINE i == to % 2
           s == clearSomLog(sl, i, to)
<1>1. i \in Parities
  <2>1. c \in Int /\ ((c - 1) % U64) % 2 = (c - 1) % 2
    BY Zenon, Before
  <2>2. c % 2 \in Parities /\ (c - 1) % 2 \in Parities
    BY Zenon, <2>1, Parity
  <2> QED BY Zenon, <2>1, <2>2
<1>0. to \in Offsets \/ sl[i] = <<>> => Clears(s, sl[i], to)
  <2> HIDE DEF i
  <2> QED BY Zenon, <1>1, Cleared
<1>2. CASE to \in EndsAt(c)
  <2>1. to \in Offsets
    BY Zenon, <1>2, Ends
  <2>2. /\ s \in Seq(Reports) /\ Once(s)
        /\ \A m : m \in Range(s) <=> \E k \in DOMAIN sl[i] : m = Match(k, sl[i][k], to)
    BY Zenon, <1>0, <2>1 DEF Clears
  <2>3. DOMAIN sl[i] \subseteq SomKeys
    <3>1. sl[i] \in UNION {[k -> Offsets] : k \in SUBSET SomKeys}
      BY Zenon, <1>1 DEF SomLogs
    <3> QED BY <3>1
  <2>4. /\ \A k \in SomKeys : k \in DOMAIN sl[i] <=> \E r \in R : r.key = k /\ r.to = to
        /\ \A k \in SomKeys : k \in DOMAIN sl[i] =>
                /\ Match(k, sl[i][k], to) \in R
                /\ Leftmost(R, Match(k, sl[i][k], to))
    BY Zenon, <1>2 DEF Held
  <2>5. \A k : Match(k, sl[i][k], to).key = k /\ Match(k, sl[i][k], to).to = to
    BY DEF Match
  <2> HIDE DEF s, i
  <2>6. ASSUME NEW m \in Range(s)
        PROVE  m \in R /\ m.key \in SomKeys /\ Leftmost(R, m) /\ m.to = to
    <3>1. PICK k \in DOMAIN sl[i] : m = Match(k, sl[i][k], to)
      BY Zenon, <2>2
    <3> QED BY Zenon, <2>3, <2>4, <2>5, <3>1
  <2>7. ASSUME NEW r \in R, r.key \in SomKeys, r.to = to
        PROVE  \E m \in Range(s) : Same(m, r)
    <3> DEFINE k == r.key
               m == Match(k, sl[i][k], to)
    <3>1. k \in DOMAIN sl[i]
      BY Zenon, <2>4, <2>7
    <3>2. m \in Range(s)
      BY Zenon, <2>2, <3>1
    <3>3. m.key = k /\ m.to = to
      BY Zenon, <2>5
    <3> HIDE DEF m
    <3> QED BY Zenon, <2>7, <3>2, <3>3 DEF Same
  <2> QED BY Zenon, <2>2, <2>6, <2>7 DEF Raises, s, i
<1>3. CASE to \notin EndsAt(c)
  <2>1. c = 0 /\ to = NoOffset /\ i = 1
    <3>1. c \in EndsAt(c) /\ (c > 0 => c - 1 \in EndsAt(c))
      BY Zenon, Ends
    <3>2. c >= 0 /\ c \in Int
      BY Zenon, Before
    <3>3. to = (c - 1) % U64 /\ ~(c > 0)
      BY Zenon, <1>3, <3>1, Before
    <3>4. c = 0
      BY <3>2, <3>3
    <3>5. to = NoOffset /\ i = (c - 1) % 2
      BY Zenon, <3>3, <3>4, Before
    <3> QED BY <3>4, <3>5
  <2>2. sl[i] = <<>>
    BY Zenon, <2>1 DEF Held
  <2>3. DOMAIN sl[i] = {}
    BY <2>2
  <2>4. /\ s \in Seq(Reports) /\ Once(s)
        /\ \A m : m \in Range(s) <=> \E k \in DOMAIN sl[i] : m = Match(k, sl[i][k], to)
    BY Zenon, <1>0, <2>2 DEF Clears
  <2>5. \A r \in R : r.to # to
    <3>1. \A r \in R : r.to \in Offsets
      BY DEF Reports
    <3> QED BY Zenon, <2>1, <3>1, Before
  <2> HIDE DEF s, i
  <2> QED BY Zenon, <2>3, <2>4, <2>5 DEF Raises, s, i
<1> QED BY Zenon, <1>2, <1>3

\* H raises the leftmost of the reports of R at c held for the end offsets that
\* are no longer live at the offset at.
Flushes(H, R, c, at) ==
    /\ H \in Seq(Reports) /\ Once(H)
    /\ \A m \in Range(H) : /\ m \in R /\ m.key \in SomKeys /\ Leftmost(R, m)
                           /\ m.to >= c - 1 /\ m.to < at - 1
    /\ \A r \in R : r.key \in SomKeys /\ r.to >= c - 1 /\ r.to < at - 1 =>
                       \E m \in Range(H) : Same(m, r)

\* What a flush leaves of the logs and their dirty bits.
Leaves(sl, dirty, c, at, left, bits) ==
    /\ left \in SomLogs /\ bits \in 0 .. 3
    /\ at = c + 1 => /\ left[c % 2] = sl[c % 2] /\ left[(c - 1) % 2] = <<>>
                     /\ bits = dirty \div 2
    /\ at # c + 1 => left = NoneHeld /\ bits = 0

\* Logs that hold nothing are logs.
LEMMA NoneHeldType ==
    /\ NoneHeld \in SomLogs /\ \A i \in Parities : NoneHeld[i] = <<>>
    /\ <<>> \in UNION {[keys -> Offsets] : keys \in SUBSET SomKeys}
<1>1. <<>> \in [{} -> Offsets]
  OBVIOUS
<1>2. <<>> \in UNION {[k -> Offsets] : k \in SUBSET SomKeys}
  BY Zenon, <1>1
<1> QED BY Zenon, <1>2 DEF NoneHeld, SomLogs

\* Raising nothing is raising nothing twice.
LEMMA NothingRaised == <<>> \in Seq(Reports) /\ Once(<<>>) /\ Range(<<>>) = {}
<1>1. <<>> \in Seq(Reports) /\ DOMAIN <<>> = {}
  OBVIOUS
<1> QED BY Zenon, <1>1 DEF Once, Range

\* Two logs raised one after the other.
LEMMA RaisesJoined ==
    ASSUME NEW s, NEW t, NEW R, NEW a, NEW b, a # b, Raises(s, R, a), Raises(t, R, b)
    PROVE  /\ s \o t \in Seq(Reports) /\ Once(s \o t)
           /\ Range(s \o t) = Range(s) \cup Range(t)
<1>1. s \in Seq(Reports) /\ t \in Seq(Reports) /\ Once(s) /\ Once(t)
  BY Zenon DEF Raises
<1>2. /\ \A m \in Range(s) : m.to = a
      /\ \A m \in Range(t) : m.to = b
  BY Zenon DEF Raises
<1>3. \A m \in Range(s), r \in Range(t) : m.key \in Dkeys => ~Same(m, r)
  BY <1>2 DEF Same
<1>4. Once(s \o t)
  BY Zenon, <1>1, <1>3, OnceJoined
<1> QED BY <1>1, <1>4, RangeConcatenation, ConcatProperties

\* The deduper at the offset c, where R was reported.
HeldBack(sl, dirty, c, R) ==
    Held(sl, c, R) /\ Clean(sl, dirty, c) /\ \A r \in R : r.to =< c

\* flushStoredSomMatches raises what is due and keeps the rest.
LEMMA FlushRaises ==
    ASSUME NEW sl \in SomLogs, NEW dirty \in 0 .. 3, NEW R \in SUBSET Reports, NEW at \in Int,
           current_report_offset \in Offsets, at > current_report_offset,
           HeldBack(sl, dirty, current_report_offset, R)
    PROVE  /\ Flushes(flushStoredSomMatches(sl, dirty, at).older
                        \o flushStoredSomMatches(sl, dirty, at).newer,
                      R, current_report_offset, at)
           /\ Leaves(sl, dirty, current_report_offset, at,
                     flushStoredSomMatches(sl, dirty, at).som_log,
                     flushStoredSomMatches(sl, dirty, at).dirty)
<1> DEFINE c == current_report_offset
           before == (c - 1) % U64
           P == flushStoredSomMatches(sl, dirty, at)
           H == P.older \o P.newer
           older == clearSomLog(sl, (c - 1) % 2, before)
           newer == clearSomLog(sl, c % 2, c)
<1>0. /\ c \in Int /\ c >= 0 /\ c # NoOffset
      /\ c > 0 => before = c - 1
      /\ c = 0 => before = NoOffset
      /\ before % 2 = (c - 1) % 2 /\ NoOffset \notin Offsets /\ NoOffset > c + 1
  BY Zenon, Before
<1>1. /\ c % 2 \in Parities /\ (c - 1) % 2 \in Parities
      /\ c % 2 # (c - 1) % 2 /\ (c + 1) % 2 = (c - 1) % 2
      /\ \A i \in Parities : i = c % 2 \/ i = (c - 1) % 2
  BY Zenon, <1>0, Parity
<1>2. Held(sl, c, R) /\ Clean(sl, dirty, c) /\ \A r \in R : r.to =< c
  BY Zenon DEF HeldBack
<1>3. \A r \in R : r \in Reports /\ r.to \in Offsets /\ r.to \in Int
  BY DeduperAssumption DEF Reports, Offsets
<1>4. Raises(older, R, before) /\ Raises(newer, R, c)
  BY Zenon, <1>0, <1>2, ClearRaises
<1>5. before # c
  BY <1>0
<1>6. DOMAIN sl = Parities
  BY DEF SomLogs
<1>10. at > c
  OBVIOUS
<1>7. CASE dirty = 0
  <2>1. P.older = <<>> /\ P.newer = <<>> /\ P.som_log = sl /\ P.dirty = 0
    BY <1>7 DEF flushStoredSomMatches
  <2>2. dirty % 2 = 0 /\ dirty < 2
    BY <1>7
  <2>3. sl[c % 2] = <<>> /\ sl[(c - 1) % 2] = <<>>
    BY Zenon, <1>2, <2>2 DEF Clean
  <2>4. sl = NoneHeld
    BY Zenon, <1>1, <1>6, <2>3 DEF NoneHeld, SomLogs
  <2>5. H = <<>>
    BY <2>1
  <2>6. ASSUME NEW r \in R, r.key \in SomKeys, r.to >= c - 1 PROVE FALSE
    <3>1. r.to \in EndsAt(c) /\ (r.to = c \/ r.to = c - 1)
      BY Zenon, <1>2, <1>3, <2>6, Ends
    <3>2. r.key \in DOMAIN sl[r.to % 2]
      BY Zenon, <1>2, <2>6, <3>1 DEF Held
    <3>3. sl[r.to % 2] = <<>>
      BY Zenon, <2>3, <3>1
    <3> QED BY <3>2, <3>3
  <2> HIDE DEF H, P, c
  <2>7. Flushes(H, R, c, at)
    BY Zenon, <2>5, <2>6, NothingRaised DEF Flushes
  <2>8. 0 = dirty \div 2 /\ 0 \in 0 .. 3
    BY <1>7
  <2>9. Leaves(sl, dirty, c, at, P.som_log, P.dirty)
    BY Zenon, <2>1, <2>3, <2>4, <2>8 DEF Leaves
  <2> QED BY Zenon, <2>7, <2>9 DEF H, P, c
<1>8. CASE dirty # 0 /\ at = c + 1
  <2>1. /\ P.older = clearSomLog(sl, at % 2, before) /\ P.newer = <<>>
        /\ P.som_log = [sl EXCEPT ![at % 2] = <<>>] /\ P.dirty = dirty \div 2
    BY <1>0, <1>8 DEF flushStoredSomMatches
  <2>2. at % 2 = (c - 1) % 2
    BY Zenon, <1>1, <1>8
  <2>3. P.older = older
    BY Zenon, <2>1, <2>2
  <2> HIDE DEF older, newer, before
  <2>4. older \in Seq(Reports)
    BY Zenon, <1>4 DEF Raises
  <2>5. H = older
    BY <2>1, <2>3, <2>4
  <2> HIDE DEF H, P, c
  <2>6. ASSUME NEW m \in Range(H)
        PROVE  /\ m \in R /\ m.key \in SomKeys /\ Leftmost(R, m)
               /\ m.to >= c - 1 /\ m.to < at - 1
    <3>1. m \in R /\ m.key \in SomKeys /\ Leftmost(R, m) /\ m.to = before
      BY Zenon, <1>4, <2>5 DEF Raises
    <3>2. before \in Offsets
      BY Zenon, <1>3, <3>1
    <3>3. before = c - 1
      <4>1. c > 0 \/ c = 0
        BY <1>0
      <4> QED BY Zenon, <1>0, <3>2, <4>1
    <3> QED BY <1>0, <1>8, <3>1, <3>3
  <2>7. ASSUME NEW r \in R, r.key \in SomKeys, r.to >= c - 1, r.to < at - 1
        PROVE  \E m \in Range(H) : Same(m, r)
    <3>1. r.to = c - 1 /\ c > 0
      BY <1>0, <1>3, <1>8, <2>7, DeduperAssumption DEF Offsets
    <3>2. r.to = before
      BY Zenon, <1>0, <3>1
    <3> QED BY Zenon, <1>4, <2>5, <2>7, <3>2 DEF Raises
  <2>8. Flushes(H, R, c, at)
    BY Zenon, <1>4, <2>5, <2>6, <2>7 DEF Flushes, Raises
  <2>9. P.som_log \in SomLogs
    <3>1. <<>> \in UNION {[k -> Offsets] : k \in SUBSET SomKeys}
      BY Zenon, NoneHeldType
    <3> QED BY Zenon, <2>1, <3>1 DEF SomLogs
  <2>10. P.som_log[c % 2] = sl[c % 2] /\ P.som_log[(c - 1) % 2] = <<>>
    BY Zenon, <1>1, <1>6, <2>1, <2>2
  <2>11. dirty \div 2 \in 0 .. 3
    OBVIOUS
  <2>12. Leaves(sl, dirty, c, at, P.som_log, P.dirty)
    BY Zenon, <1>8, <2>1, <2>9, <2>10, <2>11 DEF Leaves
  <2> QED BY Zenon, <2>8, <2>12 DEF H, P, c
<1>9. CASE dirty # 0 /\ at # c + 1
  <2>1. /\ P.older = clearSomLog(sl, before % 2, before) /\ P.newer = newer
        /\ P.som_log = NoneHeld /\ P.dirty = 0
    BY <1>0, <1>9 DEF flushStoredSomMatches
  <2>2. P.older = older
    BY Zenon, <1>0, <2>1
  <2> HIDE DEF older, newer, before
  <2>3. H = older \o newer
    BY Zenon, <2>1, <2>2
  <2>4. /\ older \o newer \in Seq(Reports) /\ Once(older \o newer)
        /\ Range(older \o newer) = Range(older) \cup Range(newer)
    BY Zenon, <1>4, <1>5, RaisesJoined
  <2> HIDE DEF H, P, c
  <2>5. ASSUME NEW m \in Range(H)
        PROVE  /\ m \in R /\ m.key \in SomKeys /\ Leftmost(R, m)
               /\ m.to >= c - 1 /\ m.to < at - 1
    <3>1. m \in R /\ m.key \in SomKeys /\ Leftmost(R, m) /\ (m.to = before \/ m.to = c)
      BY Zenon, <1>4, <2>3, <2>4, <2>5 DEF Raises
    <3>2. m.to \in Offsets
      BY Zenon, <1>3, <3>1
    <3>3. c > 0 \/ c = 0
      BY <1>0
    <3>4. m.to = c - 1 \/ m.to = c
      BY Zenon, <1>0, <3>1, <3>2, <3>3
    <3> QED BY <1>0, <1>9, <1>10, <3>1, <3>4
  <2>6. ASSUME NEW r \in R, r.key \in SomKeys, r.to >= c - 1, r.to < at - 1
        PROVE  \E m \in Range(H) : Same(m, r)
    <3>1. r.to = c \/ (r.to = c - 1 /\ c > 0)
      BY <1>0, <1>2, <1>3, <2>6, DeduperAssumption DEF Offsets
    <3>2. r.to = c \/ r.to = before
      BY Zenon, <1>0, <3>1
    <3>3. \/ \E m \in Range(older) : Same(m, r)
          \/ \E m \in Range(newer) : Same(m, r)
      BY Zenon, <1>4, <2>6, <3>2 DEF Raises
    <3> QED BY Zenon, <2>3, <2>4, <3>3
  <2>7. Flushes(H, R, c, at)
    BY Zenon, <2>3, <2>4, <2>5, <2>6 DEF Flushes
  <2>8. 0 \in 0 .. 3
    OBVIOUS
  <2>9. Leaves(sl, dirty, c, at, P.som_log, P.dirty)
    BY Zenon, <1>9, <2>1, <2>8, NoneHeldType DEF Leaves
  <2> QED BY Zenon, <2>7, <2>9 DEF H, P, c
<1> QED BY Zenon, <1>7, <1>8, <1>9

-----------------------------------------------------------------------------
(* The scan moves on.                                                      *)

\* What a flush raises has not been raised before.
LEMMA FlushIsNew ==
    ASSUME NEW c \in Offsets, NEW R \in SUBSET Reports, NEW D \in Seq(Reports), NEW H,
           NEW at, Got(c, R, D, FALSE), Flushes(H, R, c, at)
    PROVE  \A m \in Range(D), r \in Range(H) : ~Same(m, r)
<1> SUFFICES ASSUME NEW m \in Range(D), NEW r \in Range(H), Same(m, r) PROVE FALSE
  BY Zenon
<1>1. r.key \in SomKeys /\ r.to >= c - 1
  BY Zenon DEF Flushes
<1>2. m.key = r.key /\ m.to = r.to
  BY Zenon DEF Same
<1>3. m \in R /\ m.to < c - 1
  BY Zenon, <1>1, <1>2 DEF Got
<1>4. m.to \in Int /\ c \in Int
  BY <1>3, DeduperAssumption DEF Reports, Offsets
<1> QED BY <1>1, <1>2, <1>3, <1>4

\* The callback has all that is due once a flush is done.
LEMMA GotMore ==
    ASSUME NEW c \in Offsets, NEW R \in SUBSET Reports, NEW D \in Seq(Reports), NEW H,
           NEW at \in Int, at > c, Got(c, R, D, FALSE), Flushes(H, R, c, at)
    PROVE  /\ Got(at, R, D \o H, FALSE)
           /\ at > c + 1 => Got(c, R, D \o H, TRUE)
<1> DEFINE E == D \o H
<1>1. H \in Seq(Reports) /\ Once(H)
  BY Zenon DEF Flushes
<1>2. \A m \in Range(D), r \in Range(H) : ~Same(m, r)
  BY Zenon, FlushIsNew
<1>3. Once(D)
  BY Zenon DEF Got
<1>4. Once(E)
  BY Zenon, <1>1, <1>2, <1>3, OnceJoined
<1>5. Range(E) = Range(D) \cup Range(H)
  BY <1>1, RangeConcatenation
<1>6. c \in Int /\ \A r \in R : r.to \in Int
  BY DeduperAssumption DEF Reports, Offsets
<1> HIDE DEF E
<1>7. \A r \in R : r.to =< c /\ (r.key \notin SomKeys => r.from = 0)
  BY Zenon DEF Got
<1>8. \A r \in R : r.to =< at
  BY <1>6, <1>7
<1>9. ASSUME NEW m \in Range(E)
      PROVE  m \in R /\ Leftmost(R, m) /\ (m.key \in SomKeys => m.to < at - 1)
  <2>1. CASE m \in Range(D)
    <3>1. m \in R /\ Leftmost(R, m) /\ (m.key \in SomKeys => m.to < c - 1)
      BY Zenon, <2>1 DEF Got
    <3>2. m.to < c - 1 => m.to < at - 1
      BY <1>6, <3>1
    <3> QED BY Zenon, <3>1, <3>2
  <2>2. CASE m \in Range(H)
    BY Zenon, <2>2 DEF Flushes
  <2> QED BY Zenon, <1>5, <2>1, <2>2
<1>10. ASSUME NEW r \in R
       PROVE  (r.key \in SomKeys /\ r.to >= at - 1) \/ \E m \in Range(E) : Same(m, r)
  <2>1. CASE r.key \in SomKeys /\ r.to >= c - 1
    <3>1. r.to >= at - 1 \/ r.to < at - 1
      BY <1>6
    <3>2. r.to < at - 1 => \E m \in Range(H) : Same(m, r)
      BY Zenon, <2>1 DEF Flushes
    <3> QED BY Zenon, <1>5, <2>1, <3>1, <3>2
  <2>2. CASE \E m \in Range(D) : Same(m, r)
    BY Zenon, <1>5, <2>2
  <2> QED BY Zenon, <2>1, <2>2 DEF Got
<1>11. Got(at, R, E, FALSE)
  BY Zenon, <1>4, <1>7, <1>8, <1>9, <1>10 DEF Got
<1>12. ASSUME at > c + 1 PROVE Got(c, R, E, TRUE)
  <2>1. \A r \in R : ~(r.to >= at - 1)
    BY <1>6, <1>7, <1>12
  <2> QED BY Zenon, <1>4, <1>7, <1>9, <1>10, <2>1 DEF Got
<1> QED BY Zenon, <1>11, <1>12 DEF E

PlainLogs == [Parities -> SUBSET (Dkeys \ SomKeys)]

\* The log of plain keys is cleared of the end offsets left behind.
LEMMA LoggedLater ==
    ASSUME log \in PlainLogs, current_report_offset \in Offsets, NEW R \in SUBSET Reports,
           NEW at \in Offsets, at > current_report_offset,
           \A r \in R : r.to =< current_report_offset,
           Logged(log, current_report_offset, R)
    PROVE  ClearedLogs(at) \in PlainLogs /\ Logged(ClearedLogs(at), at, R)
<1> DEFINE c == current_report_offset
           lg == ClearedLogs(at)
<1>1. c \in Int /\ at \in Int /\ at > c /\ c >= 0 /\ (c + 1) % U64 = c + 1
  BY Zenon, Before
<1>2. /\ at % 2 \in Parities /\ c % 2 \in Parities
      /\ (c + 1) % 2 # c % 2
  BY <1>1, Parity
<1>3. DOMAIN log = Parities
  BY DEF PlainLogs
<1>4. \A r \in R : r.to \in Int /\ r.to =< c
  BY DeduperAssumption DEF Reports, Offsets
<1>5. \A t \in EndsAt(at) : (t = at \/ t = at - 1) /\ t % 2 \in Parities
  BY Zenon, Ends
<1>6. c \in EndsAt(c)
  BY Zenon, Ends
<1>7. CASE at = c + 1
  <2>1. lg = [log EXCEPT ![at % 2] = {}]
    <3>1. at # current_report_offset /\ at = (current_report_offset + 1) % U64
      BY <1>1, <1>7
    <3> QED BY Zenon, <3>1 DEF ClearedLogs
  <2> HIDE DEF lg
  <2>2. lg \in PlainLogs
    BY Zenon, <2>1 DEF PlainLogs
  <2>3. lg[at % 2] = {} /\ lg[c % 2] = log[c % 2]
    BY Zenon, <1>2, <1>3, <1>7, <2>1
  <2>4. at - 1 = c /\ \A r \in R : r.to # at
    BY <1>1, <1>4, <1>7
  <2>5. ASSUME NEW t \in EndsAt(at), NEW k \in Dkeys \ SomKeys
        PROVE  k \in lg[t % 2] <=> \E r \in R : r.key = k /\ r.to = t
    <3>1. CASE t = at
      BY Zenon, <2>3, <2>4, <3>1
    <3>2. CASE t = c
      <4>1. lg[t % 2] = log[t % 2] /\ t \in EndsAt(c)
        BY Zenon, <1>6, <2>3, <3>2
      <4> QED BY Zenon, <4>1 DEF Logged
    <3> QED BY Zenon, <1>5, <2>4, <3>1, <3>2
  <2> QED BY Zenon, <2>2, <2>5 DEF Logged, lg
<1>8. CASE at # c + 1
  <2>1. lg = [i \in Parities |-> {}]
    <3>1. at # current_report_offset /\ at # (current_report_offset + 1) % U64
      BY <1>1, <1>8
    <3> QED BY Zenon, <3>1 DEF ClearedLogs
  <2> HIDE DEF lg
  <2>2. lg \in PlainLogs
    BY Zenon, <2>1 DEF PlainLogs
  <2>3. \A i \in Parities : lg[i] = {}
    BY Zenon, <2>1
  <2>4. \A r \in R : r.to # at /\ r.to # at - 1
    BY <1>1, <1>4, <1>8
  <2> QED BY Zenon, <1>5, <2>2, <2>3, <2>4 DEF Logged, lg
<1> QED BY Zenon, <1>7, <1>8

\* What a flush leaves in the logs is what is held for the end offsets now live.
LEMMA HeldLater ==
    ASSUME NEW sl \in SomLogs, NEW dirty \in 0 .. 3, NEW c \in Offsets,
           NEW R \in SUBSET Reports, NEW at \in Offsets, at > c, NEW left, NEW bits,
           HeldBack(sl, dirty, c, R), Leaves(sl, dirty, c, at, left, bits)
    PROVE  Held(left, at, R) /\ Clean(left, bits, at)
<1>1. c \in Int /\ at \in Int /\ c >= 0
  BY Zenon, Before
<1>2. /\ at % 2 \in Parities /\ (at - 1) % 2 \in Parities
      /\ (c + 1) % 2 = (c - 1) % 2
  BY Zenon, <1>1, Parity
<1>3. /\ Held(sl, c, R) /\ Clean(sl, dirty, c)
      /\ \A r \in R : r.to =< c
  BY Zenon DEF HeldBack
<1>4. \A r \in R : r.to \in Int /\ r.to =< c
  BY <1>3, DeduperAssumption DEF Reports, Offsets
<1>5. \A t \in EndsAt(at) : (t = at \/ t = at - 1) /\ t % 2 \in Parities
  BY Zenon, Ends
<1>6. c \in EndsAt(c)
  BY Zenon, Ends
<1>7. at # 0
  BY <1>1
<1>8. CASE at = c + 1
  <2>1. /\ left[c % 2] = sl[c % 2] /\ left[at % 2] = <<>> /\ bits = dirty \div 2
    BY Zenon, <1>2, <1>8 DEF Leaves
  <2>2. at - 1 = c /\ \A r \in R : r.to # at
    BY <1>1, <1>4, <1>8
  <2>3. DOMAIN left[at % 2] = {}
    BY <2>1
  <2>4. ASSUME NEW t \in EndsAt(at), NEW k \in SomKeys
        PROVE  /\ k \in DOMAIN left[t % 2] <=> \E r \in R : r.key = k /\ r.to = t
               /\ k \in DOMAIN left[t % 2] =>
                     /\ Match(k, left[t % 2][k], t) \in R
                     /\ Leftmost(R, Match(k, left[t % 2][k], t))
    <3>1. CASE t = at
      BY Zenon, <2>2, <2>3, <3>1
    <3>2. CASE t = c
      <4>1. left[t % 2] = sl[t % 2] /\ t \in EndsAt(c)
        BY Zenon, <1>6, <2>1, <3>2
      <4> QED BY Zenon, <1>3, <4>1 DEF Held
    <3> QED BY Zenon, <1>5, <2>2, <3>1, <3>2
  <2>5. bits % 2 = 0 => dirty < 2
    BY <2>1
  <2>6. bits % 2 = 0 => left[(at - 1) % 2] = <<>>
    BY Zenon, <1>3, <2>1, <2>2, <2>5 DEF Clean
  <2> QED BY Zenon, <1>7, <2>1, <2>4, <2>6 DEF Held, Clean
<1>9. CASE at # c + 1
  <2>1. left = NoneHeld
    BY Zenon, <1>9 DEF Leaves
  <2>2. \A i \in Parities : left[i] = <<>>
    BY Zenon, <2>1, NoneHeldType
  <2>3. \A i \in Parities : DOMAIN left[i] = {}
    BY <2>2
  <2>4. \A r \in R : r.to # at /\ r.to # at - 1
    BY <1>1, <1>4, <1>9
  <2> QED BY Zenon, <1>2, <1>5, <1>7, <2>2, <2>3, <2>4 DEF Held, Clean
<1> QED BY Zenon, <1>8, <1>9

\* The flush of dedupeCatchup.
CatchupPlan(sl, dirty, at) ==
    IF at # current_report_offset
    THEN flushStoredSomMatches(sl, dirty, at)
    ELSE [older |-> <<>>, newer |-> <<>>, som_log |-> sl, dirty |-> dirty]

\* The reports of a plan.
Planned(plan) == plan.older \o plan.newer

\* H is new to the callback, and of end offsets that are no longer live.
Fresh(H, R, D, at) ==
    /\ H \in Seq(Reports) /\ Once(H)
    /\ \A m \in Range(H) : m \in R /\ m.key \in SomKeys /\ Leftmost(R, m) /\ m.to < at - 1
    /\ \A m \in Range(D), r \in Range(H) : ~Same(m, r)

\* The deduper before a report.
Live(sl, dirty, at, R, D, fl) ==
    IF current_report_offset = NoOffset
    THEN R = {} /\ D = <<>> /\ (dirty = 1 \/ (sl = NoneHeld /\ dirty = 0))
    ELSE /\ at >= current_report_offset
         /\ Caught(log, sl, dirty, current_report_offset, R, D, fl)

\* The deduper once it has caught up with the offset of the report.
Ready(plan, at, R, D, fl) ==
    /\ plan.som_log \in SomLogs /\ plan.dirty \in 0 .. 3 /\ ClearedLogs(at) \in PlainLogs
    /\ Fresh(Planned(plan), R, D, at) /\ (fl => Planned(plan) = <<>>)
    /\ Caught(ClearedLogs(at), plan.som_log, plan.dirty, at, R, D \o Planned(plan), fl)

\* A plan that raises nothing.
LEMMA NothingPlanned ==
    ASSUME NEW D \in Seq(Reports), NEW plan, plan.older = <<>>, plan.newer = <<>>
    PROVE  /\ Planned(plan) = <<>> /\ D \o Planned(plan) = D
           /\ \A R, at : Fresh(Planned(plan), R, D, at)
<1>1. Planned(plan) = <<>>
  BY DEF Planned
<1>2. D \o <<>> = D
  OBVIOUS
<1>3. \A R, at : Fresh(<<>>, R, D, at)
  BY Zenon, NothingRaised DEF Fresh
<1> QED BY Zenon, <1>1, <1>2, <1>3

\* At the offset of the last report there is nothing to do.
LEMMA CatchUpHere ==
    ASSUME NEW sl \in SomLogs, NEW dirty \in 0 .. 3, NEW R \in SUBSET Reports,
           NEW D \in Seq(Reports), NEW fl \in BOOLEAN, log \in PlainLogs,
           NEW at, at = current_report_offset, Caught(log, sl, dirty, at, R, D, fl)
    PROVE  Ready(CatchupPlan(sl, dirty, at), at, R, D, fl)
<1> DEFINE P == CatchupPlan(sl, dirty, at)
<1>1. P.older = <<>> /\ P.newer = <<>> /\ P.som_log = sl /\ P.dirty = dirty
  BY DEF CatchupPlan
<1>2. ClearedLogs(at) = log
  BY Zenon DEF ClearedLogs
<1> HIDE DEF P
<1>3. Planned(P) = <<>> /\ D \o Planned(P) = D /\ Fresh(Planned(P), R, D, at)
  BY Zenon, <1>1, NothingPlanned
<1> QED BY Zenon, <1>1, <1>2, <1>3 DEF Ready, P

\* Further on, what is held back for the end offsets left behind is raised.
LEMMA CatchUpLater ==
    ASSUME NEW sl \in SomLogs, NEW dirty \in 0 .. 3, NEW R \in SUBSET Reports,
           NEW D \in Seq(Reports), log \in PlainLogs, NEW at \in Offsets,
           current_report_offset \in Offsets, at > current_report_offset,
           Caught(log, sl, dirty, current_report_offset, R, D, FALSE)
    PROVE  Ready(CatchupPlan(sl, dirty, at), at, R, D, FALSE)
<1> DEFINE P == CatchupPlan(sl, dirty, at)
           c == current_report_offset
<1>1. at \in Int /\ c \in Int /\ at # c
  BY DeduperAssumption DEF Offsets
<1>2. P = flushStoredSomMatches(sl, dirty, at)
  BY Zenon, <1>1 DEF CatchupPlan
<1> HIDE DEF P
<1>3. Got(c, R, D, FALSE) /\ Logged(log, c, R) /\ Held(sl, c, R) /\ Clean(sl, dirty, c)
  BY Zenon DEF Caught
<1>4. \A r \in R : r.to =< c
  BY Zenon, <1>3 DEF Got
<1>5. HeldBack(sl, dirty, c, R)
  BY Zenon, <1>3, <1>4 DEF HeldBack
<1>6. Flushes(Planned(P), R, c, at) /\ Leaves(sl, dirty, c, at, P.som_log, P.dirty)
  BY Zenon, <1>1, <1>2, <1>5, FlushRaises DEF Planned
<1>7. Got(at, R, D \o Planned(P), FALSE)
  BY Zenon, <1>1, <1>3, <1>6, GotMore
<1>8. \A m \in Range(D), r \in Range(Planned(P)) : ~Same(m, r)
  BY Zenon, <1>3, <1>6, FlushIsNew
<1>9. Fresh(Planned(P), R, D, at)
  BY Zenon, <1>6, <1>8 DEF Fresh, Flushes
<1>10. ClearedLogs(at) \in PlainLogs /\ Logged(ClearedLogs(at), at, R)
  BY Zenon, <1>3, <1>4, LoggedLater
<1>11. Held(P.som_log, at, R) /\ Clean(P.som_log, P.dirty, at)
  BY Zenon, <1>5, <1>6, HeldLater
<1>12. P.som_log \in SomLogs /\ P.dirty \in 0 .. 3
  BY Zenon, <1>6 DEF Leaves
<1> QED BY Zenon, <1>7, <1>9, <1>10, <1>11, <1>12 DEF Ready, Caught, P

\* After the last flush of a call nothing is held back.
LEMMA CatchUpFlushed ==
    ASSUME NEW sl \in SomLogs, NEW dirty \in 0 .. 3, NEW R \in SUBSET Reports,
           NEW D \in Seq(Reports), log \in PlainLogs, NEW at \in Offsets,
           current_report_offset \in Offsets, at > current_report_offset,
           Caught(log, sl, dirty, current_report_offset, R, D, TRUE)
    PROVE  Ready(CatchupPlan(sl, dirty, at), at, R, D, TRUE)
<1> DEFINE P == CatchupPlan(sl, dirty, at)
           c == current_report_offset
<1>1. at \in Int /\ c \in Int /\ at # c
  BY DeduperAssumption DEF Offsets
<1>2. Got(c, R, D, TRUE) /\ Logged(log, c, R) /\ sl = NoneHeld /\ dirty = 0
  BY Zenon DEF Caught
<1>3. P.older = <<>> /\ P.newer = <<>> /\ P.som_log = sl /\ P.dirty = 0
  BY <1>1, <1>2 DEF CatchupPlan, flushStoredSomMatches
<1> HIDE DEF P
<1>4. Planned(P) = <<>> /\ D \o Planned(P) = D /\ Fresh(Planned(P), R, D, at)
  BY Zenon, <1>3, NothingPlanned
<1>5. \A r \in R : r.to \in Int /\ r.to =< c
  BY <1>2, DeduperAssumption DEF Got, Reports, Offsets
<1>6. \A r \in R : r.to =< at
  BY <1>1, <1>5
<1>7. Got(at, R, D, TRUE)
  BY Zenon, <1>2, <1>6 DEF Got
<1>8. ClearedLogs(at) \in PlainLogs /\ Logged(ClearedLogs(at), at, R)
  BY Zenon, <1>2, <1>5, LoggedLater
<1> QED BY Zenon, <1>2, <1>3, <1>4, <1>7, <1>8 DEF Ready, Caught, P

\* The first report of a call clears what earlier calls left.
LEMMA CatchUpFirst ==
    ASSUME NEW sl \in SomLogs, NEW dirty \in 0 .. 3, NEW fl \in BOOLEAN,
           log \in PlainLogs, NEW at \in Offsets, current_report_offset = NoOffset,
           dirty = 1 \/ (sl = NoneHeld /\ dirty = 0)
    PROVE  Ready(CatchupPlan(sl, dirty, at), at, {}, <<>>, fl)
<1> DEFINE P == CatchupPlan(sl, dirty, at)
<1>1. at # NoOffset /\ (NoOffset + 1) % U64 = 0
  BY Zenon, Before
<1>2. P = flushStoredSomMatches(sl, dirty, at)
  BY Zenon, <1>1 DEF CatchupPlan
<1>3. P.older = <<>> /\ P.newer = <<>> /\ P.som_log = NoneHeld /\ P.dirty = 0
  BY <1>2 DEF flushStoredSomMatches
<1> HIDE DEF P
<1>4. <<>> \in Seq(Reports) /\ Range(<<>>) = {} /\ Once(<<>>)
  BY Zenon, NothingRaised
<1>5. Planned(P) = <<>> /\ <<>> \o Planned(P) = <<>> /\ Fresh(Planned(P), {}, <<>>, at)
  BY Zenon, <1>3, <1>4, NothingPlanned
<1>6. Got(at, {}, <<>>, fl)
  BY Zenon, <1>4 DEF Got
<1>7. \A t \in EndsAt(at) : (t = at \/ t = at - 1) /\ t % 2 \in Parities /\ t \in Offsets
  BY Zenon, Ends
<1>8. /\ ClearedLogs(at) \in PlainLogs
      /\ \A t \in EndsAt(at) : ClearedLogs(at)[t % 2] = {}
  <2>1. CASE at = 0
    <3>1. ClearedLogs(at) = [log EXCEPT ![at % 2] = {}]
      BY Zenon, <1>1, <2>1 DEF ClearedLogs
    <3>2. \A t \in EndsAt(at) : t = at
      BY <1>7, <2>1, DeduperAssumption DEF Offsets
    <3>3. DOMAIN log = Parities /\ ClearedLogs(at) \in PlainLogs
      BY Zenon, <3>1 DEF PlainLogs
    <3> QED BY Zenon, <1>7, <3>1, <3>2, <3>3
  <2>2. CASE at # 0
    <3>1. ClearedLogs(at) = [i \in Parities |-> {}]
      BY Zenon, <1>1, <2>2 DEF ClearedLogs
    <3> QED BY Zenon, <1>7, <3>1 DEF PlainLogs
  <2> QED BY Zenon, <2>1, <2>2
<1>9. Logged(ClearedLogs(at), at, {})
  BY Zenon, <1>8 DEF Logged
<1>10. NoneHeld \in SomLogs /\ \A i \in Parities : NoneHeld[i] = <<>>
  BY Zenon, NoneHeldType
<1>11. \A i \in Parities : DOMAIN NoneHeld[i] = {}
  BY <1>10
<1>12. at % 2 \in Parities /\ (at - 1) % 2 \in Parities /\ 1 \in Parities /\ 0 \in 0 .. 3
  BY DeduperAssumption DEF Parities, Offsets
<1>13. Held(NoneHeld, at, {}) /\ Clean(NoneHeld, 0, at)
  BY Zenon, <1>7, <1>10, <1>11, <1>12 DEF Held, Clean
<1> QED BY Zenon, <1>3, <1>5, <1>6, <1>8, <1>9, <1>10, <1>12, <1>13 DEF Ready, Caught, P

\* dedupeCatchup catches up.
LEMMA CatchUp ==
    ASSUME NEW sl \in SomLogs, NEW dirty \in 0 .. 3, NEW R \in SUBSET Reports,
           NEW D \in Seq(Reports), NEW fl \in BOOLEAN, log \in PlainLogs, NEW at \in Offsets,
           current_report_offset \in Offsets \cup {NoOffset},
           Live(sl, dirty, at, R, D, fl)
    PROVE  Ready(CatchupPlan(sl, dirty, at), at, R, D, fl)
<1> DEFINE c == current_report_offset
<1>1. CASE c = NoOffset
  BY Zenon, <1>1, CatchUpFirst DEF Live
<1>2. CASE c # NoOffset
  <2>1. c \in Offsets /\ at >= c /\ Caught(log, sl, dirty, c, R, D, fl)
    BY Zenon, <1>2 DEF Live
  <2>2. at = c \/ at > c
    BY <2>1, DeduperAssumption DEF Offsets
  <2>3. CASE at = c
    BY Zenon, <2>1, <2>3, CatchUpHere
  <2>4. CASE at > c
    BY Zenon, <2>1, <2>4, CatchUpLater, CatchUpFlushed
  <2> QED BY Zenon, <2>2, <2>3, <2>4
<1> QED BY Zenon, <1>1, <1>2

-----------------------------------------------------------------------------
(* A report is held back, squashed or delivered.                           *)

\* The log of an end offset once a start of a key has been reported for it.
Holding(held, key, from) ==
    IF key \in DOMAIN held /\ held[key] < from THEN held
    ELSE [k \in DOMAIN held \cup {key} |-> IF k = key THEN from ELSE held[k]]

HoldingAt(sl, key, from, to) ==
    [sl EXCEPT ![to % 2] = Holding(sl[to % 2], key, from)]

\* The dirty bits after it.
Dirtied(dirty, adjust) ==
    IF adjust # 0 THEN 2 * (dirty \div 2) + 1 ELSE 2 + (dirty % 2)

Starts == UNION {[keys -> Offsets] : keys \in SUBSET SomKeys}

\* The leftmost start is kept.
LEMMA HoldingLeftmost ==
    ASSUME NEW held \in Starts, NEW key \in SomKeys, NEW from \in Offsets
    PROVE  /\ Holding(held, key, from) \in Starts
           /\ DOMAIN Holding(held, key, from) = DOMAIN held \cup {key}
           /\ \A k \in DOMAIN held : k # key => Holding(held, key, from)[k] = held[k]
           /\ Holding(held, key, from)[key] =< from
           /\ Holding(held, key, from)[key] = from
                \/ (key \in DOMAIN held /\ Holding(held, key, from)[key] = held[key])
           /\ key \in DOMAIN held => Holding(held, key, from)[key] =< held[key]
<1> DEFINE new == [k \in DOMAIN held \cup {key} |-> IF k = key THEN from ELSE held[k]]
<1>1. PICK K \in SUBSET SomKeys : held \in [K -> Offsets]
  BY DEF Starts
<1>2. DOMAIN held = K /\ \A k \in K : held[k] \in Offsets
  BY Zenon, <1>1
<1>3. from \in Int /\ \A k \in K : held[k] \in Int
  BY <1>2, DeduperAssumption DEF Offsets
<1>4. CASE key \in K /\ held[key] < from
  <2>1. Holding(held, key, from) = held
    BY Zenon, <1>2, <1>4 DEF Holding
  <2>2. held[key] =< from /\ held[key] =< held[key]
    BY <1>3, <1>4
  <2>3. K = K \cup {key}
    BY Zenon, <1>4
  <2> QED BY Zenon, <1>2, <1>4, <2>1, <2>2, <2>3
<1>5. CASE ~(key \in K /\ held[key] < from)
  <2>1. Holding(held, key, from) = new
    BY Zenon, <1>2, <1>5 DEF Holding
  <2>2. from =< from /\ (key \in K => from =< held[key])
    BY <1>3, <1>5
  <2>3. DOMAIN new = DOMAIN held \cup {key} /\ new[key] = from
        /\ \A k \in DOMAIN held : k # key => new[k] = held[k]
    BY Zenon
  <2>4. new \in [K \cup {key} -> Offsets]
    BY Zenon, <1>2
  <2>5. new \in Starts
    <3>1. K \cup {key} \in SUBSET SomKeys
      BY Zenon
    <3> HIDE DEF new
    <3> QED BY Zenon, <2>4, <3>1 DEF Starts
  <2> HIDE DEF new
  <2> QED BY Zenon, <1>2, <2>1, <2>2, <2>3, <2>5
<1> QED BY Zenon, <1>4, <1>5

\* A start-of-match report is held back, and the callback has what it had.
LEMMA GotHeld ==
    ASSUME NEW c \in Offsets, NEW R \in SUBSET Reports, NEW D \in Seq(Reports), NEW x \in Reports,
           x.key \in SomKeys, x.to \in EndsAt(c), Got(c, R, D, FALSE)
    PROVE  Got(c, R \cup {x}, D, FALSE)
<1>1. x.to = c \/ x.to = c - 1
  BY Zenon, Ends
<1>2. c \in Int
  BY Zenon, Before
<1>3. x.to >= c - 1 /\ x.to =< c
  BY <1>1, <1>2
<1>4. ASSUME NEW m \in Range(D)
      PROVE  /\ m \in R /\ (m.key \in SomKeys => m.to < c - 1)
             /\ Leftmost(R \cup {x}, m)
  <2>1. m \in R /\ (m.key \in SomKeys => m.to < c - 1) /\ Leftmost(R, m)
    BY Zenon DEF Got
  <2>2. m.to \in Int
    BY <2>1, DeduperAssumption DEF Reports, Offsets
  <2>3. m.to < c - 1 => x.to # m.to
    BY <1>2, <1>3, <2>2
  <2> QED BY Zenon, <2>1, <2>3 DEF Leftmost
<1> QED BY Zenon, <1>3, <1>4 DEF Got

\* A start-of-match report is not looked up in the log of plain keys.
LEMMA LoggedHeld ==
    ASSUME NEW lg, NEW c, NEW R, NEW x, x.key \in SomKeys, Logged(lg, c, R)
    PROVE  Logged(lg, c, R \cup {x})
<1>1. ASSUME NEW t \in EndsAt(c), NEW k \in Dkeys \ SomKeys
      PROVE  (\E r \in R \cup {x} : r.key = k /\ r.to = t) <=> \E r \in R : r.key = k /\ r.to = t
  BY Zenon
<1>2. \A t \in EndsAt(c), k \in Dkeys \ SomKeys :
        k \in lg[t % 2] <=> \E r \in R : r.key = k /\ r.to = t
  BY Zenon DEF Logged
<1>3. ASSUME NEW t \in EndsAt(c), NEW k \in Dkeys \ SomKeys
      PROVE  k \in lg[t % 2] <=> \E r \in R \cup {x} : r.key = k /\ r.to = t
  BY Zenon, <1>1, <1>2
<1> QED BY Zenon, <1>3 DEF Logged

\* The log holds the leftmost report of each key.
LEMMA HeldMore ==
    ASSUME NEW sl \in SomLogs, NEW new, NEW c \in Offsets, NEW R \in SUBSET Reports,
           NEW key \in SomKeys, NEW from \in Offsets, NEW to \in EndsAt(c), Held(sl, c, R),
           new = [sl EXCEPT ![to % 2] = Holding(sl[to % 2], key, from)]
    PROVE  new \in SomLogs /\ Held(new, c, R \cup {Match(key, from, to)})
<1> DEFINE x == Match(key, from, to)
           i == to % 2
           h == Holding(sl[i], key, from)
<1>1. i \in Parities
  BY Zenon, Ends
<1>2. sl \in [Parities -> Starts]
  BY Zenon DEF SomLogs, Starts
<1>3. /\ h \in Starts
      /\ DOMAIN h = DOMAIN sl[i] \cup {key}
      /\ \A k \in DOMAIN sl[i] : k # key => h[k] = sl[i][k]
      /\ h[key] =< from
      /\ h[key] = from \/ (key \in DOMAIN sl[i] /\ h[key] = sl[i][key])
      /\ key \in DOMAIN sl[i] => h[key] =< sl[i][key]
  <2>1. sl[i] \in Starts
    BY Zenon, <1>1, <1>2
  <2> HIDE DEF i
  <2> QED BY Zenon, <2>1, HoldingLeftmost
<1> HIDE DEF h
<1>4. new \in [Parities -> Starts]
  BY Zenon, <1>2, <1>3 DEF h
<1>5. new[i] = h /\ \A j \in Parities : j # i => new[j] = sl[j]
  BY Zenon, <1>1, <1>2 DEF h
<1>6. x.key = key /\ x.from = from /\ x.to = to
  BY DEF Match
<1> HIDE DEF x, i
<1>7. ASSUME NEW t \in EndsAt(c), NEW k \in SomKeys, t # to \/ k # key
      PROVE  \A f : Leftmost(R, Match(k, f, t)) => Leftmost(R \cup {x}, Match(k, f, t))
  <2> SUFFICES ASSUME NEW f, Leftmost(R, Match(k, f, t))
               PROVE  Leftmost(R \cup {x}, Match(k, f, t))
    BY Zenon
  <2>1. Match(k, f, t).key = k /\ Match(k, f, t).to = t
    BY DEF Match
  <2>2. ~(x.key = Match(k, f, t).key /\ x.to = Match(k, f, t).to)
    BY Zenon, <1>6, <1>7, <2>1
  <2> QED BY Zenon, <2>2 DEF Leftmost
<1>8. ASSUME NEW t \in EndsAt(c), NEW k \in SomKeys
      PROVE  /\ k \in DOMAIN sl[t % 2] <=> \E r \in R : r.key = k /\ r.to = t
             /\ k \in DOMAIN sl[t % 2] =>
                   /\ Match(k, sl[t % 2][k], t) \in R
                   /\ Leftmost(R, Match(k, sl[t % 2][k], t))
  BY Zenon DEF Held
<1>9. ASSUME NEW t \in EndsAt(c), NEW k \in SomKeys
      PROVE  /\ k \in DOMAIN new[t % 2] <=> \E r \in R \cup {x} : r.key = k /\ r.to = t
             /\ k \in DOMAIN new[t % 2] =>
                   /\ Match(k, new[t % 2][k], t) \in R \cup {x}
                   /\ Leftmost(R \cup {x}, Match(k, new[t % 2][k], t))
  <2>1. CASE t = to /\ k = key
    <3>1. new[t % 2] = h /\ k \in DOMAIN h
      BY Zenon, <1>3, <1>5, <2>1 DEF i
    <3>2. \E r \in R \cup {x} : r.key = k /\ r.to = t
      BY Zenon, <1>6, <2>1
    <3> DEFINE y == Match(key, h[key], to)
    <3>3. y.key = key /\ y.to = to /\ y.from = h[key]
      BY DEF Match
    <3>4. y \in R \cup {x}
      <4>1. CASE h[key] = from
        BY Zenon, <4>1 DEF x
      <4>2. CASE key \in DOMAIN sl[i] /\ h[key] = sl[i][key]
        BY Zenon, <1>8, <2>1, <4>2 DEF i
      <4> QED BY Zenon, <1>3, <4>1, <4>2
    <3>5. ASSUME NEW r \in R, r.key = key, r.to = to PROVE h[key] =< r.from
      <4>1. key \in DOMAIN sl[i]
        BY Zenon, <1>8, <2>1, <3>5 DEF i
      <4>2. h[key] =< sl[i][key]
        BY Zenon, <1>3, <4>1
      <4>3. Leftmost(R, Match(key, sl[i][key], to)) /\ Match(key, sl[i][key], to) \in R
        BY Zenon, <1>8, <2>1, <4>1 DEF i
      <4>4. /\ Match(key, sl[i][key], to).key = key /\ Match(key, sl[i][key], to).to = to
            /\ Match(key, sl[i][key], to).from = sl[i][key]
        BY DEF Match
      <4>5. sl[i][key] =< r.from
        BY Zenon, <3>5, <4>3, <4>4 DEF Leftmost
      <4>6. \A z \in R : z.from \in Offsets
        BY DEF Reports
      <4>7. sl[i][key] \in Offsets /\ r.from \in Offsets
        BY Zenon, <4>3, <4>4, <4>6
      <4>8. h[key] \in Offsets
        BY Zenon, <1>3, <4>7
      <4>9. sl[i][key] \in Int /\ r.from \in Int /\ h[key] \in Int
        BY <4>7, <4>8, DeduperAssumption DEF Offsets
      <4> QED BY <4>2, <4>5, <4>9
    <3> HIDE DEF y
    <3>6. Leftmost(R \cup {x}, y)
      BY Zenon, <1>3, <1>6, <3>3, <3>5 DEF Leftmost
    <3> QED BY Zenon, <2>1, <3>1, <3>2, <3>4, <3>6 DEF y
  <2>2. CASE t = to /\ k # key
    <3>1. new[t % 2] = h /\ (k \in DOMAIN h <=> k \in DOMAIN sl[t % 2])
      BY Zenon, <1>3, <1>5, <2>2 DEF i
    <3>2. k \in DOMAIN h => h[k] = sl[t % 2][k]
      BY Zenon, <1>3, <2>2, <3>1 DEF i
    <3>3. (\E r \in R \cup {x} : r.key = k /\ r.to = t) <=> \E r \in R : r.key = k /\ r.to = t
      BY Zenon, <1>6, <2>2
    <3> QED BY Zenon, <1>7, <1>8, <2>2, <3>1, <3>2, <3>3
  <2>3. CASE t # to
    <3>1. t % 2 # i /\ t % 2 \in Parities
      BY Zenon, <2>3, Ends DEF i
    <3>2. new[t % 2] = sl[t % 2]
      BY Zenon, <1>5, <3>1
    <3>3. (\E r \in R \cup {x} : r.key = k /\ r.to = t) <=> \E r \in R : r.key = k /\ r.to = t
      BY Zenon, <1>6, <2>3
    <3>4. ASSUME k \in DOMAIN sl[t % 2]
          PROVE  /\ Match(k, sl[t % 2][k], t) \in R
                 /\ Leftmost(R \cup {x}, Match(k, sl[t % 2][k], t))
      BY Zenon, <1>7, <1>8, <2>3, <3>4
    <3>5. k \in DOMAIN sl[t % 2] <=> \E r \in R \cup {x} : r.key = k /\ r.to = t
      BY Zenon, <1>8, <3>3
    <3> QED BY Zenon, <3>2, <3>4, <3>5
  <2> QED BY Zenon, <2>1, <2>2, <2>3
<1>10. ASSUME c = 0 PROVE new[1] = <<>>
  <2>1. i = 0 /\ 1 \in Parities
    <3>1. to \in Offsets /\ (to = c \/ to = c - 1)
      BY Zenon, Ends
    <3> QED BY <1>10, <3>1, DeduperAssumption DEF i, Parities, Offsets
  <2>2. 1 # i
    BY <2>1
  <2> QED BY Zenon, <1>5, <1>10, <2>1, <2>2 DEF Held
<1>11. Held(new, c, R \cup {x})
  BY Zenon, <1>9, <1>10 DEF Held
<1> QED BY Zenon, <1>4, <1>11 DEF SomLogs, Starts, x

\* Its dirty bit is up.
LEMMA CleanMore ==
    ASSUME NEW sl \in SomLogs, NEW new, NEW dirty \in 0 .. 3, NEW c \in Offsets, NEW h,
           NEW adjust \in {0, -1}, Clean(sl, dirty, c),
           new = [sl EXCEPT ![(c + adjust) % 2] = h]
    PROVE  Dirtied(dirty, adjust) \in 0 .. 3 /\ Clean(new, Dirtied(dirty, adjust), c)
<1>1. c \in Int
  BY Zenon, Before
<1>2. /\ c % 2 \in Parities /\ (c - 1) % 2 \in Parities /\ c % 2 # (c - 1) % 2
  BY Zenon, <1>1, Parity
<1>3. DOMAIN sl = Parities
  BY DEF SomLogs
<1>4. CASE adjust = 0
  <2>1. Dirtied(dirty, adjust) = 2 + (dirty % 2)
    BY Zenon, <1>4 DEF Dirtied
  <2>2. /\ Dirtied(dirty, adjust) \in 0 .. 3 /\ ~(Dirtied(dirty, adjust) < 2)
        /\ Dirtied(dirty, adjust) % 2 = 0 => dirty % 2 = 0
    BY <2>1
  <2>3. c + adjust = c
    BY <1>1, <1>4
  <2>4. new[(c - 1) % 2] = sl[(c - 1) % 2]
    BY <1>2, <1>3, <2>3
  <2> QED BY Zenon, <2>2, <2>4 DEF Clean
<1>5. CASE adjust = -1
  <2>1. Dirtied(dirty, adjust) = 2 * (dirty \div 2) + 1
    BY <1>5 DEF Dirtied
  <2>2. /\ Dirtied(dirty, adjust) \in 0 .. 3 /\ Dirtied(dirty, adjust) % 2 # 0
        /\ Dirtied(dirty, adjust) < 2 => dirty < 2
    BY <2>1
  <2>3. c + adjust = c - 1
    BY <1>1, <1>5
  <2>4. new[c % 2] = sl[c % 2]
    BY <1>2, <1>3, <2>3
  <2> QED BY Zenon, <2>2, <2>4 DEF Clean
<1> QED BY Zenon, <1>4, <1>5

\* The end offset of a report at c.
Adjusted(c, adjust, to) == to = c + adjust /\ to \in EndsAt(c) /\ adjust \in {0, -1}

\* HoldSom keeps the deduper right.
LEMMA SomCaught ==
    ASSUME NEW lg, NEW sl \in SomLogs, NEW dirty \in 0 .. 3, NEW c \in Offsets,
           NEW R \in SUBSET Reports, NEW D \in Seq(Reports),
           NEW key \in SomKeys, NEW from \in Offsets, NEW adjust, NEW to,
           Adjusted(c, adjust, to), Caught(lg, sl, dirty, c, R, D, FALSE)
    PROVE  /\ HoldingAt(sl, key, from, to) \in SomLogs /\ Dirtied(dirty, adjust) \in 0 .. 3
           /\ Caught(lg, HoldingAt(sl, key, from, to), Dirtied(dirty, adjust), c,
                     R \cup {Match(key, from, to)}, D, FALSE)
<1> DEFINE x == Match(key, from, to)
           new == HoldingAt(sl, key, from, to)
<1>0. to = c + adjust /\ to \in EndsAt(c) /\ adjust \in {0, -1}
  BY Zenon DEF Adjusted
<1>1. Got(c, R, D, FALSE) /\ Logged(lg, c, R) /\ Held(sl, c, R) /\ Clean(sl, dirty, c)
  BY Zenon DEF Caught
<1>2. to \in Offsets /\ key \in Dkeys
  BY Zenon, <1>0, Ends, DeduperAssumption
<1>3. x \in Reports /\ x.key = key /\ x.to = to
  BY <1>2 DEF Reports, Match
<1>4. Dirtied(dirty, adjust) \in 0 .. 3 /\ Clean(new, Dirtied(dirty, adjust), c)
  BY Zenon, <1>0, <1>1, CleanMore DEF HoldingAt
<1>5. new \in SomLogs /\ Held(new, c, R \cup {x})
  BY Zenon, <1>0, <1>1, HeldMore DEF HoldingAt
<1> HIDE DEF x
<1>6. Got(c, R \cup {x}, D, FALSE)
  BY Zenon, <1>0, <1>1, <1>3, GotHeld
<1>7. Logged(lg, c, R \cup {x})
  BY Zenon, <1>1, <1>3, LoggedHeld
<1> QED BY Zenon, <1>4, <1>5, <1>6, <1>7 DEF Caught, x

\* A report that is squashed was made before.
LEMMA PlainSquashed ==
    ASSUME NEW lg \in PlainLogs, NEW sl, NEW dirty, NEW c \in Offsets,
           NEW R \in SUBSET Reports, NEW D, NEW fl \in BOOLEAN, NEW key, NEW to \in EndsAt(c),
           Caught(lg, sl, dirty, c, R, D, fl), key \in lg[to % 2]
    PROVE  R \cup {Match(key, 0, to)} = R
<1>1. key \in Dkeys \ SomKeys
  <2>1. to % 2 \in Parities
    BY Zenon, Ends
  <2>2. lg[to % 2] \in SUBSET (Dkeys \ SomKeys)
    BY Zenon, <2>1 DEF PlainLogs
  <2> QED BY Zenon, <2>2
<1>2. PICK r \in R : r.key = key /\ r.to = to
  BY Zenon, <1>1 DEF Caught, Logged
<1>3. r.from = 0
  BY Zenon, <1>1, <1>2 DEF Caught, Got
<1>4. r = Match(key, 0, to)
  BY <1>2, <1>3 DEF Reports, Match
<1> QED BY Zenon, <1>4

\* The log once a plain key has been delivered for an end offset.
Noted(lg, key, to) == [lg EXCEPT ![to % 2] = lg[to % 2] \cup ({key} \cap Dkeys)]

\* A single report.
LEMMA JustOne ==
    ASSUME NEW x \in Reports, NEW D \in Seq(Reports)
    PROVE  /\ <<x>> \in Seq(Reports) /\ Range(<<x>>) = {x} /\ Once(<<x>>)
           /\ Append(D, x) = D \o <<x>>
<1>1. <<x>> \in Seq(Reports) /\ Append(D, x) = D \o <<x>>
  OBVIOUS
<1> DEFINE s == <<x>>
<1>2. DOMAIN s = {1} /\ s[1] = x
  OBVIOUS
<1> HIDE DEF s
<1>3. Range(s) = {x}
  BY Zenon, <1>2 DEF Range
<1>4. Once(s)
  BY Zenon, <1>2 DEF Once
<1> QED BY Zenon, <1>1, <1>3, <1>4 DEF s

\* A report that is delivered was not.
LEMMA PlainDelivered ==
    ASSUME NEW lg \in PlainLogs, NEW sl, NEW dirty, NEW c \in Offsets, NEW lg2,
           NEW R \in SUBSET Reports, NEW D \in Seq(Reports), NEW fl \in BOOLEAN,
           NEW key \in (Dkeys \cup {MO_INVALID_IDX}) \ SomKeys, NEW to \in EndsAt(c),
           Caught(lg, sl, dirty, c, R, D, fl), key \notin lg[to % 2],
           lg2 = Noted(lg, key, to)
    PROVE  /\ lg2 \in PlainLogs /\ Append(D, Match(key, 0, to)) \in Seq(Reports)
           /\ Caught(lg2, sl, dirty, c, R \cup {Match(key, 0, to)},
                     Append(D, Match(key, 0, to)), fl)
<1> DEFINE x == Match(key, 0, to)
           E == Append(D, x)
           i == to % 2
<1>1. to \in Offsets /\ (to = c \/ to = c - 1) /\ i \in Parities
  BY Zenon, Ends
<1>2. x \in Reports /\ x.key = key /\ x.from = 0 /\ x.to = to
  BY <1>1, DeduperAssumption DEF Reports, Match, Offsets
<1>3. lg2 \in PlainLogs
  BY Zenon, <1>1 DEF PlainLogs, Noted
<1>4. DOMAIN lg = Parities
  BY Zenon DEF PlainLogs
<1>5. lg2[i] = lg[i] \cup ({key} \cap Dkeys) /\ \A j \in Parities : j # i => lg2[j] = lg[j]
  BY Zenon, <1>1, <1>4 DEF Noted
<1>6. c \in Int /\ to =< c
  BY <1>1, DeduperAssumption DEF Offsets
<1> HIDE DEF x, i
<1>7. Got(c, R, D, fl) /\ Logged(lg, c, R)
  BY Zenon DEF Caught
<1>8. <<x>> \in Seq(Reports) /\ Range(<<x>>) = {x} /\ Once(<<x>>) /\ E = D \o <<x>>
  BY Zenon, <1>2, JustOne
<1>9. E \in Seq(Reports) /\ Range(E) = Range(D) \cup {x}
  <2> DEFINE s == <<x>>
  <2>1. s \in Seq(Reports) /\ Range(s) = {x} /\ E = D \o s
    BY Zenon, <1>8
  <2> HIDE DEF s, E
  <2>2. Range(D \o s) = Range(D) \cup Range(s) /\ D \o s \in Seq(Reports)
    BY <2>1, RangeConcatenation, ConcatProperties
  <2> QED BY Zenon, <2>1, <2>2
<1> HIDE DEF E
<1>10. Once(E)
  <2>1. ASSUME NEW m \in Range(D), NEW r \in Range(<<x>>), m.key \in Dkeys, Same(m, r)
        PROVE  FALSE
    <3>1. m \in R /\ m.key = key /\ m.to = to /\ key \in Dkeys \ SomKeys
      BY Zenon, <1>2, <1>7, <1>8, <2>1 DEF Same, Got
    <3> QED BY Zenon, <1>7, <3>1 DEF Logged
  <2>2. Once(D)
    BY Zenon, <1>7 DEF Got
  <2>3. Once(D \o <<x>>)
    BY Zenon, <1>8, <2>1, <2>2, OnceJoined
  <2> QED BY Zenon, <1>8, <2>3
<1>11. \A r \in R \cup {x} : r.to =< c /\ (r.key \notin SomKeys => r.from = 0)
  BY Zenon, <1>2, <1>6, <1>7 DEF Got
<1>12. \A r \in R \cup {x} : r.from \in Nat
  BY <1>2, DeduperAssumption DEF Reports, Offsets
<1>13. ASSUME NEW m \in Range(E)
       PROVE  m \in R \cup {x} /\ Leftmost(R \cup {x}, m)
                /\ (m.key \in SomKeys => fl \/ m.to < c - 1)
  <2>1. CASE m = x
    <3>1. \A r \in R \cup {x} : 0 =< r.from
      BY <1>12
    <3> QED BY Zenon, <1>2, <2>1, <3>1 DEF Leftmost
  <2>2. CASE m \in Range(D)
    <3>1. m \in R /\ Leftmost(R, m) /\ (m.key \in SomKeys => fl \/ m.to < c - 1)
      BY Zenon, <1>7, <2>2 DEF Got
    <3>2. m.key = key => m.from = 0
      BY Zenon, <1>11, <3>1
    <3>3. 0 =< 0
      OBVIOUS
    <3>4. x.key = m.key => m.from =< x.from
      BY Zenon, <1>2, <3>2, <3>3
    <3> QED BY Zenon, <3>1, <3>4 DEF Leftmost
  <2> QED BY Zenon, <1>9, <2>1, <2>2
<1>14. ASSUME NEW r \in R \cup {x}
       PROVE  \/ r.key \in SomKeys /\ ~fl /\ r.to >= c - 1
              \/ \E m \in Range(E) : Same(m, r)
  <2>1. CASE r = x
    BY Zenon, <1>9, <2>1 DEF Same
  <2>2. CASE r \in R
    BY Zenon, <1>7, <1>9, <2>2 DEF Got
  <2> QED BY Zenon, <2>1, <2>2
<1>15. Got(c, R \cup {x}, E, fl)
  BY Zenon, <1>10, <1>11, <1>13, <1>14 DEF Got
<1>16. ASSUME NEW t \in EndsAt(c), NEW k \in Dkeys \ SomKeys
       PROVE  k \in lg2[t % 2] <=> \E r \in R \cup {x} : r.key = k /\ r.to = t
  <2>0. k \in lg[t % 2] <=> \E r \in R : r.key = k /\ r.to = t
    BY Zenon, <1>7 DEF Logged
  <2>1. CASE t = to /\ k = key
    <3>1. k \in lg2[t % 2]
      BY Zenon, <1>5, <2>1 DEF i
    <3> QED BY Zenon, <1>2, <2>1, <3>1
  <2>2. CASE t = to /\ k # key
    <3>1. k \in lg2[t % 2] <=> k \in lg[t % 2]
      BY Zenon, <1>5, <2>2 DEF i
    <3> QED BY Zenon, <1>2, <2>0, <2>2, <3>1
  <2>3. CASE t # to
    <3>1. t % 2 # i /\ t % 2 \in Parities
      BY Zenon, <2>3, Ends DEF i
    <3>2. lg2[t % 2] = lg[t % 2]
      BY Zenon, <1>5, <3>1
    <3> QED BY Zenon, <1>2, <2>0, <2>3, <3>2
  <2> QED BY Zenon, <2>1, <2>2, <2>3
<1>17. Logged(lg2, c, R \cup {x})
  BY Zenon, <1>16 DEF Logged
<1>18. fl => sl = NoneHeld /\ dirty = 0
  BY Zenon DEF Caught
<1>19. ~fl => Held(sl, c, R \cup {x}) /\ Clean(sl, dirty, c)
  <2> SUFFICES ASSUME ~fl PROVE Held(sl, c, R \cup {x}) /\ Clean(sl, dirty, c)
    BY Zenon
  <2>1. Held(sl, c, R) /\ Clean(sl, dirty, c)
    BY Zenon DEF Caught
  <2>2. ASSUME NEW k \in SomKeys, NEW t, NEW f
        PROVE  Leftmost(R, Match(k, f, t)) => Leftmost(R \cup {x}, Match(k, f, t))
    <3>1. Match(k, f, t).key = k
      BY DEF Match
    <3>2. x.key # Match(k, f, t).key
      BY Zenon, <1>2, <3>1
    <3> QED BY Zenon, <3>2 DEF Leftmost
  <2>3. ASSUME NEW t \in EndsAt(c), NEW k \in SomKeys
        PROVE  /\ k \in DOMAIN sl[t % 2] <=> \E r \in R \cup {x} : r.key = k /\ r.to = t
               /\ k \in DOMAIN sl[t % 2] =>
                     /\ Match(k, sl[t % 2][k], t) \in R \cup {x}
                     /\ Leftmost(R \cup {x}, Match(k, sl[t % 2][k], t))
    <3>1. /\ k \in DOMAIN sl[t % 2] <=> \E r \in R : r.key = k /\ r.to = t
          /\ k \in DOMAIN sl[t % 2] =>
                /\ Match(k, sl[t % 2][k], t) \in R
                /\ Leftmost(R, Match(k, sl[t % 2][k], t))
      BY Zenon, <2>1 DEF Held
    <3>2. (\E r \in R \cup {x} : r.key = k /\ r.to = t) <=> \E r \in R : r.key = k /\ r.to = t
      BY Zenon, <1>2
    <3> QED BY Zenon, <2>2, <3>1, <3>2
  <2>4. c = 0 => sl[1] = <<>>
    BY Zenon, <2>1 DEF Held
  <2> QED BY Zenon, <2>1, <2>3, <2>4 DEF Held
<1> QED BY Zenon, <1>3, <1>9, <1>15, <1>17, <1>18, <1>19 DEF Caught, E, x

\* All of what is due is right.
LEMMA CaughtFine ==
    ASSUME NEW lg, NEW sl, NEW dirty, NEW c, NEW R, NEW D, NEW fl,
           Caught(lg, sl, dirty, c, R, D, fl)
    PROVE  Fine(R, D)
BY Zenon DEF Caught, Got, Fine

\* What comes first is without repetition if the whole is.
LEMMA OncePrefixJoined ==
    ASSUME NEW s \in Seq(Reports), NEW t \in Seq(Reports), Once(s \o t)
    PROVE  Once(s)
<1>1. /\ Len(s) \in Nat /\ Len(t) \in Nat /\ DOMAIN s = 1 .. Len(s)
      /\ s \o t \in Seq(Reports) /\ Len(s \o t) = Len(s) + Len(t)
  BY ConcatProperties, LenProperties
<1>2. DOMAIN (s \o t) = 1 .. Len(s) + Len(t)
  BY <1>1, LenProperties
<1>3. \A i \in 1 .. Len(s) : i \in 1 .. Len(s) + Len(t) /\ (s \o t)[i] = s[i]
  BY <1>1, ConcatProperties
<1> QED BY Zenon, <1>1, <1>2, <1>3 DEF Once

\* A callback that stops a flush has got what is right, as far as it goes.
LEMMA HaltedFine ==
    ASSUME NEW plan, NEW at \in Offsets, NEW R \in SUBSET Reports, NEW D \in Seq(Reports),
           NEW fl \in BOOLEAN, Ready(plan, at, R, D, fl), NEW n \in 1 .. Len(Planned(plan)),
           NEW x \in Reports, x.to >= at - 1
    PROVE  /\ D \o SubSeq(Planned(plan), 1, n) \in Seq(Reports)
           /\ Fine(R, D \o SubSeq(Planned(plan), 1, n))
           /\ Fine(R \cup {x}, D \o SubSeq(Planned(plan), 1, n))
<1> DEFINE H == Planned(plan)
           u == SubSeq(H, 1, n)
           E == D \o u
<1>1. Fresh(H, R, D, at) /\ H \in Seq(Reports) /\ Once(H)
  BY Zenon DEF Ready, Fresh
<1>2. ~fl
  <2>1. H # <<>>
    OBVIOUS
  <2> QED BY Zenon, <2>1 DEF Ready
<1>3. Got(at, R, D \o H, FALSE)
  BY Zenon, <1>2 DEF Ready, Caught
<1> HIDE DEF H
<1>4. u \in Seq(Reports) /\ Range(u) \subseteq Range(H) /\ Once(u)
  BY Zenon, <1>1, OncePrefix DEF H
<1> HIDE DEF u
<1>5. Range(D \o H) = Range(D) \cup Range(H)
  BY <1>1, RangeConcatenation
<1>6. E \in Seq(Reports) /\ Range(E) = Range(D) \cup Range(u)
  BY <1>4, RangeConcatenation, ConcatProperties
<1>7. Once(D)
  <2>1. Once(D \o H)
    BY Zenon, <1>3 DEF Got
  <2> QED BY <1>1, <2>1, OncePrefixJoined
<1>8. Once(E)
  <2>1. \A m \in Range(D), r \in Range(u) : ~Same(m, r)
    BY Zenon, <1>1, <1>4 DEF Fresh
  <2> QED BY Zenon, <1>4, <1>7, <2>1, OnceJoined
<1> HIDE DEF E
<1>9. ASSUME NEW m \in Range(E)
      PROVE  m \in R /\ Leftmost(R, m) /\ Leftmost(R \cup {x}, m)
  <2>1. /\ m \in R /\ Leftmost(R, m) /\ (m.key \in SomKeys => m.to < at - 1)
        /\ (m.key \notin SomKeys => m.from = 0)
    BY Zenon, <1>3, <1>4, <1>5, <1>6 DEF Got
  <2>2. /\ m.to \in Int /\ x.to \in Int /\ at \in Int
        /\ x.from \in Nat
    BY <2>1, DeduperAssumption DEF Reports, Offsets
  <2>3. m.to < at - 1 => x.to # m.to
    BY <2>2
  <2>4. 0 =< x.from
    BY <2>2
  <2> QED BY Zenon, <2>1, <2>3, <2>4 DEF Leftmost
<1> QED BY Zenon, <1>6, <1>8, <1>9 DEF Fine, E, u, H

-----------------------------------------------------------------------------
(* The actions.                                                            *)

\* The outcomes of dedupeCatchup.
Halts(plan, sl, at) ==
    /\ \E n \in 1 .. Len(Planned(plan)) : HaltFlush(plan, sl, n)
    /\ log' = ClearedLogs(at)

Holds(plan, at, key, adjust, from, phase) ==
    /\ current_report_offset' = at
    /\ key \in SomKeys
    /\ HoldSom(plan.som_log, plan.dirty, key, adjust, from, at + adjust)
    /\ log' = ClearedLogs(at)
    /\ delivered' = delivered \o Planned(plan)
    /\ call' = phase

Passes(plan, at, key, adjust, phase) ==
    /\ current_report_offset' = at
    /\ key \notin SomKeys
    /\ som_log' = plan.som_log
    /\ som_log_dirty' = plan.dirty
    /\ Deliver(ClearedLogs(at), delivered \o Planned(plan), key, at + adjust, phase)

\* There are no others: the callback stops the flush, or the report is held back,
\* or it is squashed or delivered.
LEMMA Outcomes ==
    ASSUME NEW sl, NEW dirty, NEW at, NEW key, NEW adjust, NEW from, NEW phase,
           dedupeCatchup(sl, dirty, at, key, adjust, from, phase)
    PROVE  \/ Halts(CatchupPlan(sl, dirty, at), sl, at)
           \/ Holds(CatchupPlan(sl, dirty, at), at, key, adjust, from, phase)
           \/ Passes(CatchupPlan(sl, dirty, at), at, key, adjust, phase)
BY Zenon DEF dedupeCatchup, Halts, Holds, Passes, CatchupPlan, Planned

\* A stopped flush leaves a log of the right type.
LEMMA HaltTypes ==
    ASSUME NEW plan, NEW sl \in SomLogs, NEW n, HaltFlush(plan, sl, n)
    PROVE  /\ som_log' \in SomLogs /\ som_log_dirty' = plan.dirty /\ call' = "halted"
           /\ current_report_offset' = current_report_offset
           /\ delivered' = delivered \o SubSeq(Planned(plan), 1, n)
<1>1. <<>> \in UNION {[keys -> Offsets] : keys \in SUBSET SomKeys}
  BY Zenon, NoneHeldType
<1>2. \A i : [sl EXCEPT ![i] = <<>>] \in SomLogs
  BY Zenon, <1>1 DEF SomLogs
<1>3. \/ som_log' = [sl EXCEPT ![(current_report_offset - 1) % 2] = <<>>]
      \/ som_log' = sl
  BY Zenon DEF HaltFlush
<1>4. som_log' \in SomLogs
  BY Zenon, <1>2, <1>3
<1> QED BY Zenon, <1>4 DEF HaltFlush, Planned

\* A report, from catching up to its delivery, keeps the deduper right.
LEMMA ReportStep ==
    ASSUME Types, NEW sl \in SomLogs, NEW dirty \in 0 .. 3, NEW at \in Offsets,
           NEW key \in Dkeys \cup {MO_INVALID_IDX}, NEW adjust \in {0, -1},
           NEW from \in Offsets, NEW phase \in {"start", "scan", "flushed"},
           at + adjust >= 0, key \notin SomKeys => from = 0,
           phase = "flushed" => key \notin SomKeys,
           Live(sl, dirty, at, raised, delivered, phase = "flushed"),
           dedupeCatchup(sl, dirty, at, key, adjust, from, phase),
           offset' = at, raised' = raised \cup {Match(key, from, at + adjust)}
    PROVE  Types' /\ Fine(raised, delivered)' /\ InCall'
<1> DEFINE to == at + adjust
           x == Match(key, from, to)
           P == CatchupPlan(sl, dirty, at)
           fl == phase = "flushed"
           lg == ClearedLogs(at)
           D == delivered \o Planned(P)
<1>1. /\ log \in PlainLogs /\ raised \in SUBSET Reports /\ delivered \in Seq(Reports)
      /\ current_report_offset \in Offsets \cup {NoOffset}
  BY Zenon DEF Types, PlainLogs
<1>2. to \in Offsets /\ to \in EndsAt(at) /\ to >= at - 1
  BY DeduperAssumption DEF Offsets, EndsAt
<1>3. x \in Reports /\ x.to = to
  BY <1>2 DEF Reports, Match
<1>4. Ready(P, at, raised, delivered, fl)
  BY Zenon, <1>1, CatchUp
<1>5. /\ P.som_log \in SomLogs /\ P.dirty \in 0 .. 3 /\ ClearedLogs(at) \in PlainLogs
      /\ Planned(P) \in Seq(Reports)
      /\ Caught(ClearedLogs(at), P.som_log, P.dirty, at, raised, delivered \o Planned(P), fl)
  BY Zenon, <1>4 DEF Ready, Fresh
<1>6. at # NoOffset /\ at \in Offsets \cup {NoOffset}
  BY Zenon, Before
<1>7. delivered \o Planned(P) \in Seq(Reports)
  BY <1>1, <1>5, ConcatProperties
<1>8. raised' = raised \cup {x} /\ raised' \in SUBSET Reports /\ offset' \in Offsets
  BY Zenon, <1>1, <1>3
<1>9. /\ "halted" \in {"idle", "start", "scan", "flushed", "halted"}
      /\ "halted" \notin {"start", "scan", "flushed"}
      /\ phase \in {"idle", "start", "scan", "flushed", "halted"}
  OBVIOUS
<1> HIDE DEF P, x, to
<1>10. Halts(P, sl, at) \/ Holds(P, at, key, adjust, from, phase) \/ Passes(P, at, key, adjust, phase)
  BY Zenon, Outcomes DEF P
<1>11. CASE Halts(P, sl, at)
  <2>1. PICK n \in 1 .. Len(Planned(P)) : HaltFlush(P, sl, n)
    BY Zenon, <1>11 DEF Halts
  <2>2. /\ som_log' \in SomLogs /\ som_log_dirty' = P.dirty /\ call' = "halted"
        /\ current_report_offset' = current_report_offset
        /\ delivered' = delivered \o SubSeq(Planned(P), 1, n)
    BY Zenon, <2>1, HaltTypes
  <2>3. log' \in PlainLogs
    BY Zenon, <1>5, <1>11 DEF Halts
  <2>4. /\ delivered' \in Seq(Reports) /\ Fine(raised \cup {x}, delivered')
    BY Zenon, <1>1, <1>2, <1>3, <1>4, <2>2, HaltedFine
  <2>5. Fine(raised', delivered')
    BY Zenon, <1>8, <2>4
  <2>6. Types'
    BY Zenon, <1>1, <1>5, <1>8, <1>9, <2>2, <2>3, <2>4 DEF Types, PlainLogs
  <2>7. InCall'
    BY Zenon, <1>9, <2>2 DEF InCall
  <2> QED BY Zenon, <2>5, <2>6, <2>7 DEF Fine
<1>12. ASSUME current_report_offset' = at, log' \in PlainLogs, som_log' \in SomLogs,
              som_log_dirty' \in 0 .. 3, delivered' \in Seq(Reports),
              call' \in {phase, "halted"},
              Caught(log', som_log', som_log_dirty', at, raised', delivered', fl)
       PROVE  Types' /\ Fine(raised, delivered)' /\ InCall'
  <2>1. call' \in {"idle", "start", "scan", "flushed", "halted"}
    BY Zenon, <1>9, <1>12
  <2>2. Types'
    BY Zenon, <1>6, <1>8, <1>12, <2>1 DEF Types, PlainLogs
  <2>3. Fine(raised', delivered')
    BY Zenon, <1>12, CaughtFine
  <2>4. call' = phase \/ call' \notin {"start", "scan", "flushed"}
    BY Zenon, <1>9, <1>12
  <2>5. call' = phase => Caught(log', som_log', som_log_dirty', at, raised', delivered', call' = "flushed")
    BY Zenon, <1>12
  <2>6. InCall'
    BY Zenon, <1>6, <1>12, <2>4, <2>5 DEF InCall
  <2> QED BY Zenon, <2>2, <2>3, <2>6 DEF Fine
<1>13. CASE Holds(P, at, key, adjust, from, phase)
  <2>1. /\ current_report_offset' = at /\ key \in SomKeys /\ log' = ClearedLogs(at)
        /\ delivered' = delivered \o Planned(P) /\ call' = phase
    BY Zenon, <1>13 DEF Holds
  <2>2. HoldSom(P.som_log, P.dirty, key, adjust, from, at + adjust)
    BY Zenon, <1>13 DEF Holds
  <2>3. /\ som_log' = HoldingAt(P.som_log, key, from, at + adjust)
        /\ som_log_dirty' = Dirtied(P.dirty, adjust)
    BY Zenon, <2>2 DEF HoldSom, HoldingAt, Holding, Dirtied
  <2>4. fl = FALSE
    BY Zenon, <2>1
  <2>5. Caught(ClearedLogs(at), P.som_log, P.dirty, at, raised, delivered \o Planned(P), FALSE)
    BY Zenon, <1>5, <2>4
  <2>6. /\ som_log' \in SomLogs /\ Dirtied(P.dirty, adjust) \in 0 .. 3
        /\ Caught(ClearedLogs(at), som_log', Dirtied(P.dirty, adjust), at,
                  raised \cup {Match(key, from, at + adjust)}, delivered \o Planned(P), FALSE)
    <3>1. to \in EndsAt(at) /\ som_log' = HoldingAt(P.som_log, key, from, to)
      BY Zenon, <1>2, <2>3 DEF to
    <3> HIDE DEF lg, D
    <3>2. Caught(lg, P.som_log, P.dirty, at, raised, D, FALSE) /\ D \in Seq(Reports)
      BY Zenon, <1>7, <2>5 DEF lg, D
    <3>4. Adjusted(at, adjust, to)
      BY Zenon, <3>1 DEF to, Adjusted
    <3>3. /\ HoldingAt(P.som_log, key, from, to) \in SomLogs /\ Dirtied(P.dirty, adjust) \in 0 .. 3
          /\ Caught(lg, HoldingAt(P.som_log, key, from, to), Dirtied(P.dirty, adjust), at,
                    raised \cup {Match(key, from, to)}, D, FALSE)
      BY Zenon, <1>1, <1>5, <2>1, <3>2, <3>4, SomCaught
    <3> QED BY Zenon, <3>1, <3>3 DEF lg, D, to
  <2>7. Caught(log', som_log', som_log_dirty', at, raised', delivered', fl)
    BY Zenon, <1>8, <2>1, <2>3, <2>4, <2>6 DEF x, to
  <2> QED BY Zenon, <1>5, <1>7, <1>12, <2>1, <2>3, <2>6, <2>7
<1>14. CASE Passes(P, at, key, adjust, phase)
  <2>1. /\ current_report_offset' = at /\ key \notin SomKeys
        /\ som_log' = P.som_log /\ som_log_dirty' = P.dirty
        /\ Deliver(ClearedLogs(at), delivered \o Planned(P), key, to, phase)
    BY Zenon, <1>14 DEF Passes, to
  <2>2. x = Match(key, 0, to)
    BY Zenon, <2>1 DEF x
  <2>3. fl \in BOOLEAN
    BY Zenon
  <2>4. CASE key \in ClearedLogs(at)[to % 2]
    <3>1. log' = ClearedLogs(at) /\ delivered' = delivered \o Planned(P) /\ call' = phase
      BY Zenon, <2>1, <2>4 DEF Deliver
    <3>2. raised' = raised
      <4> HIDE DEF lg, D, fl
      <4>1. /\ lg \in PlainLogs /\ Caught(lg, P.som_log, P.dirty, at, raised, D, fl)
            /\ key \in lg[to % 2]
        BY Zenon, <1>5, <2>4 DEF lg, D
      <4>2. raised \cup {Match(key, 0, to)} = raised
        BY <1>1, <1>2, <2>3, <4>1, PlainSquashed
      <4> QED BY Zenon, <1>8, <2>2, <4>2
    <3>3. Caught(log', som_log', som_log_dirty', at, raised', delivered', fl)
      BY Zenon, <1>5, <2>1, <3>1, <3>2
    <3> QED BY Zenon, <1>5, <1>7, <1>12, <2>1, <3>1, <3>3
  <2>5. CASE key \notin ClearedLogs(at)[to % 2]
    <3>1. /\ log' = Noted(ClearedLogs(at), key, to)
          /\ delivered' = Append(delivered \o Planned(P), Match(key, 0, to))
          /\ call' \in {phase, "halted"}
      BY Zenon, <2>1, <2>5 DEF Deliver, Noted
    <3>2. key \in (Dkeys \cup {MO_INVALID_IDX}) \ SomKeys
      BY Zenon, <2>1
    <3>3. /\ log' \in PlainLogs
          /\ Append(delivered \o Planned(P), Match(key, 0, to)) \in Seq(Reports)
          /\ Caught(log', P.som_log, P.dirty, at, raised \cup {Match(key, 0, to)},
                    Append(delivered \o Planned(P), Match(key, 0, to)), fl)
      <4> HIDE DEF lg, D, fl
      <4>1. /\ lg \in PlainLogs /\ Caught(lg, P.som_log, P.dirty, at, raised, D, fl)
            /\ key \notin lg[to % 2] /\ D \in Seq(Reports) /\ log' = Noted(lg, key, to)
        BY Zenon, <1>5, <1>7, <2>5, <3>1 DEF lg, D
      <4>2. /\ log' \in PlainLogs /\ Append(D, Match(key, 0, to)) \in Seq(Reports)
            /\ Caught(log', P.som_log, P.dirty, at, raised \cup {Match(key, 0, to)},
                      Append(D, Match(key, 0, to)), fl)
        BY <1>1, <1>2, <2>3, <3>2, <4>1, PlainDelivered
      <4> QED BY Zenon, <4>2 DEF D
    <3>4. Caught(log', som_log', som_log_dirty', at, raised', delivered', fl)
      BY Zenon, <1>8, <2>1, <2>2, <3>1, <3>3
    <3> QED BY Zenon, <1>5, <1>12, <2>1, <3>1, <3>3, <3>4
  <2> QED BY Zenon, <2>4, <2>5
<1> QED BY Zenon, <1>10, <1>11, <1>13, <1>14

\* The deduper between the calls of a scratch, and at the start of one.
LEMMA InitStep == Init => Inv
<1> SUFFICES ASSUME Init PROVE Types /\ Fine(raised, delivered) /\ InCall
  BY Zenon DEF Inv
<1>1. 0 \in Offsets /\ 0 \in 0 .. 3 /\ "idle" \in {"idle", "start", "scan", "flushed", "halted"}
      /\ "idle" \notin {"start", "scan", "flushed"}
  BY DeduperAssumption DEF Offsets
<1>2. Types
  BY Zenon, <1>1, NoneHeldType, NothingRaised DEF Init, Types
<1>3. Fine(raised, delivered)
  BY Zenon, NothingRaised DEF Init, Fine
<1>4. InCall
  BY Zenon, <1>1 DEF Init, InCall
<1> QED BY Zenon, <1>2, <1>3, <1>4

\* populateCoreInfo: a call begins, whatever the last one left in the logs.
LEMMA PopulateStep ==
    ASSUME Inv, NEW at \in Offsets, populateCoreInfo(at)
    PROVE  Types' /\ Fine(raised, delivered)' /\ InCall'
<1>1. Types
  BY Zenon DEF Inv
<1>2. /\ log' = log /\ som_log' = som_log /\ som_log_dirty' = 1 /\ offset' = at
      /\ current_report_offset' = NoOffset /\ call' = "start"
      /\ raised' = {} /\ delivered' = <<>>
  BY Zenon DEF populateCoreInfo
<1>3. 1 \in 0 .. 3 /\ "start" \in {"idle", "start", "scan", "flushed", "halted"}
      /\ "start" # "scan" /\ "start" # "flushed"
  OBVIOUS
<1>4. Types'
  BY Zenon, <1>1, <1>2, <1>3, NothingRaised DEF Types
<1>5. Fine(raised', delivered')
  BY Zenon, <1>2, NothingRaised DEF Fine
<1>6. InCall'
  BY Zenon, <1>2, <1>3 DEF InCall
<1> QED BY Zenon, <1>4, <1>5, <1>6 DEF Fine

\* A report of an engine.
LEMMA ReportAction ==
    ASSUME Inv, NEW at \in Offsets, NEW key \in Dkeys \cup {MO_INVALID_IDX},
           NEW adjust \in {0, -1}, NEW from \in Offsets, Report(at, key, adjust, from)
    PROVE  Types' /\ Fine(raised, delivered)' /\ InCall'
<1>1. Types /\ InCall
  BY Zenon DEF Inv
<1>2. /\ call \in {"start", "scan"} /\ at >= offset /\ at + adjust >= 0
      /\ (key \notin SomKeys => from = 0)
      /\ dedupeCatchup(som_log, som_log_dirty, at, key, adjust, from, "scan")
      /\ offset' = at /\ raised' = raised \cup {Match(key, from, at + adjust)}
  BY Zenon DEF Report
<1>3. som_log \in SomLogs /\ som_log_dirty \in 0 .. 3
  BY Zenon, <1>1 DEF Types
<1>4. /\ call \in {"start", "scan", "flushed"} /\ (call # "scan" => call = "start")
      /\ call # "flushed"
      /\ "scan" \in {"start", "scan", "flushed"} /\ ("scan" = "flushed") = FALSE
  BY <1>2
<1>5. Live(som_log, som_log_dirty, at, raised, delivered, FALSE)
  <2>1. CASE current_report_offset = NoOffset
    BY Zenon, <1>1, <1>4, <2>1 DEF InCall, Live
  <2>2. CASE current_report_offset # NoOffset
    <3>1. /\ offset = current_report_offset
          /\ Caught(log, som_log, som_log_dirty, current_report_offset, raised,
                    delivered, call = "flushed")
      BY Zenon, <1>1, <1>4, <2>2 DEF InCall
    <3>2. (call = "flushed") = FALSE
      BY Zenon, <1>4
    <3> QED BY Zenon, <1>2, <2>2, <3>1, <3>2 DEF Live
  <2> QED BY Zenon, <2>1, <2>2
<1>6. Live(som_log, som_log_dirty, at, raised, delivered, "scan" = "flushed")
  BY Zenon, <1>4, <1>5
<1> QED BY ZenonT(30), <1>1, <1>2, <1>3, <1>4, <1>6, ReportStep

\* roseRunBoundaryProgram: a report before the first or after the last of the
\* engines.
LEMMA BoundaryStep ==
    ASSUME Inv, NEW at \in Offsets, NEW key \in Dkeys \cup {MO_INVALID_IDX},
           roseRunBoundaryProgram(at, key)
    PROVE  Types' /\ Fine(raised, delivered)' /\ InCall'
<1> DEFINE fresh == current_report_offset = NoOffset
           sl == IF fresh THEN NoneHeld ELSE som_log
           dirty == IF fresh THEN 0 ELSE som_log_dirty
<1>1. Types /\ InCall
  BY Zenon DEF Inv
<1>2. /\ (call = "start" /\ at = offset) \/ (call = "flushed" /\ at >= offset)
      /\ key \notin SomKeys
      /\ dedupeCatchup(sl, dirty, at, key, 0, 0, call)
      /\ offset' = at /\ raised' = raised \cup {Match(key, 0, at)}
  BY Zenon DEF roseRunBoundaryProgram
<1>3. /\ call \in {"start", "scan", "flushed"}
      /\ at + 0 >= 0 /\ 0 \in {0, -1} /\ 0 \in Offsets /\ at + 0 = at /\ 0 \in 0 .. 3
      /\ at >= at
  BY <1>2, DeduperAssumption DEF Offsets
<1>4. sl \in SomLogs /\ dirty \in 0 .. 3
  BY Zenon, <1>1, <1>3, NoneHeldType DEF Types
<1>5. Live(sl, dirty, at, raised, delivered, call = "flushed")
  <2>1. CASE fresh
    BY Zenon, <1>1, <1>3, <2>1 DEF InCall, Live
  <2>2. CASE ~fresh
    <3>1. /\ offset = current_report_offset
          /\ Caught(log, som_log, som_log_dirty, current_report_offset, raised,
                    delivered, call = "flushed")
      BY Zenon, <1>1, <1>3, <2>2 DEF InCall
    <3>2. at >= current_report_offset
      BY Zenon, <1>2, <1>3, <3>1
    <3> QED BY Zenon, <2>2, <3>1, <3>2 DEF Live
  <2> QED BY Zenon, <2>1, <2>2
<1>6. raised' = raised \cup {Match(key, 0, at + 0)}
  BY Zenon, <1>2, <1>3
<1> HIDE DEF sl, dirty
<1> QED BY Zenon, <1>1, <1>2, <1>3, <1>4, <1>5, <1>6, ReportStep

\* A callback that stops the last flush has got what is right, as far as it goes.
LEMMA HaltedAtEnd ==
    ASSUME NEW c \in Offsets, NEW R \in SUBSET Reports, NEW D \in Seq(Reports), NEW H,
           NEW at, Got(c, R, D, FALSE), Flushes(H, R, c, at), NEW n \in 1 .. Len(H)
    PROVE  D \o SubSeq(H, 1, n) \in Seq(Reports) /\ Fine(R, D \o SubSeq(H, 1, n))
<1> DEFINE u == SubSeq(H, 1, n)
           E == D \o u
<1>1. H \in Seq(Reports) /\ Once(H) /\ Once(D)
  BY Zenon DEF Flushes, Got
<1>2. u \in Seq(Reports) /\ Range(u) \subseteq Range(H) /\ Once(u)
  BY Zenon, <1>1, OncePrefix
<1> HIDE DEF u
<1>3. E \in Seq(Reports) /\ Range(E) = Range(D) \cup Range(u)
  BY <1>2, RangeConcatenation, ConcatProperties
<1>4. \A m \in Range(D), r \in Range(u) : ~Same(m, r)
  BY Zenon, <1>2, FlushIsNew
<1>5. Once(E)
  BY Zenon, <1>1, <1>2, <1>4, OnceJoined
<1> HIDE DEF E
<1>6. \A m \in Range(D) : m \in R /\ Leftmost(R, m)
  BY Zenon DEF Got
<1>7. \A m \in Range(H) : m \in R /\ Leftmost(R, m)
  BY Zenon DEF Flushes
<1>8. \A m \in Range(E) : m \in R /\ Leftmost(R, m)
  BY Zenon, <1>2, <1>3, <1>6, <1>7
<1> QED BY Zenon, <1>3, <1>5, <1>8 DEF Fine, E, u

\* The last flush of a call.
LEMMA FlushStep ==
    ASSUME Inv, FlushAtEnd
    PROVE  Types' /\ Fine(raised, delivered)' /\ InCall'
<1> DEFINE c == current_report_offset
           P == flushStoredSomMatches(som_log, som_log_dirty, NoOffset)
<1>1. Types /\ InCall
  BY Zenon DEF Inv
<1>2. /\ call \in {"start", "scan"} /\ log' = log /\ offset' = offset /\ raised' = raised
      /\ \/ \E n \in 1 .. Len(Planned(P)) : HaltFlush(P, som_log, n)
         \/ /\ delivered' = delivered \o Planned(P)
            /\ som_log' = P.som_log /\ som_log_dirty' = P.dirty /\ call' = "flushed"
            /\ current_report_offset' = current_report_offset
  BY Zenon DEF FlushAtEnd, Planned
<1>3. /\ call \in {"start", "scan", "flushed"} /\ (call # "scan" => call = "start")
      /\ (call = "flushed") = FALSE
      /\ "flushed" \in {"idle", "start", "scan", "flushed", "halted"} /\ "flushed" # "scan"
      /\ "halted" \in {"idle", "start", "scan", "flushed", "halted"}
      /\ "halted" \notin {"start", "scan", "flushed"} /\ "flushed" # "start"
      /\ 0 \in 0 .. 3
  BY <1>2
<1>4. /\ log \in PlainLogs /\ raised \in SUBSET Reports /\ delivered \in Seq(Reports)
      /\ c \in Offsets \cup {NoOffset} /\ som_log \in SomLogs /\ som_log_dirty \in 0 .. 3
      /\ offset \in Offsets
  BY Zenon, <1>1 DEF Types, PlainLogs
<1>5. CASE c = NoOffset
  <2>1. raised = {} /\ delivered = <<>> /\ som_log_dirty = 1
    BY Zenon, <1>1, <1>3, <1>5 DEF InCall
  <2>2. P.older = <<>> /\ P.newer = <<>> /\ P.som_log = NoneHeld /\ P.dirty = 0
    BY <1>5, <2>1 DEF flushStoredSomMatches
  <2> HIDE DEF P
  <2>3. Planned(P) = <<>> /\ delivered \o Planned(P) = delivered
    BY Zenon, <1>4, <2>2, NothingPlanned
  <2>4. 1 .. Len(Planned(P)) = {}
    BY <2>3
  <2>5. /\ delivered' = delivered /\ som_log' = NoneHeld /\ som_log_dirty' = 0
        /\ call' = "flushed" /\ current_report_offset' = current_report_offset
    BY Zenon, <1>2, <2>2, <2>3, <2>4
  <2>6. Types'
    BY Zenon, <1>2, <1>3, <1>4, <2>5, NoneHeldType DEF Types, PlainLogs
  <2>7. Fine(raised', delivered')
    BY Zenon, <1>2, <2>1, <2>5, NothingRaised DEF Fine
  <2>8. InCall'
    BY Zenon, <1>2, <1>3, <1>5, <2>1, <2>5 DEF InCall
  <2> QED BY Zenon, <2>6, <2>7, <2>8 DEF Fine
<1>6. CASE c # NoOffset
  <2>1. c \in Offsets /\ offset = c
    BY Zenon, <1>1, <1>3, <1>4, <1>6 DEF InCall
  <2>2. Caught(log, som_log, som_log_dirty, c, raised, delivered, call = "flushed")
    BY Zenon, <1>1, <1>3, <1>6 DEF InCall
  <2>3. /\ Got(c, raised, delivered, FALSE) /\ Logged(log, c, raised)
        /\ Held(som_log, c, raised) /\ Clean(som_log, som_log_dirty, c)
    BY Zenon, <1>3, <2>2 DEF Caught
  <2>4. NoOffset \in Int /\ NoOffset > c + 1 /\ NoOffset > c /\ NoOffset # c + 1
    BY <2>1, DeduperAssumption DEF NoOffset, Offsets
  <2>5. HeldBack(som_log, som_log_dirty, c, raised)
    BY Zenon, <2>3 DEF HeldBack, Got
  <2>6. /\ Flushes(Planned(P), raised, c, NoOffset)
        /\ Leaves(som_log, som_log_dirty, c, NoOffset, P.som_log, P.dirty)
    BY Zenon, <1>4, <2>1, <2>4, <2>5, FlushRaises DEF Planned
  <2> HIDE DEF P
  <2>7. Planned(P) \in Seq(Reports) /\ P.som_log = NoneHeld /\ P.dirty = 0
    BY Zenon, <2>4, <2>6 DEF Flushes, Leaves
  <2>8. CASE \E n \in 1 .. Len(Planned(P)) : HaltFlush(P, som_log, n)
    <3>1. PICK n \in 1 .. Len(Planned(P)) : HaltFlush(P, som_log, n)
      BY Zenon, <2>8
    <3>2. /\ som_log' \in SomLogs /\ som_log_dirty' = P.dirty /\ call' = "halted"
          /\ current_report_offset' = current_report_offset
          /\ delivered' = delivered \o SubSeq(Planned(P), 1, n)
      BY Zenon, <1>4, <3>1, HaltTypes
    <3>3. delivered' \in Seq(Reports) /\ Fine(raised, delivered')
      BY Zenon, <1>4, <2>1, <2>3, <2>6, <3>2, HaltedAtEnd
    <3>4. Types'
      BY Zenon, <1>2, <1>3, <1>4, <2>7, <3>2, <3>3 DEF Types, PlainLogs
    <3>5. InCall'
      BY Zenon, <1>3, <3>2 DEF InCall
    <3> QED BY Zenon, <1>2, <3>3, <3>4, <3>5 DEF Fine
  <2>9. CASE /\ delivered' = delivered \o Planned(P)
             /\ som_log' = P.som_log /\ som_log_dirty' = P.dirty /\ call' = "flushed"
             /\ current_report_offset' = current_report_offset
    <3>1. delivered' \in Seq(Reports)
      BY <1>4, <2>7, <2>9, ConcatProperties
    <3>2. Got(c, raised, delivered \o Planned(P), TRUE)
      BY Zenon, <1>4, <2>1, <2>3, <2>4, <2>6, GotMore
    <3>3. Caught(log, som_log', som_log_dirty', c, raised, delivered', TRUE)
      BY Zenon, <2>3, <2>7, <2>9, <3>2 DEF Caught
    <3>4. Caught(log', som_log', som_log_dirty', current_report_offset', raised', delivered',
                 call' = "flushed")
      BY Zenon, <1>2, <2>9, <3>3
    <3>5. Types'
      BY Zenon, <1>2, <1>3, <1>4, <2>7, <2>9, <3>1, NoneHeldType DEF Types, PlainLogs
    <3>6. Fine(raised', delivered')
      BY Zenon, <3>4, CaughtFine
    <3>7. InCall'
      BY Zenon, <1>2, <1>6, <2>1, <2>9, <3>4 DEF InCall
    <3> QED BY Zenon, <3>5, <3>6, <3>7 DEF Fine
  <2> QED BY Zenon, <1>2, <2>8, <2>9
<1> QED BY Zenon, <1>5, <1>6

\* Every step keeps the invariant.
LEMMA NextStep ==
    ASSUME Inv, [Next]_vars
    PROVE  Inv'
<1>1. CASE UNCHANGED vars
  BY Zenon, <1>1 DEF vars, deduper, Inv, Types, Fine, InCall
<1>2. ASSUME Next PROVE Types' /\ Fine(raised, delivered)' /\ InCall'
  <2>1. CASE \E at \in Offsets : populateCoreInfo(at)
    BY Zenon, <2>1, PopulateStep
  <2>2. CASE \E at \in Offsets, key \in Dkeys \cup {MO_INVALID_IDX},
                adjust \in {0, -1}, from \in Offsets : Report(at, key, adjust, from)
    BY Zenon, <2>2, ReportAction
  <2>3. CASE \E at \in Offsets, key \in Dkeys \cup {MO_INVALID_IDX} :
                roseRunBoundaryProgram(at, key)
    BY Zenon, <2>3, BoundaryStep
  <2>4. CASE FlushAtEnd
    BY Zenon, <2>4, FlushStep
  <2> QED BY Zenon, <1>2, <2>1, <2>2, <2>3, <2>4 DEF Next
<1> QED BY Zenon, <1>1, <1>2 DEF Inv

\* The invariant gives the properties of the run.
LEMMA InvGives == Inv => TypeOK /\ DeliversLeftmost /\ DeliversOnce
<1> SUFFICES ASSUME Inv PROVE TypeOK /\ DeliversLeftmost /\ DeliversOnce
  OBVIOUS
<1>1. Types /\ Fine(raised, delivered) /\ Once(delivered) /\ InCall
  BY Zenon DEF Inv, Fine
<1>4. DeliversLeftmost
  BY Zenon, <1>1 DEF DeliversLeftmost, Raised, Fine, Leftmost
<1>2. DeliversOnce
  <2>1. ASSUME call = "flushed" PROVE \A r \in raised : \E m \in Range(delivered) : Same(m, r)
    <3>1. CASE current_report_offset = NoOffset
      BY Zenon, <1>1, <2>1, <3>1 DEF InCall
    <3>2. CASE current_report_offset # NoOffset
      <4>1. Got(current_report_offset, raised, delivered, TRUE)
        BY Zenon, <1>1, <2>1, <3>2 DEF InCall, Caught
      <4> QED BY Zenon, <4>1 DEF Got
    <3> QED BY Zenon, <3>1, <3>2
  <2> QED BY Zenon, <1>1, <2>1 DEF DeliversOnce, Once, Same
<1>3. TypeOK
  <2>1. \A m \in Reports : m.key \in Dkeys \cup {MO_INVALID_IDX} /\ {m.from, m.to} \subseteq Offsets
    BY DEF Reports
  <2>2. Range(delivered) \subseteq Reports /\ raised \subseteq Reports
    BY <1>1, RangeOfSeq DEF Types
  <2>3. ASSUME NEW i \in Parities
        PROVE  DOMAIN som_log[i] \subseteq SomKeys /\ Range(som_log[i]) \subseteq Offsets
    <3>1. som_log[i] \in UNION {[keys -> Offsets] : keys \in SUBSET SomKeys}
      BY Zenon, <1>1 DEF Types, SomLogs
    <3>2. PICK keys \in SUBSET SomKeys : som_log[i] \in [keys -> Offsets]
      BY <3>1
    <3> QED BY Zenon, <3>2 DEF Range
  <2> QED BY Zenon, <1>1, <2>1, <2>2, <2>3 DEF TypeOK, Types
<1> QED BY Zenon, <1>2, <1>3, <1>4

\* The deduper is right at every step of every call on a scratch.
LEMMA DeduperInvariant == Spec => []Inv
BY InitStep, NextStep, PTL DEF Spec

\* The logs of populateCoreInfo, dedupeCatchup and flushStoredSomMatches hold
\* keys of their kind, and what the callback gets are matches of the database.
THEOREM DeduperTypes == Spec => []TypeOK
BY DeduperInvariant, InvGives, PTL

\* Whatever earlier calls left in the scratch, stopped ones included, the user's
\* callback gets only matches that engines report in its call, each with the
\* leftmost start reported for its key and end offset.
THEOREM DeduperLeftmost == Spec => []DeliversLeftmost
BY DeduperInvariant, InvGives, PTL

\* Squashing by dedupeCatchup is exact: a key is delivered at most once for an end
\* offset, and a call that was not stopped has, once flushed, delivered every key at
\* every end offset reported for it.
THEOREM DeduperOnce == Spec => []DeliversOnce
BY DeduperInvariant, InvGives, PTL
=============================================================================
