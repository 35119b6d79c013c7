------------------------------- MODULE Repeat -------------------------------
(***************************************************************************)
(* Bounded repeats, X{min,max}: nfa/repeat.h and nfa/repeat.c, as the      *)
(* large-bounded-repeat engine (nfa/lbr.c) drives them.                    *)
(*                                                                         *)
(* A repeat is told where it starts (a "top") and asked where it matches:  *)
(* offset o is a match when some top t has min <= o - t <= max.  Keeping   *)
(* every top would take a bit per byte of input, so the compiler picks one *)
(* of several compact stores, each of which forgets tops it can do         *)
(* without; at a stream boundary the store is packed, relative to the      *)
(* stream offset and capped at a horizon, and unpacked at the next write.  *)
(* The variable tops remembers the tops raised that may still matter,      *)
(* those the engine did not store included; the properties compare every   *)
(* answer with it.                                                         *)
(*                                                                         *)
(* A multibit is modelled by the set of its keys (Multibit.tla shows that  *)
(* it behaves as one), a 64-bit map by the set of its one bits, cut to     *)
(* Word positions.  The choices chooseRepeatType and findOptimalPatchSize  *)
(* make by comparing sizes in bytes are left open: any outcome is taken.   *)
(***************************************************************************)
EXTENDS Integers, Sequences, SequencesExt, FiniteSets, FiniteSetsExt

CONSTANTS Word,          \* bits in a u64a (64)
          RangeSlots,    \* REPEAT_RANGE_MAX_SLOTS (16)
          SparsePeriod,  \* SPARSE_OPTIMAL_P needs minPeriod above this (6)
          Repeats,       \* the repeats to be compiled, with what minPeriod()
                         \* says of their triggers: [min, max, minPeriod, can_reset]
          LastOffset     \* bound on the stream offset

ASSUME RepeatAssumption ==
    /\ Word \in Nat \ {0} /\ RangeSlots \in Nat /\ SparsePeriod \in Nat
    /\ \A r \in Repeats : r.min \in Nat /\ r.max \in Nat /\ r.minPeriod \in Nat \ {0}
                          /\ r.min <= r.max /\ r.can_reset \in BOOLEAN

VARIABLES info,    \* struct RepeatInfo
          ctrl,    \* union RepeatControl, in lbr_state
          state,   \* the repeat state kept in stream state
          lastEscape, \* where the reverse scan found an escape, in lbr_state
          offset,  \* the stream offset the engine has reached
          escapes, \* the escapes after offset that a reverse scan has found
          tops     \* the tops raised since the last escape that can still matter

vars == <<info, ctrl, state, lastEscape, offset, escapes, tops>>

REPEAT_INF == 65535
REPEAT_DEAD == -1
MMB_INVALID == -1

----------------------------------------------------------------------------
(* Compile time: nfa/repeatcompile.cpp                                     *)

numRangeSlots(min, max) == 2 * ((max \div (max - min)) + 1)

\* The fewest bits that tell val values apart.
calcPackedBits(val) == Min({n \in 1..17 : val <= 2 ^ n})

calcPackedBytes(val) == (calcPackedBits(val) + 7) \div 8

\* f(i): the number of sets of positions below i that are minPeriod apart.
repeatRecurTable(max, minPeriod) ==
    LET table[i \in 0..max] ==
            IF i <= minPeriod THEN i + 1 ELSE table[i - 1] + table[i - minPeriod]
    IN  table

\* One top is enough: there is an escape between any two triggers, or the next
\* trigger ends after the repeat does (constructLBR).
is_reset(r) == r.can_reset \/ r.minPeriod > r.max

\* The types chooseRepeatType may return: several where it compares sizes.
chooseRepeatType(r) ==
    LET range  == r.max > r.min /\ numRangeSlots(r.min, r.max) <= RangeSlots
        sparse == r.minPeriod > SparsePeriod
    IN  CASE r.max = REPEAT_INF -> {"FIRST"}
          [] r.max # REPEAT_INF /\ (r.min = 0 \/ is_reset(r)) -> {"LAST"}
          [] r.max < Word /\ r.min # 0 /\ ~is_reset(r) -> {"BITMAP", "TRAILER"}
          [] r.max \in Word..(REPEAT_INF - 1) /\ r.min \in 1..Word /\ ~is_reset(r) ->
               {"TRAILER"}
          [] OTHER -> IF range \/ sparse
                      THEN (IF range THEN {"RANGE"} ELSE {})
                           \cup (IF sparse THEN {"SPARSE_OPTIMAL_P"} ELSE {})
                      ELSE {"RING"}

\* The patch sizes findOptimalPatchSize chooses among, with the patch count.
\* (A period beyond max comes from the LimEx NFA only, which has no is_reset for it.)
Patches(r) ==
    IF r.max < r.minPeriod
    THEN {[size |-> r.max, count |-> 1]}
    ELSE {[size |-> i, count |-> ((r.max + (i - 1)) \div i) + 1] :
              i \in r.minPeriod..r.max}

NoPatch == [size |-> 0, count |-> 0]

\* Mutant of horizonOf: an offset is capped at max, where it still matters.
horizonOfTight(type, r, patch) ==
    CASE type = "FIRST" -> r.min
      [] type = "BITMAP" -> 0
      [] OTHER -> r.max

horizonOf(type, r, patch) ==
    CASE type = "FIRST" -> r.min
      [] type \in {"LAST", "TRAILER"} -> r.max + 1
      [] type \in {"RING", "RANGE"} -> 2 * r.max + 1
      [] type = "SPARSE_OPTIMAL_P" -> 2 * patch.size * patch.count + 1
      [] OTHER -> 0

RepeatStateInfo(type, r, patch) ==
    [type |-> type, min |-> r.min, max |-> r.max, minPeriod |-> r.minPeriod,
     can_reset |-> r.can_reset,
     patchSize |-> patch.size, patchCount |-> patch.count,
     table |-> IF type = "SPARSE_OPTIMAL_P"
               THEN repeatRecurTable(r.max, r.minPeriod) ELSE <<>>,
     horizon |-> horizonOf(type, r, patch)]

Infos ==
    UNION {{RepeatStateInfo(t, r, p) :
               p \in IF t = "SPARSE_OPTIMAL_P" THEN Patches(r) ELSE {NoPatch}} :
           <<t, r>> \in {<<t, r>> \in {"FIRST", "LAST", "BITMAP", "TRAILER", "RANGE",
                                      "RING", "SPARSE_OPTIMAL_P"} \X Repeats :
                         t \in chooseRepeatType(r)}}

----------------------------------------------------------------------------
(* Words and multibits                                                     *)

MinOf(a, b) == IF a <= b THEN a ELSE b
MaxOf(a, b) == IF a >= b THEN a ELSE b

ShiftLeft(bits, n) == {i + n : i \in bits} \cap (0..(Word - 1))
ShiftRight(bits, n) == {i - n : i \in bits} \cap Nat

mask_ones_to(v) == 0..MinOf(v, Word - 1)

mmbit_iterate_bounded(bits, begin, end) ==
    LET found == {k \in bits : begin <= k /\ k < end}
    IN  IF found = {} THEN MMB_INVALID ELSE Min(found)

mmbit_unset_range(bits, begin, end) == {k \in bits : k < begin \/ k >= end}

----------------------------------------------------------------------------
(* FIRST and LAST: one offset                                              *)

repeatNextMatchOffset(xs, o) ==
    LET first == xs.offset + info.min
    IN  IF o < first THEN first
        ELSE IF info.max = REPEAT_INF \/ o < xs.offset + info.max THEN o + 1 ELSE 0

repeatHasMatchFirst(xs, o) ==
    IF o < xs.offset + info.min THEN "NOMATCH" ELSE "MATCH"

repeatHasMatchLast(xs, o) ==
    CASE o < xs.offset + info.min -> "NOMATCH"
      [] o \in (xs.offset + info.min)..(xs.offset + info.max) -> "MATCH"
      [] OTHER -> "STALE"

----------------------------------------------------------------------------
(* RING: a multibit of max + 1 keys, used as a ring                        *)

ringCapacity == info.max + 1

ringOccupancy(xs, ringSize) ==
    IF xs.last > xs.first THEN xs.last - xs.first
    ELSE ringSize - (xs.first - xs.last)

ringLastTop(xs) == xs.offset + ringOccupancy(xs, ringCapacity) - 1

\* Mutant of Wrapped: the index one past the end is kept.
WrappedLate(i, size) == IF i > size THEN i - size ELSE i

Wrapped(i, size) == IF i >= size THEN i - size ELSE i

repeatNextMatchRing(xs, ring, before) ==
    LET o     == before + 1
        delta == o - xs.offset
        lower == IF delta > info.max THEN delta - info.max ELSE 0
        begin == Wrapped(xs.first + lower, ringCapacity)
        end   == IF begin >= xs.last THEN ringCapacity ELSE xs.last
        i     == mmbit_iterate_bounded(ring, begin, end)
        i2    == mmbit_iterate_bounded(ring, 0, xs.last)
        At(j) == MaxOf(o, xs.offset + j + info.min)
    IN  CASE delta < info.min -> xs.offset + info.min
          [] delta >= info.min /\ o > ringLastTop(xs) + info.max -> 0
          [] OTHER -> IF i # MMB_INVALID THEN At(i - begin + lower)
                      ELSE IF begin >= xs.last /\ i2 # MMB_INVALID
                           THEN At(i2 + (ringCapacity - begin) + lower)
                           ELSE 0

storeInitialRingTop(o) ==
    [ctrl |-> [offset |-> o, first |-> 0, last |-> 1], state |-> {0}]

ringIsStale(xs, o) == o - ringLastTop(xs) >= ringCapacity

\* Older tops are pushed out when the ring is too short to reach o; then a
\* run of zeroes and a one are written behind the last top.
repeatStoreRing(xs, ring, o, is_alive) ==
    LET diff  == o - xs.offset
        push  == IF diff >= ringCapacity THEN diff - ringCapacity + 1 ELSE 0
        n     == (diff - push) - (ringOccupancy(xs, ringCapacity) - push)
        i     == xs.last + n
        zeros == mmbit_unset_range(ring, xs.last, MinOf(i, ringCapacity))
        at    == Wrapped(i, ringCapacity)
    IN  IF ~is_alive \/ ringIsStale(xs, o) THEN storeInitialRingTop(o)
        ELSE [ctrl  |-> [offset |-> xs.offset + push,
                         first  |-> Wrapped(xs.first + push, ringCapacity),
                         last   |-> IF at + 1 = ringCapacity THEN 0 ELSE at + 1],
              state |-> (IF i >= ringCapacity THEN mmbit_unset_range(zeros, 0, at)
                         ELSE zeros) \cup {at}]

ringHasMatch(xs, ring, lower, upper) ==
    LET i    == Wrapped(xs.first + lower, ringCapacity)
        end  == Wrapped(xs.first + upper, ringCapacity)
        stop == IF i < end THEN end ELSE ringCapacity
    IN  IF lower + 1 = upper THEN i \in ring
        ELSE \/ mmbit_iterate_bounded(ring, i, stop) # MMB_INVALID
             \/ i >= end /\ mmbit_iterate_bounded(ring, 0, end) # MMB_INVALID

repeatHasMatchRing(xs, ring, o) ==
    LET delta == o - xs.offset
        lower == IF delta > info.max THEN delta - info.max ELSE 0
        upper == MinOf(delta - info.min + 1, ringOccupancy(xs, ringCapacity))
    IN  CASE delta < info.min -> "NOMATCH"
          [] delta >= info.min /\ o - ringLastTop(xs) >= ringCapacity -> "STALE"
          [] OTHER -> IF lower < upper /\ ringHasMatch(xs, ring, lower, upper)
                      THEN "MATCH" ELSE "NOMATCH"

----------------------------------------------------------------------------
(* RANGE: an ordered list of tops, relative to the first                   *)

rangeListCapacity == numRangeSlots(info.min, info.max)

repeatLastTopRange(xs, ring) == xs.offset + Last(ring)

repeatNextMatchRange(xs, ring, o) ==
    LET open == {i \in DOMAIN ring : o < xs.offset + ring[i] + info.max}
        base == xs.offset + ring[Min(open)]
    IN  IF open = {} THEN 0 ELSE MaxOf(o + 1, base + info.min)

storeInitialRangeTop(o) == [ctrl |-> [offset |-> o], state |-> <<0>>]

\* Stale tops are cut from the front and the rest made relative to the first
\* that is left.  The last top is replaced when the window of the one before
\* it reaches the window of the new one.
repeatStoreRange(xs, ring, o, is_alive) ==
    LET live  == {i \in DOMAIN ring : o - (xs.offset + ring[i]) <= info.max}
        i     == Min(live)
        base  == xs.offset + ring[i]
        kept  == [j \in 1..(Len(ring) - i + 1) |-> ring[i + j - 1] - ring[i]]
        n     == Len(kept)
        merge == n >= 2 /\ o - (base + kept[n - 1]) <= info.max - info.min
    IN  IF ~is_alive \/ live = {} THEN storeInitialRangeTop(o)
        ELSE [ctrl  |-> [offset |-> base],
              state |-> Append(IF merge THEN Front(kept) ELSE kept, o - base)]

repeatHasMatchRange(xs, ring, o) ==
    LET diff == o - repeatLastTopRange(xs, ring)
    IN  CASE o - xs.offset < info.min -> "NOMATCH"
          [] o - xs.offset >= info.min /\ diff > info.max -> "STALE"
          [] OTHER ->
               IF \E i \in DOMAIN ring :
                     o - (xs.offset + ring[i]) \in info.min..info.max
               THEN "MATCH" ELSE "NOMATCH"

----------------------------------------------------------------------------
(* BITMAP: a word of tops, ahead of a base offset                          *)

repeatLastTopBitmap(xs) == IF xs.bitmap = {} THEN 0 ELSE xs.offset + Max(xs.bitmap)

repeatNextMatchBitmap(xs, o) ==
    LET open == {b \in xs.bitmap : o < xs.offset + b + info.max}
    IN  IF open = {} THEN 0 ELSE MaxOf(o + 1, xs.offset + Min(open) + info.min)

repeatStoreBitmap(xs, o, is_alive) ==
    LET diff == o - xs.offset
        push == IF diff >= info.max + 1 THEN diff - info.max ELSE 0
    IN  IF ~is_alive \/ xs.bitmap = {} \/ o > repeatLastTopBitmap(xs) + info.max
        THEN [offset |-> o, bitmap |-> {0}]
        ELSE [offset |-> xs.offset + push,
              bitmap |-> ShiftRight(xs.bitmap, push) \cup {diff - push}]

repeatHasMatchBitmap(xs, o) ==
    CASE xs.bitmap = {} -> "STALE"
      [] xs.bitmap # {} /\ o - xs.offset < info.min -> "NOMATCH"
      [] OTHER ->
           IF o - repeatLastTopBitmap(xs) > info.max THEN "STALE"
           ELSE IF \E b \in xs.bitmap : o - (xs.offset + b) \in info.min..info.max
                THEN "MATCH" ELSE "NOMATCH"

----------------------------------------------------------------------------
(* TRAILER: the window of the last top, and a word of the matches before it *)

repeatNextMatchTrailer(xs, o) ==
    LET diff  == xs.offset - o
        ahead == IF diff <= Word THEN xs.bitmap \cap (0..(diff - 2)) ELSE xs.bitmap
    IN  CASE o >= xs.offset + (info.max - info.min) -> 0
          [] o \in xs.offset..(xs.offset + (info.max - info.min) - 1) -> o + 1
          [] OTHER -> IF ahead = {} THEN xs.offset ELSE xs.offset - Max(ahead) - 1

\* The bits of matches in the window of the previous top, diff bytes back.
PreviousWindow(diff) ==
    LET m_width == info.max - info.min
    IN  IF diff <= m_width THEN mask_ones_to(diff - 1)
        ELSE ShiftLeft(mask_ones_to(m_width), diff - m_width - 1)

repeatStoreTrailer(xs, o, is_alive) ==
    LET next_extent == o + info.min
        diff == next_extent - xs.offset
        seen == ShiftLeft(xs.bitmap, diff) \cup PreviousWindow(diff)
    IN  [offset |-> next_extent,
         bitmap |-> IF ~is_alive THEN {}
                    ELSE IF info.min < Word - 1 THEN seen \cap (0..info.min)
                    ELSE seen]

repeatHasMatchTrailer(xs, o) ==
    CASE o > xs.offset + (info.max - info.min) -> "STALE"
      [] o \in xs.offset..(xs.offset + (info.max - info.min)) -> "MATCH"
      [] OTHER -> IF o >= xs.offset - info.min /\ (xs.offset - o - 1) \in xs.bitmap
                  THEN "MATCH" ELSE "NOMATCH"

----------------------------------------------------------------------------
(* SPARSE_OPTIMAL_P: a ring of patches, each the sum of table[p] over the  *)
(* positions p of its tops, which are at least minPeriod apart             *)

\* Takes positions off val from the highest down to tval: what is left of
\* val, and the distance of the lowest one taken from the end of the patch.
RECURSIVE TakeFrom(_, _, _, _)
TakeFrom(p, tval, val, loc) ==
    IF p < tval THEN [val |-> val, loc |-> loc]
    ELSE IF val >= info.table[p]
         THEN TakeFrom(p - info.minPeriod, tval, val - info.table[p], info.patchSize - p)
         ELSE TakeFrom(p - 1, tval, val, loc)

getSparseOptimalTargetValue(tval, val) == TakeFrom(info.patchSize - 1, tval, val, 0)

sparseLastTop(xs, st) ==
    LET occ   == ringOccupancy(xs, info.patchCount)
        patch == Wrapped(xs.first + occ - 1, info.patchCount)
        at    == {i \in 0..(info.patchSize - 1) : st.ring[patch] >= info.table[i]}
    IN  IF at = {} THEN 0 ELSE xs.offset + Max(at) + (occ - 1) * info.patchSize

repeatNextMatchSparseOptimalP(xs, st, o) ==
    LET nextOffset == o + 1
        early == nextOffset <= xs.offset + info.min
        delta == nextOffset - xs.offset
        lower == IF delta > info.max THEN delta - info.max ELSE 0
        patch == IF early THEN xs.first ELSE lower \div info.patchSize
        tval  == IF early THEN 0 ELSE lower - patch * info.patchSize
        begin == Wrapped(xs.first + patch, info.patchCount)
        end   == IF begin >= xs.last THEN info.patchCount ELSE xs.last
        Loc(p, low) == getSparseOptimalTargetValue(low, st.ring[p]).loc
        ahead == {p \in st.active : begin <= p /\ p < end
                                    /\ Loc(p, IF p = begin THEN tval ELSE 0) # 0}
        wrap  == {p \in st.active : begin >= xs.last /\ p < xs.last /\ Loc(p, 0) # 0}
        p1    == IF Min(ahead) >= xs.first THEN Min(ahead) - xs.first
                 ELSE Min(ahead) + info.patchCount - xs.first
        At(n, loc) == MaxOf(nextOffset, xs.offset + info.min + n * info.patchSize - loc)
    IN  IF \/ ~early /\ nextOffset > sparseLastTop(xs, st) + info.max
           \/ patch >= info.patchCount
        THEN 0
        ELSE IF ahead # {}
        THEN At(p1 + 1, Loc(Min(ahead), IF Min(ahead) = begin THEN tval ELSE 0))
        ELSE IF wrap # {}
        THEN At(Min(wrap) + 1 + (end - xs.first), Loc(Min(wrap), 0))
        ELSE 0

storeInitialRingTopPatch(st, o) ==
    [ctrl  |-> [offset |-> o, first |-> 0, last |-> 1],
     state |-> [active |-> {0}, ring |-> [st.ring EXCEPT ![0] = 1]]]

\* A top in the newest patch is added to it; one beyond it opens a new patch,
\* and when there are patches enough already the oldest ones are dropped.
repeatStoreSparseOptimalP(xs, st, o, is_alive) ==
    LET delta == o - xs.offset
        patch == delta \div info.patchSize
        occ   == ringOccupancy(xs, info.patchCount)
        same  == patch < occ /\ patch < info.patchCount
        shift == IF patch >= info.patchCount THEN patch - info.patchCount + 1 ELSE 0
        next  == xs.last + patch - occ
        idx   == IF same THEN (IF xs.last = 0 THEN info.patchCount ELSE xs.last) - 1
                 ELSE Wrapped(next, info.patchCount)
        ahead == mmbit_unset_range(st.active, xs.last, MinOf(next, info.patchCount))
        clear == IF same THEN st.active
                 ELSE IF next >= info.patchCount THEN mmbit_unset_range(ahead, 0, idx + 1)
                 ELSE ahead
    IN  IF ~is_alive \/ o > sparseLastTop(xs, st) + info.max
        THEN storeInitialRingTopPatch(st, o)
        ELSE [ctrl  |-> [offset |-> xs.offset + info.patchSize * shift,
                         first  |-> Wrapped(xs.first + shift, info.patchCount),
                         last   |-> IF same THEN xs.last
                                    ELSE IF idx + 1 = info.patchCount THEN 0 ELSE idx + 1],
              state |-> [active |-> clear \cup {idx},
                         ring   |-> [st.ring EXCEPT ![idx] =
                             (IF same THEN @ ELSE 0)
                                 + info.table[delta - patch * info.patchSize]]]]

\* A top between positions lower and upper of the patches as they lie in memory.
sparseHasMatch(st, lower, upper) ==
    LET patch_lower == lower \div info.patchSize
        patch_upper == upper \div info.patchSize
        Low(p, n) == n - p * info.patchSize
        first == IF patch_upper = patch_lower
                 THEN getSparseOptimalTargetValue(Low(patch_lower, upper) + 1,
                                                  st.ring[patch_lower]).val
                 ELSE st.ring[patch_lower]
    IN  \/ /\ patch_lower \in st.active
           /\ first >= info.table[Low(patch_lower, lower)]
        \/ /\ patch_lower # patch_upper
           /\ \/ mmbit_iterate_bounded(st.active, patch_lower + 1, patch_upper)
                     # MMB_INVALID
              \/ /\ patch_upper # info.patchCount
                 /\ patch_upper \in st.active
                 /\ getSparseOptimalTargetValue(Low(patch_upper, upper) + 1,
                                                st.ring[patch_upper]).val # 0

repeatHasMatchSparseOptimalP(xs, st, o) ==
    LET size  == info.patchSize
        count == info.patchCount
        delta == o - xs.offset
        occ   == ringOccupancy(xs, count)
        lower == IF delta > info.max THEN delta - info.max ELSE 0
        upper == MinOf(delta - info.min, occ * size - 1)
        low   == Wrapped(lower \div size + xs.first, count)
        high  == IF lower \div size + xs.first >= count
                 THEN upper \div size + xs.first - count
                 ELSE Wrapped(upper \div size + xs.first, count)
        from  == low * size + (lower % size)
        Found == IF low <= high THEN sparseHasMatch(st, from, high * size + (upper % size))
                 ELSE \/ sparseHasMatch(st, from, count * size)
                      \/ sparseHasMatch(st, 0, upper - (count - xs.first) * size)
    IN  CASE delta < info.min -> "NOMATCH"
          [] delta >= info.min /\ o > sparseLastTop(xs, st) + info.max -> "STALE"
          [] OTHER -> IF lower \div size < occ /\ Found THEN "MATCH" ELSE "NOMATCH"

----------------------------------------------------------------------------
(* The interface of nfa/repeat.h                                           *)

repeatLastTop(xs, st) ==
    CASE info.type = "RING" -> ringLastTop(xs)
      [] info.type \in {"FIRST", "LAST"} -> xs.offset
      [] info.type = "RANGE" -> repeatLastTopRange(xs, st)
      [] info.type = "BITMAP" -> repeatLastTopBitmap(xs)
      [] info.type = "TRAILER" -> xs.offset - info.min
      [] info.type = "SPARSE_OPTIMAL_P" -> sparseLastTop(xs, st)

repeatNextMatch(xs, st, o) ==
    CASE info.type = "RING" -> repeatNextMatchRing(xs, st, o)
      [] info.type \in {"FIRST", "LAST"} -> repeatNextMatchOffset(xs, o)
      [] info.type = "RANGE" -> repeatNextMatchRange(xs, st, o)
      [] info.type = "BITMAP" -> repeatNextMatchBitmap(xs, o)
      [] info.type = "TRAILER" -> repeatNextMatchTrailer(xs, o)
      [] info.type = "SPARSE_OPTIMAL_P" -> repeatNextMatchSparseOptimalP(xs, st, o)

repeatHasMatch(xs, st, o) ==
    CASE info.type = "RING" -> repeatHasMatchRing(xs, st, o)
      [] info.type = "FIRST" -> repeatHasMatchFirst(xs, o)
      [] info.type = "LAST" -> repeatHasMatchLast(xs, o)
      [] info.type = "RANGE" -> repeatHasMatchRange(xs, st, o)
      [] info.type = "BITMAP" -> repeatHasMatchBitmap(xs, o)
      [] info.type = "TRAILER" -> repeatHasMatchTrailer(xs, o)
      [] info.type = "SPARSE_OPTIMAL_P" -> repeatHasMatchSparseOptimalP(xs, st, o)

repeatStore(xs, st, o, is_alive) ==
    CASE info.type = "RING" -> repeatStoreRing(xs, st, o, is_alive)
      [] info.type = "FIRST" ->
           [ctrl |-> IF is_alive THEN xs ELSE [offset |-> o], state |-> st]
      [] info.type = "LAST" -> [ctrl |-> [offset |-> o], state |-> st]
      [] info.type = "RANGE" -> repeatStoreRange(xs, st, o, is_alive)
      [] info.type = "BITMAP" -> [ctrl |-> repeatStoreBitmap(xs, o, is_alive), state |-> st]
      [] info.type = "TRAILER" -> [ctrl |-> repeatStoreTrailer(xs, o, is_alive), state |-> st]
      [] info.type = "SPARSE_OPTIMAL_P" -> repeatStoreSparseOptimalP(xs, st, o, is_alive)

\* A distance from the stream offset, capped at the horizon, in its bytes.
storePackedRelative(val, o) ==
    MinOf(o - val, info.horizon) % 2 ^ (8 * calcPackedBytes(info.horizon + 1))

BitmapBase(o) == IF o > info.max THEN o - info.max ELSE 0

\* The bitmap of a BITMAP is moved to the base it will be unpacked at.
repeatPackBitmap(xs, o) ==
    LET moved == IF BitmapBase(o) >= xs.offset
                 THEN ShiftRight(xs.bitmap, BitmapBase(o) - xs.offset)
                 ELSE ShiftLeft(xs.bitmap, xs.offset - BitmapBase(o))
    IN  [bitmap |-> moved \cap (0..(8 * ((info.max + 8) \div 8) - 1))]

\* A TRAILER packs its last top in just the bits the horizon needs, and as
\* many bits of its bitmap as the repeat's minimum.
repeatPackTrailer(xs, o) ==
    LET top == IF xs.offset # 0 THEN xs.offset - info.min ELSE 0
    IN  [delta |-> MinOf(o - top, info.horizon) % 2 ^ calcPackedBits(info.horizon + 1),
         bitmap |-> xs.bitmap \cap (0..(info.min - 1))]

repeatPack(xs, o) ==
    CASE info.type \in {"RING", "SPARSE_OPTIMAL_P"} ->
           [delta |-> storePackedRelative(xs.offset, o),
            first |-> xs.first, last |-> xs.last]
      [] info.type \in {"FIRST", "LAST", "RANGE"} ->
           [delta |-> storePackedRelative(xs.offset, o)]
      [] info.type = "BITMAP" -> repeatPackBitmap(xs, o)
      [] info.type = "TRAILER" -> repeatPackTrailer(xs, o)

repeatUnpack(packed, o) ==
    CASE info.type \in {"RING", "SPARSE_OPTIMAL_P"} ->
           [offset |-> o - packed.delta, first |-> packed.first, last |-> packed.last]
      [] info.type \in {"FIRST", "LAST", "RANGE"} -> [offset |-> o - packed.delta]
      [] info.type = "BITMAP" -> [offset |-> BitmapBase(o), bitmap |-> packed.bitmap]
      [] info.type = "TRAILER" -> [offset |-> o - packed.delta + info.min,
                                   bitmap |-> packed.bitmap]

----------------------------------------------------------------------------
(* The engine: nfa/lbr.c, nfa/lbr_common_impl.h                            *)

repeatIsDead == ctrl.offset = REPEAT_DEAD

clearRepeat == ctrl' = [ctrl EXCEPT !.offset = REPEAT_DEAD]

\* Can the engine produce matches after o?
lbrIsAlive(o) ==
    /\ ~repeatIsDead
    /\ info.max = REPEAT_INF \/ o < repeatLastTop(ctrl, state) + info.max

lbrIsActive(o) ==
    \/ repeatHasMatch(ctrl, state, o) = "MATCH"
    \/ repeatNextMatch(ctrl, state, o) # 0

\* The matches lbrMatchLoop reports after begin and up to end.
RECURSIVE lbrMatchLoop(_, _)
lbrMatchLoop(begin, end) ==
    LET i == repeatNextMatch(ctrl, state, begin)
    IN  IF i = 0 \/ i > end THEN {} ELSE {i} \cup lbrMatchLoop(i, end)

\* A top that was not yet too old at o.
Recent(ts, o) ==
    IF info.max = REPEAT_INF THEN (IF ts = {} THEN {} ELSE {Min(ts)})
    ELSE {t \in ts : o - t <= info.max}

\* Two triggers of a pattern are minPeriod apart, with an escape in between when
\* they can reset the repeat, but several patterns may raise the same top, so
\* tops may be repeated.
Triggered ==
    /\ \A t \in tops : t = offset \/ (offset - t >= info.minPeriod /\ ~info.can_reset)
    /\ tops' = Recent(tops \cup {offset}, offset)

\* A duplicate of the last top is ignored.
lbrTop ==
    LET stored == repeatStore(ctrl, state, offset, ~repeatIsDead)
    IN  IF ~repeatIsDead /\ repeatLastTop(ctrl, state) = offset
        THEN UNCHANGED <<ctrl, state>>
        ELSE ctrl' = stored.ctrl /\ state' = stored.state

\* A top at the current offset, of a repeat that has one already.
Top ==
    /\ ~repeatIsDead
    /\ Triggered
    /\ lbrTop
    /\ UNCHANGED <<info, lastEscape, offset, escapes>>

----------------------------------------------------------------------------
(* A dead repeat looks ahead.  The bytes from a new top to its first match *)
(* (or to the end of the scan) are searched backwards for an escape: with  *)
(* one among them the top cannot match, nor can the tops up to the escape. *)
(* The variable escapes has the escapes found in this way that are still   *)
(* to be read.  That the bytes behind one are accepted is not remembered:  *)
(* the scan may have ended just there.                                     *)

\* Mutant of ScanEnd: the top's whole window is searched.
ScanEndOfWindow(sp) == MinOf(sp + info.max, LastOffset)

\* Where the search for an escape behind a top at sp ends, at the latest.
ScanEnd(sp) == MinOf(sp + info.min, LastOffset)

\* The location of the escape in the buffer is compared with a stream offset.
Skips(sp) == sp < lastEscape

\* lbrRevScan finds the last escape between the top and the end of the scan,
\* which comes no later than the first match of the top and no earlier than
\* that of an earlier scan; or it finds none, and the top is stored.
TopScan ==
    /\ repeatIsDead
    /\ Triggered
    /\ \/ /\ Skips(offset)
          /\ UNCHANGED <<ctrl, state, lastEscape, escapes>>
       \/ /\ ~Skips(offset)
          /\ \E e \in offset..(ScanEnd(offset) - 1) :
                /\ \A earlier \in escapes : earlier <= e
                /\ \E buffer \in 0..offset : lastEscape' = e - buffer
                /\ escapes' = escapes \cup {e}
          /\ UNCHANGED <<ctrl, state>>
       \/ /\ ~Skips(offset)
          /\ escapes = {}
          /\ lbrTop
          /\ UNCHANGED <<lastEscape, escapes>>
    /\ UNCHANGED <<info, offset>>

----------------------------------------------------------------------------

\* The engine reads a byte the repeat accepts.
Advance ==
    /\ offset < LastOffset
    /\ offset \notin escapes
    /\ offset' = offset + 1
    /\ tops' = Recent(tops, offset + 1)
    /\ UNCHANGED <<info, ctrl, state, lastEscape, escapes>>

\* It reads one the repeat does not accept: every top is forgotten.  A dead
\* repeat does not scan.
Escape ==
    /\ offset < LastOffset
    /\ offset' = offset + 1
    /\ escapes' = escapes \ {offset}
    /\ IF repeatIsDead THEN UNCHANGED ctrl ELSE clearRepeat
    /\ tops' = {}
    /\ UNCHANGED <<info, state, lastEscape>>

\* The write ends and another begins: lbrCompressState, lbrExpandState.  A dead
\* repeat has been switched off by then.
StreamBoundary ==
    /\ escapes = {}
    /\ ctrl' = IF repeatIsDead THEN ctrl ELSE repeatUnpack(repeatPack(ctrl, offset), offset)
    /\ lastEscape' = 0
    /\ UNCHANGED <<info, state, offset, escapes, tops>>

\* The queue ran out with no match to come, so the caller switches the engine
\* off; should it be triggered again it starts from queueInitState.
SwitchOff ==
    /\ ~lbrIsAlive(offset)
    /\ clearRepeat
    /\ lastEscape' = 0
    /\ tops' = {}
    /\ UNCHANGED <<info, state, offset, escapes>>

EmptyControl(i) ==
    CASE i.type \in {"RING", "SPARSE_OPTIMAL_P"} ->
           [offset |-> REPEAT_DEAD, first |-> 0, last |-> 0]
      [] i.type \in {"FIRST", "LAST", "RANGE"} -> [offset |-> REPEAT_DEAD]
      [] OTHER -> [offset |-> REPEAT_DEAD, bitmap |-> {}]

\* The stream state is not cleared for the engine: it may hold anything.
StaleStates(i) ==
    CASE i.type = "RING" -> {{}, 0..i.max}
      [] i.type = "SPARSE_OPTIMAL_P" ->
           {[active |-> a, ring |-> [p \in 0..(i.patchCount - 1) |-> 1]] :
                a \in {{}, 0..(i.patchCount - 1)}}
      [] OTHER -> {<<>>}

queueInitState ==
    /\ info \in Infos
    /\ ctrl = EmptyControl(info)
    /\ state \in StaleStates(info)
    /\ lastEscape = 0 /\ offset = 0
    /\ escapes = {}
    /\ tops = {}

Init == queueInitState

Next == Top \/ TopScan \/ Advance \/ Escape \/ StreamBoundary \/ SwitchOff

Spec == Init /\ [][Next]_vars

----------------------------------------------------------------------------
(* Properties                                                              *)

\* A top matches at o, with no escape in between that was found ahead.
Matches(o) ==
    \E t \in tops : /\ o - t >= info.min /\ (info.max = REPEAT_INF \/ o - t <= info.max)
                    /\ escapes \cap (t..(o - 1)) = {}

\* As far ahead as a match of the present tops can be, or its pattern repeat.
Ahead == (offset + 1)..(offset + (IF info.max = REPEAT_INF THEN info.min + 1 ELSE info.max))

\* The store stays within the memory the compiler gave it: the ring's indices
\* are below its capacity (the asserts closing repeatStoreRing), the list of a
\* RANGE has no more entries than slots and is ordered (rangeListCapacity,
\* rangeListIsOrdered), a patch's sum is below the number of codes of a patch,
\* and a bitmap fits its word.
StoreInBounds ==
    /\ info \in Infos /\ offset \in 0..LastOffset /\ tops \subseteq 0..offset
    /\ ctrl.offset \in Nat \cup {REPEAT_DEAD}
    /\ CASE info.type = "RING" ->
              /\ ctrl.first \in 0..info.max /\ ctrl.last \in 0..info.max
              /\ state \subseteq 0..info.max
         [] info.type = "RANGE" ->
              /\ Len(state) <= rangeListCapacity
              /\ \A i \in 2..Len(state) : state[i - 1] < state[i]
         [] info.type = "SPARSE_OPTIMAL_P" ->
              /\ ctrl.first \in 0..(info.patchCount - 1)
              /\ ctrl.last \in 0..info.patchCount
              /\ state.active \subseteq 0..(info.patchCount - 1)
              /\ \A p \in DOMAIN state.ring :
                    state.ring[p] \in 0..(info.table[info.patchSize] - 1)
         [] info.type \in {"BITMAP", "TRAILER"} -> ctrl.bitmap \subseteq 0..(Word - 1)
         [] OTHER -> state = <<>>

\* Whichever store the repeat was given, and however often it was packed and
\* unpacked on the way, repeatHasMatch says MATCH at the current offset exactly
\* when one of the tops it was told of is min to max bytes back, says STALE only
\* when no later offset can match, and lbrIsAlive (which lets the caller switch
\* the engine off) and lbrIsActive tell whether a match is still to come.
AnswersAreExact ==
    ~repeatIsDead =>
        LET answer == repeatHasMatch(ctrl, state, offset)
            later  == \E o \in Ahead : Matches(o)
        IN  /\ (answer = "MATCH") = Matches(offset)
            /\ answer = "STALE" => ~later
            /\ lbrIsAlive(offset) = later
            /\ lbrIsActive(offset) = (later \/ Matches(offset))

\* The loop that reports matches walks repeatNextMatch from one answer to the
\* next.  From the current offset it reports every match of the tops stored so
\* far, each once, and nothing else, wherever the scan is told to stop; a dead
\* repeat has none to report.
ReportsEveryMatch ==
    \A end \in {offset} \cup Ahead :
        (IF repeatIsDead THEN {} ELSE lbrMatchLoop(offset, end))
            = {o \in Ahead : o <= end /\ Matches(o)}
=============================================================================
