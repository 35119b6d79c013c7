---------------------------- MODULE MultibitScan ----------------------------
(***************************************************************************)
(* How a multibit is read: the iterators of util/multibit.h over a tree    *)
(* whose summary bits may lead to empty blocks; the sparse iterators that  *)
(* util/multibit_build.cpp lays out, read and unset; and the blocks that   *)
(* util/multibit_compress.h writes into a compressed stream and restores   *)
(* over whatever the memory holds.  Keys are numbers here, as in the code. *)
(* This is the multi-level (_big) form of each operation; MultibitFlat has *)
(* the flat form, which mmbit_is_flat_model chooses for few keys.          *)
(***************************************************************************)
EXTENDS Multibit, MultibitFlat

CONSTANTS total_bits,    \* number of keys
          WideKeyBits,   \* flat multibits are checked with blocks of this width
          WideByteBits   \* and bytes of this one, besides the widths above

Wide == INSTANCE MultibitFlat WITH MMB_KEY_BITS <- WideKeyBits, ByteBits <- WideByteBits

Numbers == 0..(total_bits - 1)

\* The key of a number, and the block a level's key leads to.
KeyOf(n) == [l \in Levels |-> (n \div MMB_KEY_BITS^(max_level - l)) % MMB_KEY_BITS]

BlockAt(level, key) ==
    <<level, [i \in 0..(level - 1) |->
                 (key \div MMB_KEY_BITS^(level - 1 - i)) % MMB_KEY_BITS]>>

ASSUME ScanAssumption ==
    /\ Digit = 0..(MMB_KEY_BITS - 1)
    /\ Keys = {KeyOf(n) : n \in Numbers}
    /\ {} \notin Iters

NumbersOf(S) == {n \in Numbers : KeyOf(n) \in S}

OnNumbers == NumbersOf(On)

-----------------------------------------------------------------------------
(* Iterating over the tree.                                                *)

\* One turn of the loop: go down at the first bit from key_rem on, or up.
RECURSIVE IterateFrom(_, _, _)
IterateFrom(level, key, key_rem) ==
    LET block == {d \in bits[BlockAt(level, key)] : d >= key_rem}
        down  == key * MMB_KEY_BITS + Min(block)
    IN  IF block # {}
        THEN IF level = max_level THEN down ELSE IterateFrom(level + 1, down, 0)
        ELSE IF level = 0 THEN MMB_INVALID
        ELSE IterateFrom(level - 1, key \div MMB_KEY_BITS, (key % MMB_KEY_BITS) + 1)

mmbit_iterate(it_in) ==
    IF it_in = MMB_INVALID THEN IterateFrom(0, 0, 0)
    ELSE IF it_in = total_bits - 1 THEN MMB_INVALID
    ELSE IterateFrom(max_level, it_in \div MMB_KEY_BITS, (it_in % MMB_KEY_BITS) + 1)

mmbit_any == bits[BlockAt(0, 0)] # {}

mmbit_any_precise == mmbit_iterate(MMB_INVALID) # MMB_INVALID

\* Mutant of mmbit_all: the last block of each level is not looked at.
mmbit_all_full_blocks ==
    \A level \in Levels :
        LET width == MMB_KEY_BITS^(max_level - level)
            level_bits == (total_bits + width - 1) \div width
        IN  \A n \in 0..(level_bits - (level_bits % MMB_KEY_BITS) - 1) :
                n % MMB_KEY_BITS \in bits[BlockAt(level, n \div MMB_KEY_BITS)]

\* Every bit expected at every level is on.
mmbit_all ==
    \A level \in Levels :
        LET width == MMB_KEY_BITS^(max_level - level)
            level_bits == (total_bits + width - 1) \div width
        IN  \A n \in 0..(level_bits - 1) :
                n % MMB_KEY_BITS \in bits[BlockAt(level, n \div MMB_KEY_BITS)]

\* The bits of a block for keys from block_min to block_max, given relative
\* to the block's first key; each bit stands for width keys.
get_lowhi_masks(width, block_min, block_max) ==
    (block_min \div width)..(block_max \div width)

RECURSIVE BoundedFrom(_, _, _, _)
BoundedFrom(level, key, it_start, it_end) ==
    LET width       == MMB_KEY_BITS^(max_level - level)
        block_base  == key * width * MMB_KEY_BITS
        block_width == width * MMB_KEY_BITS
        block_min   == Max({it_start, block_base})
        block_max   == Min({it_end, block_base + block_width - 1})
        block       == bits[BlockAt(level, key)]
                          \cap get_lowhi_masks(width, block_min - block_base,
                                               block_max - block_base)
        down        == key * MMB_KEY_BITS + Min(block)
        next_start  == block_base + block_width
    IN  IF block # {}
        THEN IF level = max_level THEN down
             ELSE BoundedFrom(level + 1, down, it_start, it_end)
        ELSE IF level = 0 \/ next_start > it_end THEN MMB_INVALID
        ELSE BoundedFrom(level - 1, key \div MMB_KEY_BITS, next_start, it_end)

mmbit_iterate_bounded(begin, end) ==
    IF begin = end THEN MMB_INVALID ELSE BoundedFrom(0, 0, begin, end - 1)

\* The blocks mmbit_init_range_big stores at a level, by number, each with
\* the bits stored: a first one from the middle, full ones, a last one.
InitRangeStores(level, begin, end) ==
    LET width == MMB_KEY_BITS^(max_level - level)
        k1    == begin \div width
        k2    == (end + width - 1) \div width
        block_end == (k1 \div MMB_KEY_BITS + 1) * MMB_KEY_BITS
        partial   == k1 % MMB_KEY_BITS # 0
        from      == IF partial THEN block_end ELSE k1
        to        == k2 - (k2 % MMB_KEY_BITS)
    IN  (IF partial
         THEN {<<k1 \div MMB_KEY_BITS,
                 {d \in Digit : d >= k1 % MMB_KEY_BITS
                                /\ (k2 < block_end => d < k2 % MMB_KEY_BITS)}>>}
         ELSE {})
        \cup {<<n, Digit>> : n \in (from \div MMB_KEY_BITS)..(to \div MMB_KEY_BITS - 1)}
        \cup (IF k2 >= from /\ k2 > to
              THEN {<<to \div MMB_KEY_BITS, {d \in Digit : d < k2 % MMB_KEY_BITS}>>}
              ELSE {})

-----------------------------------------------------------------------------
(* Sparse iterators.                                                       *)

IterNumbers == {NumbersOf(S) : S \in Iters}

SparseIters == [I \in IterNumbers |-> mmbBuildSparseIterator(I, max_level)]

\* s[l] holds what is left of the block being visited at level l.
RECURSIVE mmbit_sparse_iter_exec(_, _, _, _, _)
mmbit_sparse_iter_exec(it_root, itkey, key, level, s) ==
    LET it  == it_root[itkey]
        bit == Min(s[level].mask)
        k   == key * MMB_KEY_BITS + bit
        i   == it.val + mmbit_mask_index(bit, it.mask)
    IN  IF s[level].mask # {}
        THEN IF level = max_level THEN [key |-> k, idx |-> i, s |-> s]
             ELSE mmbit_sparse_iter_exec(it_root, i, k, level + 1,
                    [s EXCEPT ![level + 1] =
                        [mask |-> bits[BlockAt(level + 1, k)] \cap it_root[i].mask,
                         itkey |-> i]])
        ELSE IF level = 0 THEN Done
        ELSE mmbit_sparse_iter_exec(it_root, s[level - 1].itkey,
                    key \div MMB_KEY_BITS, level - 1,
                    [s EXCEPT ![level - 1].mask = @ \ {Min(@)}])

mmbit_sparse_iter_begin(it_root) ==
    LET block == bits[BlockAt(0, 0)] \cap it_root[0].mask
    IN  IF block = {} THEN Done
        ELSE mmbit_sparse_iter_exec(it_root, 0, 0, 0,
                    [l \in Levels |-> [mask |-> IF l = 0 THEN block ELSE {}, itkey |-> 0]])

mmbit_sparse_iter_next(it_root, last_key, s) ==
    mmbit_sparse_iter_exec(it_root, s[max_level].itkey, last_key \div MMB_KEY_BITS,
                           max_level, [s EXCEPT ![max_level].mask = @ \ {Min(@)}])

\* The keys, with their indices, that a walk to the end visits.
RECURSIVE SparseWalk(_, _)
SparseWalk(it_root, found) ==
    IF found = Done THEN <<>>
    ELSE <<[key |-> found.key, idx |-> found.idx]>>
            \o SparseWalk(it_root, mmbit_sparse_iter_next(it_root, found.key, found.s))

\* What the blocks that lead to keys of I become: at the bottom the keys go,
\* and above, the bit of a block that was visited and is left empty.
Reached(b, S) == \E k \in S : Block(b[1], k) = b /\ \A l \in 0..(b[1] - 1) : isset_at(l, k)

UnsetBlocks(S) ==
    LET Child(b, d) == <<b[1] + 1, [i \in 0..b[1] |-> IF i = b[1] THEN d ELSE b[2][i]]>>
        after[b \in Blocks] ==
            IF ~Reached(b, S) THEN bits[b]
            ELSE IF b[1] = max_level THEN bits[b] \ Leading(b, S)
            ELSE bits[b] \ {d \in Leading(b, S) \cap bits[b] : after[Child(b, d)] = {}}
    IN  after

mmbit_sparse_iter_unset(S) ==
    /\ bits' = UnsetBlocks(S)
    /\ Calls("unset", S, 0)

-----------------------------------------------------------------------------
(* Compressed streams.                                                     *)

\* The valid blocks of memory, depth first.
RECURSIVE Pack(_, _, _)
Pack(level, key, key_rem) ==
    LET block   == bits[BlockAt(level, key)]
        block_1 == {d \in block : d >= key_rem}
        packed  == IF key_rem < MMB_KEY_BITS /\ block_1 = block THEN <<block>> ELSE <<>>
    IN  packed \o
        IF level < max_level /\ block_1 # {}
        THEN Pack(level + 1, key * MMB_KEY_BITS + Min(block_1), 0)
        ELSE IF level = 0 THEN <<>>
        ELSE Pack(level - 1, key \div MMB_KEY_BITS, (key % MMB_KEY_BITS) + 1)

mmbit_compress == IF bits[BlockAt(0, 0)] = {} THEN <<{}>> ELSE Pack(0, 0, 0)

RECURSIVE Unpack(_, _, _, _, _)
Unpack(memory, comp, level, key, key_rem) ==
    LET block_1 == {d \in memory[BlockAt(level, key)] : d >= key_rem}
        down    == key * MMB_KEY_BITS + Min(block_1)
    IN  IF level < max_level /\ block_1 # {}
        THEN Unpack([memory EXCEPT ![BlockAt(level + 1, down)] = Head(comp)],
                    Tail(comp), level + 1, down, 0)
        ELSE IF level = 0 THEN memory
        ELSE Unpack(memory, comp, level - 1, key \div MMB_KEY_BITS,
                    (key % MMB_KEY_BITS) + 1)

mmbit_decompress(memory, comp) ==
    Unpack([memory EXCEPT ![BlockAt(0, 0)] = Head(comp)], Tail(comp), 0, 0, 0)

\* A stream is compressed and expanded into other memory.
CompressAndExpand(memory) ==
    /\ bits' = mmbit_decompress(memory, mmbit_compress)
    /\ UNCHANGED call

-----------------------------------------------------------------------------

ScanNext ==
    \/ Next
    \/ \E S \in Iters : mmbit_sparse_iter_unset(S)
    \/ \E memory \in Memories : CompressAndExpand(memory)

ScanSpec == Init /\ [][ScanNext]_vars

-----------------------------------------------------------------------------

\* Every way of reading a multibit tells the truth about the keys that are on,
\* whatever empty blocks its summary bits still lead to.  Iterating from a key
\* (even one switched off since it was found) gives the next key that is on;
\* within bounds, the first of them; the precise "any" and "all" are precise,
\* and the sloppy "any" never misses a key; a sparse iterator visits the keys
\* it was built for that are on, in order, each with its place among them.
ScansAreExact ==
    LET on == OnNumbers
    IN  /\ \A n \in on \cup {MMB_INVALID} \cup
               {n \in Numbers : \A l \in 0..(max_level - 1) : isset_at(l, KeyOf(n))} :
               mmbit_iterate(n) = Lowest({m \in on : m > n})
        /\ \A begin \in Numbers : \A end \in begin..total_bits :
               mmbit_iterate_bounded(begin, end)
                  = Lowest({m \in on : begin =< m /\ m < end})
        /\ mmbit_any_precise <=> on # {}
        /\ on # {} => mmbit_any
        /\ mmbit_all <=> on = Numbers
        /\ \A I \in IterNumbers :
               SparseWalk(SparseIters[I], mmbit_sparse_iter_begin(SparseIters[I]))
                  = InOrder(on \cap I, I)

\* What mmbit_init_range_big stores, for every range and level.
InitRangeIsExact ==
    \A begin \in Numbers : \A end \in (begin + 1)..total_bits : \A l \in Levels :
        LET S == {KeyOf(n) : n \in begin..(end - 1)}
        IN  {<<BlockAt(l, w[1]), w[2]>> : w \in InitRangeStores(l, begin, end)}
              = {<<b, Leading(b, S)>> :
                    b \in {b \in Blocks : b[1] = l /\ Leading(b, S) # {}}}

\* The flat form of every operation, for every number of keys up to total_bits
\* (one block or less, several, with a runt or without) and both widths.
FlatAnswers ==
    [F \in SUBSET Numbers |->
        \A n \in {n \in 1..total_bits : F \subseteq 0..(n - 1)} :
            FlatIsExact(F, n, IterNumbers) /\ Wide!FlatIsExact(F, n, IterNumbers)]

\* The block arithmetic agrees with the set it stands for: what
\* mmbit_init_range_big stores is what leads to the keys of the range, and the
\* same questions asked of a bit vector (the next key, the next within bounds,
\* any, all, a walk with a sparse iterator) and the same changes made to it
\* have the answers and effects they have for a set, in the single-block
\* shortcuts and with a runt block as well as with full ones.
ArithmeticIsExact == InitRangeIsExact /\ FlatAnswers[OnNumbers]
=============================================================================
