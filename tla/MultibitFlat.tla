---------------------------- MODULE MultibitFlat ----------------------------
(***************************************************************************)
(* The flat multibit of util/multibit.h: the bit vector that stands for up *)
(* to MMB_FLAT_MAX_BITS keys.  F is the set of bits on in the vector, and  *)
(* total_bits their number, as in the code: one block or less takes a      *)
(* shortcut of its own, and otherwise the last block may be a runt, read a *)
(* byte at a time.  The layout of sparse iterators, which is the same for  *)
(* the flat and the multi-level form, is here too.                         *)
(***************************************************************************)
EXTENDS Integers, Sequences, FiniteSets, FiniteSetsExt

CONSTANTS MMB_KEY_BITS,  \* bits in a block
          ByteBits       \* bits in a byte, of which a block has several

MMB_INVALID == -1

\* The lowest of a set of keys, if there is one.
Lowest(S) == IF S = {} THEN MMB_INVALID ELSE Min(S)

-----------------------------------------------------------------------------
(* Iterators.                                                              *)

FlatBlock(F, i) == {n \in F : n \div MMB_KEY_BITS = i}

mmbit_iterate_flat(F, total_bits, it_in) ==
    LET last_block == total_bits \div MMB_KEY_BITS
        rounded    == (it_in + 1 + MMB_KEY_BITS - 1) \div MMB_KEY_BITS
        here       == {n \in FlatBlock(F, rounded - 1) : n >= it_in + 1}
        start      == IF it_in = MMB_INVALID THEN 0 ELSE rounded
        full       == {i \in start..(last_block - 1) : FlatBlock(F, i) # {}}
    IN  IF total_bits <= MMB_KEY_BITS
        THEN Lowest({n \in FlatBlock(F, 0) : it_in # MMB_INVALID => n >= it_in + 1})
        ELSE IF it_in # MMB_INVALID /\ here # {} THEN Min(here)
        ELSE IF it_in # MMB_INVALID /\ rounded * MMB_KEY_BITS >= total_bits
        THEN MMB_INVALID
        ELSE IF full # {} THEN Min(FlatBlock(F, Min(full)))
        ELSE IF total_bits % MMB_KEY_BITS # 0
        THEN Lowest(FlatBlock(F, Max({start, last_block})))
        ELSE MMB_INVALID

\* The blocks are looked at one after the other; the last load is of a whole
\* block too, ends with the last byte, and overlaps the one before.
mmbit_any_flat(F, total_bits) ==
    LET end == ((total_bits + ByteBits - 1) \div ByteBits) * ByteBits
        last == end - MMB_KEY_BITS
    IN  IF total_bits <= MMB_KEY_BITS THEN FlatBlock(F, 0) # {}
        ELSE \/ \E i \in 0..((last - 1) \div MMB_KEY_BITS) : FlatBlock(F, i) # {}
             \/ F \cap (last..(end - 1)) # {}

\* Whole blocks while more than a block is left, then whole bytes while more
\* than a byte is, then the bits of the last byte.
mmbit_all_flat(F, total_bits) ==
    LET blocks == ((total_bits - 1) \div MMB_KEY_BITS) * MMB_KEY_BITS
        bytes  == blocks + ((total_bits - blocks - 1) \div ByteBits) * ByteBits
        mask   == 0..(total_bits - bytes - 1)
    IN  /\ 0..(blocks - 1) \subseteq F
        /\ blocks..(bytes - 1) \subseteq F
        /\ {bytes + d : d \in mask} \subseteq F

\* Mutant of get_flat_masks: the mask of a block that the range begins in keeps one bit less.
get_flat_masks_short(base, it_start, it_end) ==
    {d \in 0..(MMB_KEY_BITS - 1) :
        base + d < it_end /\ (it_start >= base => base + d > it_start)}

get_flat_masks(base, it_start, it_end) ==
    {d \in 0..(MMB_KEY_BITS - 1) :
        base + d < it_end /\ (it_start >= base => base + d >= it_start)}

\* The bits of [begin, end) that the masks pick, block by block from the one
\* begin is in: the full blocks, then the runt.
FlatMasked(total_bits, begin, end) ==
    LET last_block == total_bits - (total_bits % MMB_KEY_BITS)
        Blks == {i * MMB_KEY_BITS :
                    i \in (begin \div MMB_KEY_BITS)..(total_bits \div MMB_KEY_BITS)}
        Seen == {i \in Blks : i < Min({end, last_block})}
                   \cup (IF end > last_block THEN {last_block} ELSE {})
    IN  UNION {{i + d : d \in get_flat_masks(i, begin, end)} : i \in Seen}

mmbit_iterate_bounded_flat(F, total_bits, begin, end) ==
    IF total_bits <= MMB_KEY_BITS
    THEN Lowest(FlatBlock(F, 0) \cap get_flat_masks(0, begin, end))
    ELSE Lowest(F \cap FlatMasked(total_bits, begin, end))

mmbit_unset_range_flat(F, total_bits, begin, end) == F \ FlatMasked(total_bits, begin, end)

mmbit_init_range_flat(total_bits, begin, end) ==
    LET last_block == total_bits - (total_bits % MMB_KEY_BITS)
        Blks == {i \in 0..last_block :
                    i % MMB_KEY_BITS = 0 /\ (i = last_block => last_block # total_bits)}
    IN  UNION {{i + d : d \in get_flat_masks(i, begin, end)} : i \in Blks}

-----------------------------------------------------------------------------
(* Sparse iterators.                                                       *)

mmbit_mask_index(bit, mask) == Cardinality({b \in mask : b < bit})

\* The records of an iterator over the keys I of a multibit of the given
\* depth, breadth first: the bits that lead to its keys and, in "val", where
\* the records of the children start, or at the bottom the keys before it.
mmbBuildSparseIterator(I, depth) ==
    LET Up(n, d)    == n \div MMB_KEY_BITS^d
        Nodes       == UNION {{<<d, Up(n, depth + 1 - d)>> : n \in I} : d \in 0..depth}
        Mask(t)     == {Up(n, depth - t[1]) % MMB_KEY_BITS :
                           n \in {n \in I : Up(n, depth + 1 - t[1]) = t[2]}}
        Earlier(t)  == {u \in Nodes : u[1] = t[1] /\ u[2] < t[2]}
        Start(d)    == Cardinality({u \in Nodes : u[1] < d})
        Index(t)    == Start(t[1]) + Cardinality(Earlier(t))
        Population(t) == LET Pop(u) == Cardinality(Mask(u))
                         IN  MapThenSumSet(Pop, Earlier(t))
        Record(t)   == [mask |-> Mask(t),
                        val  |-> IF t[1] = depth THEN Population(t)
                                 ELSE Start(t[1] + 1) + Population(t)]
    IN  [i \in 0..(Cardinality(Nodes) - 1) |->
            Record(CHOOSE t \in Nodes : Index(t) = i)]

Done == [key |-> MMB_INVALID]

\* With one block everything is in the root's mask.
SingleSparse(block, it_root) ==
    IF block = {} THEN Done
    ELSE [key |-> Min(block), idx |-> mmbit_mask_index(Min(block), it_root[0].mask),
          s |-> <<block>>]

\* With more there are two iterator levels: the root says which blocks may
\* hold keys, and a block is loaded when the walk gets to it.
RECURSIVE FlatSparseFrom(_, _, _)
FlatSparseFrom(F, it_root, root) ==
    IF root = {} THEN Done
    ELSE LET bit   == Min(root)
             i     == it_root[0].val + mmbit_mask_index(bit, it_root[0].mask)
             block == {d \in it_root[i].mask : bit * MMB_KEY_BITS + d \in F}
         IN  IF block = {} THEN FlatSparseFrom(F, it_root, root \ {bit})
             ELSE [key |-> bit * MMB_KEY_BITS + Min(block),
                   idx |-> it_root[i].val + mmbit_mask_index(Min(block), it_root[i].mask),
                   s   |-> <<root, block, i>>]

mmbit_sparse_iter_begin_flat(F, total_bits, it_root) ==
    IF total_bits <= MMB_KEY_BITS
    THEN SingleSparse(FlatBlock(F, 0) \cap it_root[0].mask, it_root)
    ELSE FlatSparseFrom(F, it_root, it_root[0].mask)

mmbit_sparse_iter_next_flat(F, total_bits, it_root, s) ==
    LET block == s[2] \ {Min(s[2])}
        bit   == Min(s[1])
    IN  IF total_bits <= MMB_KEY_BITS THEN SingleSparse(s[1] \ {Min(s[1])}, it_root)
        ELSE IF block # {}
        THEN [key |-> bit * MMB_KEY_BITS + Min(block),
              idx |-> it_root[s[3]].val + mmbit_mask_index(Min(block), it_root[s[3]].mask),
              s   |-> <<s[1], block, s[3]>>]
        ELSE FlatSparseFrom(F, it_root, s[1] \ {bit})

RECURSIVE FlatSparseWalk(_, _, _, _)
FlatSparseWalk(F, total_bits, it_root, found) ==
    IF found = Done THEN <<>>
    ELSE <<[key |-> found.key, idx |-> found.idx]>>
            \o FlatSparseWalk(F, total_bits, it_root,
                  mmbit_sparse_iter_next_flat(F, total_bits, it_root, found.s))

mmbit_sparse_iter_unset_flat(F, total_bits, it_root) ==
    IF total_bits <= MMB_KEY_BITS THEN FlatBlock(F, 0) \ it_root[0].mask
    ELSE F \ UNION {LET i == it_root[0].val + mmbit_mask_index(bit, it_root[0].mask)
                    IN  {bit * MMB_KEY_BITS + d : d \in it_root[i].mask} :
                      bit \in it_root[0].mask}

-----------------------------------------------------------------------------

\* The keys of S with their ranks in I, in order: what a walk should visit.
InOrder(S, I) ==
    LET Rank(n) == Cardinality({m \in I : m < n})
    IN  [i \in 1..Cardinality(S) |->
            LET n == CHOOSE n \in S : Cardinality({m \in S : m < n}) = i - 1
            IN  [key |-> n, idx |-> Rank(n)]]

\* A flat multibit of total_bits keys, those in F on, answers as the set F.
FlatReadsExact(F, total_bits) ==
    /\ \A n \in (F \cup {MMB_INVALID}) \ {total_bits - 1} :
           mmbit_iterate_flat(F, total_bits, n) = Lowest({m \in F : m > n})
    /\ mmbit_any_flat(F, total_bits) <=> F # {}
    /\ mmbit_all_flat(F, total_bits) <=> F = 0..(total_bits - 1)
    /\ \A begin \in 0..(total_bits - 1) : \A end \in begin..total_bits :
           /\ mmbit_iterate_bounded_flat(F, total_bits, begin, end)
                 = Lowest({m \in F : begin =< m /\ m < end})
           /\ mmbit_unset_range_flat(F, total_bits, begin, end) = F \ (begin..(end - 1))
           /\ mmbit_init_range_flat(total_bits, begin, end) = begin..(end - 1)

\* A sparse iterator over the keys I visits those of F, in order, each with
\* its place in I, and unsets just these.  Sparse iterators of a flat multibit
\* have one level for one block and two for more.
FlatSparseExact(F, total_bits, I) ==
    LET it == mmbBuildSparseIterator(I, IF total_bits <= MMB_KEY_BITS THEN 0 ELSE 1)
    IN  /\ FlatSparseWalk(F, total_bits, it, mmbit_sparse_iter_begin_flat(F, total_bits, it))
              = InOrder(F \cap I, I)
        /\ mmbit_sparse_iter_unset_flat(F, total_bits, it) = F \ I

FlatIsExact(F, total_bits, IterSets) ==
    /\ FlatReadsExact(F, total_bits)
    /\ total_bits <= MMB_KEY_BITS^2 =>
           \A I \in {I \in IterSets : I \subseteq 0..(total_bits - 1)} :
               FlatSparseExact(F, total_bits, I)
=============================================================================
