------------------------------ MODULE Multibit ------------------------------
(***************************************************************************)
(* The multibit (util/multibit.h): the sparse set of keys in which the     *)
(* runtime keeps the engines, roles, delayed literals and logical keys     *)
(* that are switched on.  A big one is a tree of blocks.  A bit of a block *)
(* above the bottom says that the block below it is VALID, not that it has *)
(* a key on: clearing a multibit only zeroes the root, switching a key off *)
(* leaves the summary bits above it alone, and switching a key on first    *)
(* wipes the blocks it is the first to reach.                              *)
(*                                                                         *)
(* A key is written by its digits, one per level from the root             *)
(* (mmbit_get_key_val); a block by its level and the digits above it       *)
(* (mmbit_get_block_ptr); the content of a block by the set of its bits.   *)
(***************************************************************************)
EXTENDS Integers

CONSTANTS max_level,  \* the level of the bottom blocks
          Digit,      \* bit positions in a block: 0 .. MMB_KEY_BITS - 1
          Keys,       \* the keys below total_bits, as digits
          Ranges,     \* sets of consecutive keys, as begin and end give them
          Iters,      \* sets of keys a sparse iterator is built for
          Memories    \* what the memory may hold before it is used

Levels == 0..max_level

ASSUME MultibitAssumption ==
    /\ max_level \in Nat
    /\ Digit # {} /\ Digit \subseteq Nat
    /\ Keys \subseteq [Levels -> Digit]
    /\ Ranges \cup Iters \subseteq SUBSET Keys

VARIABLES bits,  \* the memory: what is in each block
          call   \* the last call, and what it returned (a record of the model)

vars == <<bits, call>>

Blocks == UNION {{l} \X [0..(l - 1) -> Digit] : l \in Levels}

ASSUME MemoryAssumption == Memories \subseteq [Blocks -> SUBSET Digit]

\* The block that holds the bit of key k at level l.
Block(l, k) == <<l, [i \in 0..(l - 1) |-> k[i]]>>

isset_at(l, k) == k[l] \in bits[Block(l, k)]

mmbit_isset(k) == \A l \in Levels : isset_at(l, k)

\* The keys that are on: those whose bit is set at every level.
On == {k \in Keys : mmbit_isset(k)}

KS == INSTANCE KeySet WITH on <- On, KeySets <- Ranges \cup Iters

Calls(op, keys, ret) == call' = KS!Called(op, keys, ret)

----------------------------------------------------------------------------

Cleared(memory) == [b \in Blocks |-> IF b[1] = 0 THEN {} ELSE memory[b]]

mmbit_clear ==
    /\ bits' = Cleared(bits)
    /\ Calls("clear", {}, 0)

\* Mutant of mmbit_set: the blocks below are taken as they are found.
mmbit_set_keeping(k) ==
    /\ bits' = [b \in Blocks |-> IF \E l \in Levels : b = Block(l, k)
                                 THEN bits[b] \cup {k[b[1]]} ELSE bits[b]]
    /\ Calls("set", {k}, IF mmbit_isset(k) THEN 1 ELSE 0)

\* From the first level at which the key is off, the block there gains its
\* bit and every block below is stored afresh with that key's bit alone.
StoredFrom(level, k) ==
    [b \in Blocks |->
        IF b = Block(level, k) THEN bits[b] \cup {k[level]}
        ELSE IF \E l \in (level + 1)..max_level : b = Block(l, k) THEN {k[b[1]]}
        ELSE bits[b]]

mmbit_set(k) ==
    \/ /\ mmbit_isset(k)
       /\ Calls("set", {k}, 1)
       /\ UNCHANGED bits
    \/ \E level \in Levels :
          /\ ~isset_at(level, k)
          /\ \A l \in 0..(level - 1) : isset_at(l, k)
          /\ bits' = StoredFrom(level, k)
          /\ Calls("set", {k}, 0)

\* Only the bottom bit goes; a key that is off at some level is left alone.
mmbit_unset(k) ==
    /\ bits' = IF mmbit_isset(k)
               THEN [bits EXCEPT ![Block(max_level, k)] = @ \ {k[max_level]}]
               ELSE bits
    /\ Calls("unset", {k}, 0)

\* mmbit_iterate_bounded finds the keys of the range that are on, one by one,
\* and mmbit_unset_big switches each off.
mmbit_unset_range(S) ==
    /\ bits' = [b \in Blocks |->
                  IF b[1] = max_level
                  THEN bits[b] \ {k[max_level] :
                          k \in {k \in S : mmbit_isset(k) /\ Block(max_level, k) = b}}
                  ELSE bits[b]]
    /\ Calls("unset", S, 0)

\* The bits of a block that lie on the way to a key of S.
Leading(b, S) == {k[b[1]] : k \in {k \in S : Block(b[1], k) = b}}

\* At every level the blocks that lead to a key of the range are stored with
\* just the bits that do; the others are not written.  An empty range clears.
mmbit_init_range(S) ==
    /\ bits' = IF S = {} THEN Cleared(bits)
               ELSE [b \in Blocks |->
                       IF Leading(b, S) # {} THEN Leading(b, S) ELSE bits[b]]
    /\ Calls("init_range", S, 0)

----------------------------------------------------------------------------

\* A multibit is cleared before it is used; the blocks below the root hold
\* whatever the memory held.
Init ==
    /\ \E memory \in Memories : bits = Cleared(memory)
    /\ call = KS!Called("clear", {}, 0)

Next ==
    \/ mmbit_clear
    \/ \E k \in Keys : mmbit_set(k) \/ mmbit_unset(k)
    \/ \E S \in Ranges : mmbit_unset_range(S) \/ mmbit_init_range(S)

Spec == Init /\ [][Next]_vars

----------------------------------------------------------------------------

TypeOK == bits \in [Blocks -> SUBSET Digit]

\* A multibit behaves as a set of keys: each operation switches on or off
\* exactly the keys it names, whatever stale bits earlier operations (or the
\* memory before the first clear) left in the blocks below, and mmbit_set
\* returns whether its key was on before.
ImplementsKeySet == KS!Spec
=============================================================================
