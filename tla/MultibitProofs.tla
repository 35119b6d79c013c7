--------------------------- MODULE MultibitProofs ---------------------------
(***************************************************************************)
(* Proof that a multibit of any depth, block width and set of keys behaves *)
(* as a set of keys.  No state invariant is needed beyond the types: any   *)
(* content of the memory stands for some set of keys.  What carries the    *)
(* proof is the first level at which two keys part, or a block is not yet  *)
(* valid, and that such a level exists.                                    *)
(***************************************************************************)
EXTENDS Multibit, WellFoundedInduction, TLAPS

\* A set of levels that is not empty has a first one.
LEMMA FirstLevel ==
    ASSUME NEW T \in SUBSET Levels, T # {}
    PROVE  \E m \in T : \A l \in T : m =< l
<1>1. T \subseteq Nat
  BY MultibitAssumption DEF Levels
<1>2. PICK m \in T : \A l \in T : ~(<<l, m>> \in OpToRel(<, Nat))
  BY <1>1, WFMin, NatLessThanWellFounded
<1>3. ASSUME NEW l \in T
      PROVE  m =< l
  <2>1. l \in Nat /\ m \in Nat
    BY <1>1
  <2>2. l < m => <<l, m>> \in OpToRel(<, Nat)
    BY <2>1 DEF OpToRel
  <2>3. ~(<<l, m>> \in OpToRel(<, Nat))
    BY <1>2
  <2>4. ~(l < m)
    BY <2>2, <2>3, Zenon
  <2> QED BY <2>1, <2>4
<1> QED BY <1>3

\* A key's digits are digits, and its blocks are blocks.
LEMMA BlockType ==
    ASSUME NEW k \in Keys, NEW l \in Levels
    PROVE  /\ Block(l, k) \in Blocks
           /\ Block(l, k)[1] = l
           /\ k[l] \in Digit
<1>1. k \in [Levels -> Digit]
  BY MultibitAssumption
<1>2. l \in 0..max_level /\ max_level \in Nat
  BY MultibitAssumption DEF Levels
<1>3. [i \in 0..(l - 1) |-> k[i]] \in [0..(l - 1) -> Digit]
  BY <1>1, <1>2 DEF Levels
<1>4. Block(l, k) \in {l} \X [0..(l - 1) -> Digit]
  BY <1>3 DEF Block
<1>5. Block(l, k) \in Blocks
  BY <1>4 DEF Blocks
<1> QED BY <1>1, <1>5 DEF Block

\* Two keys share a block of a level exactly if they agree above it.
LEMMA SameBlock ==
    ASSUME NEW j \in Keys, NEW k \in Keys, NEW l \in Levels, NEW m \in Levels
    PROVE  Block(l, j) = Block(m, k)
             <=> l = m /\ \A i \in 0..(l - 1) : j[i] = k[i]
<1>1. ASSUME Block(l, j) = Block(m, k)
      PROVE  l = m /\ \A i \in 0..(l - 1) : j[i] = k[i]
  <2>1. /\ l = m
        /\ [i \in 0..(l - 1) |-> j[i]] = [i \in 0..(m - 1) |-> k[i]]
    BY <1>1 DEF Block
  <2>2. ASSUME NEW i \in 0..(l - 1)
        PROVE  j[i] = k[i]
    <3>1. [n \in 0..(l - 1) |-> j[n]][i] = j[i]
      OBVIOUS
    <3>2. [n \in 0..(m - 1) |-> k[n]][i] = k[i]
      BY <2>1
    <3> QED BY <2>1, <3>1, <3>2
  <2> QED BY <2>1, <2>2
<1>2. ASSUME l = m, \A i \in 0..(l - 1) : j[i] = k[i]
      PROVE  Block(l, j) = Block(m, k)
  <2>1. [i \in 0..(l - 1) |-> j[i]] = [i \in 0..(m - 1) |-> k[i]]
    BY <1>2
  <2> QED BY <1>2, <2>1 DEF Block
<1> QED BY <1>1, <1>2

\* Two keys that differ have a level at which they part: they share their
\* blocks down to it and no block below it.
LEMMA PartingLevel ==
    ASSUME NEW j \in Keys, NEW k \in Keys, j # k
    PROVE  \E d \in Levels :
              /\ j[d] # k[d]
              /\ \A l \in 0..(d - 1) : j[l] = k[l]
              /\ \A l \in Levels : l =< d => Block(l, j) = Block(l, k)
              /\ \A l \in Levels : l > d => Block(l, j) # Block(l, k)
<1> DEFINE T == {l \in Levels : j[l] # k[l]}
<1>1. j \in [Levels -> Digit] /\ k \in [Levels -> Digit]
  BY MultibitAssumption
<1>2. T # {}
  BY <1>1
<1>3. PICK d \in T : \A l \in T : d =< l
  BY <1>2, FirstLevel
<1>4. d \in Nat /\ max_level \in Nat /\ Levels \subseteq Nat
  BY MultibitAssumption DEF Levels
<1>5. \A l \in 0..(d - 1) : j[l] = k[l]
  <2> TAKE l \in 0..(d - 1)
  <2>1. l \in Levels /\ ~(d =< l)
    BY <1>4 DEF Levels
  <2> QED BY <1>3, <2>1
<1>6. ASSUME NEW l \in Levels, l =< d
      PROVE  Block(l, j) = Block(l, k)
  <2>1. \A i \in 0..(l - 1) : i \in 0..(d - 1)
    BY <1>4, <1>6
  <2> QED BY <1>5, <2>1, SameBlock
<1>7. ASSUME NEW l \in Levels, l > d
      PROVE  Block(l, j) # Block(l, k)
  <2>1. d \in 0..(l - 1)
    BY <1>4, <1>7
  <2> QED BY <2>1, SameBlock
<1> QED BY <1>5, <1>6, <1>7

-----------------------------------------------------------------------------
\* Storing a key from the first level at which it is off switches on that key
\* and no other.
LEMMA SetFrom ==
    ASSUME TypeOK, NEW k \in Keys, NEW level \in Levels,
           ~isset_at(level, k),
           \A l \in 0..(level - 1) : isset_at(l, k),
           bits' = StoredFrom(level, k)
    PROVE  \A j \in Keys : mmbit_isset(j)' <=> mmbit_isset(j) \/ j = k
<1>1. max_level \in Nat /\ level \in Nat /\ Levels \subseteq Nat /\ level =< max_level
  BY MultibitAssumption DEF Levels
<1>2. ASSUME NEW j \in Keys, NEW l \in Levels
      PROVE  /\ Block(l, j) = Block(level, k)
                   => bits'[Block(l, j)] = bits[Block(l, j)] \cup {k[level]}
             /\ l > level /\ Block(l, j) = Block(l, k)
                   => bits'[Block(l, j)] = {k[l]}
             /\ Block(l, j) # Block(level, k) /\ (l > level => Block(l, j) # Block(l, k))
                   => bits'[Block(l, j)] = bits[Block(l, j)]
  <2>1. Block(l, j) \in Blocks /\ Block(l, j)[1] = l
    BY BlockType
  <2>2. (\E m \in (level + 1)..max_level : Block(l, j) = Block(m, k))
           <=> l > level /\ Block(l, j) = Block(l, k)
    <3>1. ASSUME NEW m \in (level + 1)..max_level, Block(l, j) = Block(m, k)
          PROVE  l > level /\ Block(l, j) = Block(l, k)
      <4>1. m \in Levels /\ m > level
        BY <1>1 DEF Levels
      <4>2. l = m
        BY <3>1, <4>1, SameBlock
      <4> QED BY <3>1, <4>1, <4>2
    <3>2. ASSUME l > level, Block(l, j) = Block(l, k)
          PROVE  \E m \in (level + 1)..max_level : Block(l, j) = Block(m, k)
      <4>1. l \in (level + 1)..max_level
        BY <1>1, <3>2 DEF Levels
      <4> QED BY <3>2, <4>1
    <3> QED BY <3>1, <3>2
  <2>3. l > level => Block(l, j) # Block(level, k)
    BY <1>1, SameBlock
  <2> QED BY <2>1, <2>2, <2>3 DEF StoredFrom
<1>3. mmbit_isset(k)'
  <2> SUFFICES ASSUME NEW l \in Levels
               PROVE  k[l] \in bits'[Block(l, k)]
    BY DEF mmbit_isset, isset_at
  <2>1. CASE l = level
    BY <1>2, <2>1
  <2>2. CASE l > level
    <3>1. Block(l, k) # Block(level, k)
      BY <1>1, <2>2, SameBlock
    <3> QED BY <1>2, <2>2, <3>1
  <2>3. CASE l < level
    <3>1. Block(l, k) # Block(level, k)
      BY <1>1, <2>3, SameBlock
    <3>2. bits'[Block(l, k)] = bits[Block(l, k)]
      <4>1. ~(l > level)
        BY <1>1, <2>3
      <4> QED BY <1>2, <3>1, <4>1
    <3>3. l \in 0..(level - 1)
      BY <1>1, <2>3
    <3> QED BY <3>2, <3>3 DEF isset_at
  <2> QED BY <1>1, <2>1, <2>2, <2>3
<1>4. ASSUME NEW j \in Keys, j # k
      PROVE  mmbit_isset(j)' <=> mmbit_isset(j)
  <2>1. PICK d \in Levels :
              /\ j[d] # k[d]
              /\ \A l \in 0..(d - 1) : j[l] = k[l]
              /\ \A l \in Levels : l =< d => Block(l, j) = Block(l, k)
              /\ \A l \in Levels : l > d => Block(l, j) # Block(l, k)
    BY <1>4, PartingLevel
  <2>2. d \in Nat
    BY <1>1
  <2>3. CASE d =< level
    <3>1. ASSUME NEW l \in Levels
          PROVE  j[l] \in bits'[Block(l, j)] <=> j[l] \in bits[Block(l, j)]
      <4>1. CASE l = level
        <5>1. CASE d = level
          <6>1. Block(l, j) = Block(level, k) /\ j[l] # k[level]
            BY <1>1, <2>1, <4>1, <5>1
          <6> QED BY <1>2, <6>1
        <5>2. CASE d < level
          <6>1. Block(l, j) # Block(l, k)
            BY <1>1, <2>1, <2>2, <4>1, <5>2
          <6>2. bits'[Block(l, j)] = bits[Block(l, j)]
            BY <1>2, <4>1, <6>1
          <6> QED BY <6>2
        <5> QED BY <1>1, <2>2, <2>3, <5>1, <5>2
      <4>2. CASE l # level
        <5>1. Block(l, j) # Block(level, k)
          BY <4>2, SameBlock
        <5>2. l > level => Block(l, j) # Block(l, k)
          BY <1>1, <2>1, <2>2, <2>3
        <5> QED BY <1>2, <5>1, <5>2
      <4> QED BY <4>1, <4>2
    <3> QED BY <3>1 DEF mmbit_isset, isset_at
  <2>4. CASE d > level
    <3>1. level \in 0..(d - 1)
      BY <1>1, <2>2, <2>4
    <3>2. j[level] = k[level] /\ Block(level, j) = Block(level, k)
      BY <1>1, <2>1, <2>2, <2>4, <3>1
    <3>3. ~mmbit_isset(j)
      BY <3>2 DEF mmbit_isset, isset_at
    <3>4. Block(d, j) # Block(level, k) /\ Block(d, j) = Block(d, k)
      BY <1>1, <2>1, <2>2, <2>4, SameBlock
    <3>5. bits'[Block(d, j)] = {k[d]}
      BY <1>2, <2>4, <3>4
    <3>6. ~mmbit_isset(j)'
      BY <2>1, <3>5 DEF mmbit_isset, isset_at
    <3> QED BY <3>3, <3>6
  <2> QED BY <1>1, <2>2, <2>3, <2>4
<1> QED BY <1>3, <1>4

\* Taking bits out of bottom blocks switches off the keys of those bits.
LEMMA BottomOnly ==
    ASSUME NEW j \in Keys,
           \A l \in Levels : l < max_level => bits'[Block(l, j)] = bits[Block(l, j)]
    PROVE  mmbit_isset(j)' <=>
              /\ \A l \in Levels : l < max_level => isset_at(l, j)
              /\ j[max_level] \in bits'[Block(max_level, j)]
<1>1. max_level \in Levels /\ \A l \in Levels : l < max_level \/ l = max_level
  BY MultibitAssumption DEF Levels
<1> QED BY <1>1 DEF mmbit_isset, isset_at

\* Two keys in one bottom block with one digit there are one key.
LEMMA SameBottom ==
    ASSUME NEW j \in Keys, NEW k \in Keys,
           Block(max_level, j) = Block(max_level, k),
           j[max_level] = k[max_level]
    PROVE  j = k
<1>1. max_level \in Levels /\ \A l \in Levels : l \in 0..(max_level - 1) \/ l = max_level
  BY MultibitAssumption DEF Levels
<1>2. \A l \in Levels : j[l] = k[l]
  BY <1>1, SameBlock
<1>3. j \in [Levels -> Digit] /\ k \in [Levels -> Digit]
  BY MultibitAssumption
<1> QED BY <1>2, <1>3

\* Clearing the root switches every key off.
LEMMA ClearedIsEmpty ==
    ASSUME TypeOK, bits' = Cleared(bits)
    PROVE  On' = {} /\ TypeOK'
<1>1. TypeOK'
  BY DEF TypeOK, Cleared
<1>2. ASSUME NEW j \in Keys
      PROVE  ~mmbit_isset(j)'
  <2>1. 0 \in Levels
    BY MultibitAssumption DEF Levels
  <2>2. Block(0, j) \in Blocks /\ Block(0, j)[1] = 0
    BY <2>1, BlockType
  <2>3. bits'[Block(0, j)] = {}
    BY <2>2 DEF Cleared
  <2> QED BY <2>1, <2>3 DEF mmbit_isset, isset_at
<1> QED BY <1>1, <1>2 DEF On

\* mmbit_clear switches every key off, though it writes the root alone.
LEMMA ClearStep ==
    ASSUME TypeOK, mmbit_clear
    PROVE  KS!Clear /\ TypeOK'
BY ClearedIsEmpty DEF mmbit_clear, Calls, KS!Clear

\* mmbit_set switches its key on and no other, and returns what it was.
LEMMA SetStep ==
    ASSUME TypeOK, NEW k \in Keys, mmbit_set(k)
    PROVE  KS!Set(k) /\ TypeOK'
<1>1. CASE mmbit_isset(k) /\ Calls("set", {k}, 1) /\ UNCHANGED bits
  <2>1. k \in On /\ On' = On
    BY <1>1 DEF On, mmbit_isset, isset_at
  <2>2. On' = On \cup {k}
    BY <2>1
  <2> QED BY <1>1, <2>1, <2>2 DEF Calls, KS!Set, TypeOK
<1>2. ASSUME NEW level \in Levels,
             ~isset_at(level, k),
             \A l \in 0..(level - 1) : isset_at(l, k),
             bits' = StoredFrom(level, k),
             Calls("set", {k}, 0)
      PROVE  KS!Set(k) /\ TypeOK'
  <2>1. \A j \in Keys : mmbit_isset(j)' <=> mmbit_isset(j) \/ j = k
    BY <1>2, SetFrom
  <2>2. k \notin On
    BY <1>2 DEF On, mmbit_isset
  <2>3. bits' \in [Blocks -> SUBSET Digit]
    <3>1. ASSUME NEW b \in Blocks
          PROVE  StoredFrom(level, k)[b] \in SUBSET Digit
      <4>1. k[level] \in Digit /\ bits[b] \in SUBSET Digit
        BY BlockType DEF TypeOK
      <4>2. ASSUME NEW l \in (level + 1)..max_level, b = Block(l, k)
            PROVE  k[b[1]] \in Digit
        <5>1. l \in Levels
          BY MultibitAssumption DEF Levels
        <5> QED BY <4>2, <5>1, BlockType
      <4> QED BY <4>1, <4>2 DEF StoredFrom
    <3>2. StoredFrom(level, k) = [b \in Blocks |-> StoredFrom(level, k)[b]]
      BY DEF StoredFrom
    <3> QED BY <1>2, <3>1, <3>2
  <2>4. On' = On \cup {k}
    BY <2>1 DEF On
  <2> QED BY <1>2, <2>2, <2>3, <2>4 DEF Calls, KS!Set, TypeOK
<1> QED BY <1>1, <1>2 DEF mmbit_set

\* mmbit_unset switches its key off and no other.
LEMMA UnsetStep ==
    ASSUME TypeOK, NEW k \in Keys, mmbit_unset(k)
    PROVE  KS!Unset({k}) /\ TypeOK'
<1>1. CASE ~mmbit_isset(k)
  <2>1. bits' = bits
    BY <1>1 DEF mmbit_unset
  <2>2. On' = On /\ k \notin On
    BY <1>1, <2>1 DEF On, mmbit_isset, isset_at
  <2>3. On' = On \ {k}
    BY <2>2
  <2> QED BY <2>1, <2>3 DEF mmbit_unset, Calls, KS!Unset, TypeOK
<1>2. CASE mmbit_isset(k)
  <2>1. max_level \in Levels
    BY MultibitAssumption DEF Levels
  <2>2. bits' = [bits EXCEPT ![Block(max_level, k)] = @ \ {k[max_level]}]
    BY <1>2 DEF mmbit_unset
  <2>3. bits' \in [Blocks -> SUBSET Digit]
    BY <2>2 DEF TypeOK
  <2>4. ASSUME NEW j \in Keys
        PROVE  mmbit_isset(j)' <=> mmbit_isset(j) /\ j # k
    <3>1. ASSUME NEW l \in Levels, l < max_level
          PROVE  bits'[Block(l, j)] = bits[Block(l, j)]
      <4>1. Block(l, j) # Block(max_level, k)
        BY <2>1, <3>1, SameBlock, MultibitAssumption DEF Levels
      <4> QED BY <2>2, <4>1, BlockType DEF TypeOK
    <3>2. j[max_level] \in bits'[Block(max_level, j)]
             <=> j[max_level] \in bits[Block(max_level, j)] /\ j # k
      <4>1. Block(max_level, j) \in Blocks
        BY <2>1, BlockType
      <4>2. CASE Block(max_level, j) = Block(max_level, k)
        <5>1. j[max_level] = k[max_level] => j = k
          BY <4>2, SameBottom
        <5> QED BY <2>2, <4>1, <4>2, <5>1 DEF TypeOK
      <4>3. CASE Block(max_level, j) # Block(max_level, k)
        BY <2>2, <4>1, <4>3 DEF TypeOK
      <4> QED BY <4>2, <4>3
    <3>3. mmbit_isset(j) <=> /\ \A l \in Levels : l < max_level => isset_at(l, j)
                             /\ j[max_level] \in bits[Block(max_level, j)]
      BY <2>1, MultibitAssumption DEF mmbit_isset, isset_at, Levels
    <3> QED BY <3>1, <3>2, <3>3, BottomOnly
  <2>5. On' = On \ {k}
    BY <2>4 DEF On
  <2> QED BY <2>3, <2>5 DEF mmbit_unset, Calls, KS!Unset, TypeOK
<1> QED BY <1>1, <1>2

\* mmbit_unset_range switches off the keys of the range and no other.
LEMMA UnsetRangeStep ==
    ASSUME TypeOK, NEW S \in SUBSET Keys, mmbit_unset_range(S)
    PROVE  KS!Unset(S) /\ TypeOK'
<1> DEFINE Out(b) == {k[max_level] :
                        k \in {k \in S : mmbit_isset(k) /\ Block(max_level, k) = b}}
<1>1. max_level \in Levels
  BY MultibitAssumption DEF Levels
<1>2. bits' = [b \in Blocks |-> IF b[1] = max_level THEN bits[b] \ Out(b) ELSE bits[b]]
  BY DEF mmbit_unset_range
<1>3. bits' \in [Blocks -> SUBSET Digit]
  <2> HIDE DEF Out
  <2> QED BY <1>2 DEF TypeOK
<1>4. ASSUME NEW j \in Keys
      PROVE  mmbit_isset(j)' <=> mmbit_isset(j) /\ j \notin S
  <2>1. ASSUME NEW l \in Levels, l < max_level
        PROVE  bits'[Block(l, j)] = bits[Block(l, j)]
    <3>1. Block(l, j) \in Blocks /\ Block(l, j)[1] # max_level
      BY <2>1, BlockType, MultibitAssumption DEF Levels
    <3> HIDE DEF Out
    <3> QED BY <1>2, <3>1
  <2>2. bits'[Block(max_level, j)] = bits[Block(max_level, j)] \ Out(Block(max_level, j))
    <3>1. Block(max_level, j) \in Blocks /\ Block(max_level, j)[1] = max_level
      BY <1>1, BlockType
    <3> HIDE DEF Out
    <3> QED BY <1>2, <3>1
  <2>3. j[max_level] \in Out(Block(max_level, j)) <=> j \in S /\ mmbit_isset(j)
    <3>1. ASSUME NEW k \in S, Block(max_level, k) = Block(max_level, j),
                 k[max_level] = j[max_level]
          PROVE  k = j
      BY <3>1, SameBottom
    <3> QED BY <3>1
  <2>4. mmbit_isset(j) <=> /\ \A l \in Levels : l < max_level => isset_at(l, j)
                           /\ j[max_level] \in bits[Block(max_level, j)]
    BY <1>1, MultibitAssumption DEF mmbit_isset, isset_at, Levels
  <2>5. mmbit_isset(j)' <=> /\ \A l \in Levels : l < max_level => isset_at(l, j)
                            /\ j[max_level] \in bits'[Block(max_level, j)]
    BY <2>1, BottomOnly
  <2> HIDE DEF Out
  <2> QED BY <2>2, <2>3, <2>4, <2>5
<1>5. On' = On \ S
  BY <1>4 DEF On
<1>6. Calls("unset", S, 0)
  BY DEF mmbit_unset_range
<1> QED BY <1>3, <1>5, <1>6 DEF Calls, KS!Unset, TypeOK

\* mmbit_init_range leaves exactly the keys of the range on: a block it does
\* not write is one no written block leads to.
LEMMA InitRangeSets ==
    ASSUME TypeOK, NEW S \in SUBSET Keys, S # {},
           bits' = [b \in Blocks |->
                      IF Leading(b, S) # {} THEN Leading(b, S) ELSE bits[b]]
    PROVE  On' = S /\ TypeOK'
<1>1. max_level \in Nat /\ 0 \in Levels /\ max_level \in Levels /\ Levels \subseteq Nat
  BY MultibitAssumption DEF Levels
<1>2. \A b \in Blocks :
         bits'[b] = IF Leading(b, S) # {} THEN Leading(b, S) ELSE bits[b]
  OBVIOUS
<1>3. bits' \in [Blocks -> SUBSET Digit]
  <2>1. ASSUME NEW b \in Blocks
        PROVE  Leading(b, S) \subseteq Digit
    <3>1. b[1] \in Levels
      BY DEF Blocks
    <3> QED BY <3>1, BlockType DEF Leading
  <2> QED BY <2>1 DEF TypeOK
<1>4. ASSUME NEW j \in Keys, NEW l \in Levels, NEW d
      PROVE  d \in Leading(Block(l, j), S)
                <=> \E k \in S : Block(l, k) = Block(l, j) /\ k[l] = d
  <2>1. Block(l, j)[1] = l
    BY BlockType
  <2> QED BY <2>1 DEF Leading
<1>5. ASSUME NEW j \in S
      PROVE  mmbit_isset(j)'
  <2> SUFFICES ASSUME NEW l \in Levels
               PROVE  j[l] \in bits'[Block(l, j)]
    BY DEF mmbit_isset, isset_at
  <2>1. j[l] \in Leading(Block(l, j), S)
    BY <1>4
  <2>2. Block(l, j) \in Blocks
    BY BlockType
  <2> QED BY <1>2, <2>1, <2>2
<1>6. ASSUME NEW j \in Keys, mmbit_isset(j)'
      PROVE  j \in S
  <2> DEFINE T == {l \in Levels : Leading(Block(l, j), S) = {}}
  <2>1. T = {}
    <3> SUFFICES ASSUME T # {}
                 PROVE  FALSE
      OBVIOUS
    <3>1. PICK m \in T : \A l \in T : m =< l
      BY FirstLevel
    <3>2. m # 0
      <4>1. PICK k \in S : TRUE
        OBVIOUS
      <4>2. Block(0, k) = Block(0, j)
        BY <1>1, SameBlock
      <4>3. k[0] \in Leading(Block(0, j), S)
        BY <1>1, <1>4, <4>2
      <4> QED BY <4>3
    <3>3. m - 1 \in Levels /\ m \in Levels /\ m \in Nat
      BY <1>1, <3>2 DEF Levels
    <3>4. Leading(Block(m - 1, j), S) # {}
      <4>1. ~(m =< m - 1)
        BY <3>3
      <4> QED BY <3>1, <3>3, <4>1
    <3>5. j[m - 1] \in Leading(Block(m - 1, j), S)
      <4>1. Block(m - 1, j) \in Blocks
        BY <3>3, BlockType
      <4>2. bits'[Block(m - 1, j)] = Leading(Block(m - 1, j), S)
        BY <1>2, <3>4, <4>1
      <4> QED BY <1>6, <3>3, <4>2 DEF mmbit_isset, isset_at
    <3>6. PICK k \in S : Block(m - 1, k) = Block(m - 1, j) /\ k[m - 1] = j[m - 1]
      BY <1>4, <3>3, <3>5
    <3>7. Block(m, k) = Block(m, j)
      <4>1. \A i \in 0..(m - 1 - 1) : k[i] = j[i]
        BY <3>3, <3>6, SameBlock
      <4>2. \A i \in 0..(m - 1) : i \in 0..(m - 1 - 1) \/ i = m - 1
        BY <3>3
      <4>3. \A i \in 0..(m - 1) : k[i] = j[i]
        BY <3>6, <4>1, <4>2
      <4> QED BY <3>3, <4>3, SameBlock
    <3>8. k[m] \in Leading(Block(m, j), S)
      BY <1>4, <3>3, <3>7
    <3> QED BY <3>8
  <2>2. Leading(Block(max_level, j), S) # {}
    BY <1>1, <2>1
  <2>3. j[max_level] \in Leading(Block(max_level, j), S)
    <3>1. Block(max_level, j) \in Blocks
      BY <1>1, BlockType
    <3>2. bits'[Block(max_level, j)] = Leading(Block(max_level, j), S)
      BY <1>2, <2>2, <3>1
    <3> QED BY <1>1, <1>6, <3>2 DEF mmbit_isset, isset_at
  <2>4. PICK k \in S : Block(max_level, k) = Block(max_level, j) /\ k[max_level] = j[max_level]
    BY <1>1, <1>4, <2>3
  <2> QED BY <2>4, SameBottom
<1>7. On' = S
  BY <1>5, <1>6 DEF On
<1> QED BY <1>3, <1>7 DEF TypeOK

\* mmbit_init_range switches on the range and nothing else.
LEMMA InitRangeStep ==
    ASSUME TypeOK, NEW S \in SUBSET Keys, mmbit_init_range(S)
    PROVE  KS!InitRange(S) /\ TypeOK'
<1>1. CASE S = {}
  BY <1>1, ClearedIsEmpty DEF mmbit_init_range, Calls, KS!InitRange
<1>2. CASE S # {}
  BY <1>2, InitRangeSets DEF mmbit_init_range, Calls, KS!InitRange
<1> QED BY <1>1, <1>2

-----------------------------------------------------------------------------
\* The types are all the invariant the refinement needs.
LEMMA NextTypes ==
    ASSUME TypeOK, [Next]_vars
    PROVE  TypeOK'
<1>1. CASE UNCHANGED vars
  BY <1>1 DEF vars, TypeOK
<1>2. Ranges \subseteq SUBSET Keys
  BY MultibitAssumption
<1> QED BY <1>1, <1>2, ClearStep, SetStep, UnsetStep, UnsetRangeStep, InitRangeStep DEF Next

\* Each operation is the operation of the set that it is called by.
LEMMA NextImplements ==
    ASSUME TypeOK, [Next]_vars
    PROVE  [KS!Next]_<<On, call>>
<1>1. CASE UNCHANGED vars
  BY <1>1 DEF vars, On, mmbit_isset, isset_at
<1>2. CASE mmbit_clear
  BY <1>2, ClearStep DEF KS!Next
<1>3. ASSUME NEW k \in Keys, mmbit_set(k) \/ mmbit_unset(k)
      PROVE  KS!Next
  BY <1>3, SetStep, UnsetStep DEF KS!Next
<1>4. ASSUME NEW S \in Ranges, mmbit_unset_range(S) \/ mmbit_init_range(S)
      PROVE  KS!Next
  <2>1. S \in SUBSET Keys
    BY MultibitAssumption
  <2> QED BY <1>4, <2>1, UnsetRangeStep, InitRangeStep DEF KS!Next
<1> QED BY <1>1, <1>2, <1>3, <1>4 DEF Next

\* A freshly cleared multibit is the empty set, whatever its memory held.
LEMMA InitImplements ==
    ASSUME Init
    PROVE  TypeOK /\ KS!Init
<1>1. PICK memory \in [Blocks -> SUBSET Digit] : bits = Cleared(memory)
  BY MemoryAssumption DEF Init
<1>2. TypeOK
  BY <1>1 DEF Cleared, TypeOK
<1>3. ASSUME NEW j \in Keys
      PROVE  ~mmbit_isset(j)
  <2>1. 0 \in Levels
    BY MultibitAssumption DEF Levels
  <2>2. Block(0, j) \in Blocks /\ Block(0, j)[1] = 0
    BY <2>1, BlockType
  <2>3. bits[Block(0, j)] = {}
    BY <1>1, <2>2 DEF Cleared
  <2> QED BY <2>1, <2>3 DEF mmbit_isset, isset_at
<1>4. On = {}
  BY <1>3 DEF On
<1> QED BY <1>2, <1>4 DEF Init, KS!Init

\* For any depth, block width, set of keys and memory: the multibit of
\* util/multibit.h implements a set of keys.
THEOREM MultibitIsASet == Spec => ImplementsKeySet
<1>1. Init => TypeOK /\ KS!Init
  BY InitImplements
<1>2. TypeOK /\ [Next]_vars => TypeOK'
  BY NextTypes
<1>3. TypeOK /\ [Next]_vars => [KS!Next]_<<On, call>>
  BY NextImplements
<1> QED BY <1>1, <1>2, <1>3, PTL DEF Spec, ImplementsKeySet, KS!Spec
=============================================================================
