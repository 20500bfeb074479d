-------------------------- MODULE WholeSpaceProofs --------------------------
(***************************************************************************)
(* What the whole space renderer shows is what the copy has done: the      *)
(* counters are the sectors reported or, as long as no block straddles two *)
(* of the map, those of the journal, and the map follows its legend.       *)
(*                                                                         *)
(* Every step of the copy with its display is a step of the copy or leaves *)
(* it alone, so the invariants of CopyProofs and CopyLedgerProofs hold     *)
(* here as well.                                                           *)
(***************************************************************************)
EXTENDS WholeSpaceProps, CopyLedgerProofs

-----------------------------------------------------------------------------
(* Blocks of the map and sectors.                                          *)

LEMMA ProductStep ==
  ASSUME NEW a \in Nat, NEW b \in Nat, NEW s \in Nat
  PROVE  /\ a * s \in Nat
         /\ a < b => a * s + s <= b * s
         /\ a <= b => a * s <= b * s
OBVIOUS

LEMMA Division ==
  ASSUME NEW l \in Nat
  PROVE  /\ l \div SectorsAtOnce \in Nat
         /\ l % SectorsAtOnce \in 0 .. SectorsAtOnce - 1
         /\ l = (l \div SectorsAtOnce) * SectorsAtOnce + (l % SectorsAtOnce)
BY SectorsAtOnceAssumption

(* A sector is in one block of the map, at one place of it.                *)
LEMMA DivisionUnique ==
  ASSUME NEW i \in Nat, NEW k \in 0 .. SectorsAtOnce - 1
  PROVE  /\ i * SectorsAtOnce + k \in Nat
         /\ (i * SectorsAtOnce + k) \div SectorsAtOnce = i
         /\ (i * SectorsAtOnce + k) % SectorsAtOnce = k
<1> DEFINE s == SectorsAtOnce
           x == i * s + k
           q == x \div s
           r == x % s
<1>1. s \in Nat /\ s > 0 /\ k \in Nat /\ k < s
  BY SectorsAtOnceAssumption
<1>2. i * s \in Nat
  BY <1>1, ProductStep
<1>3. x \in Nat
  BY <1>1, <1>2
<1>4. q \in Nat /\ r \in 0 .. s - 1 /\ x = q * s + r
  BY <1>3, Division
<1>5. q * s \in Nat
  BY <1>1, <1>4, ProductStep
<1>6. q * s + r = i * s + k
  BY <1>4
<1> HIDE DEF q, r, x, s
<1>7. ~(q < i)
  <2> SUFFICES ASSUME q < i PROVE FALSE
    OBVIOUS
  <2>1. q * s + s <= i * s
    BY <1>1, <1>4, ProductStep
  <2> QED
    BY <1>1, <1>2, <1>4, <1>5, <1>6, <2>1
<1>8. ~(i < q)
  <2> SUFFICES ASSUME i < q PROVE FALSE
    OBVIOUS
  <2>1. i * s + s <= q * s
    BY <1>1, <1>4, ProductStep
  <2> QED
    BY <1>1, <1>2, <1>4, <1>5, <1>6, <2>1
<1>9. q = i
  BY <1>4, <1>7, <1>8
<1>10. r = k
  BY <1>1, <1>2, <1>4, <1>6, <1>9
<1> QED
  BY <1>3, <1>9, <1>10 DEF q, r, x, s

(* The map has a block for every sector and no other; all but the last are *)
(* full, and the last holds the rest of the device when that is uneven.    *)
LEMMA MapSize ==
  /\ nb_blocks \in Nat /\ nb_blocks >= 1
  /\ (nb_blocks - 1) * SectorsAtOnce < EndLba
  /\ EndLba <= nb_blocks * SectorsAtOnce
  /\ EndLba % SectorsAtOnce # 0 =>
       EndLba = (nb_blocks - 1) * SectorsAtOnce + (EndLba % SectorsAtOnce)
<1> DEFINE s == SectorsAtOnce
           q == EndLba \div s
           r == EndLba % s
<1>1. s \in Nat /\ s > 0 /\ EndLba \in Nat /\ EndLba > 0
  BY SectorsAtOnceAssumption, EndLbaAssumption
<1>2. q \in Nat /\ r \in 0 .. s - 1 /\ EndLba = q * s + r
  BY <1>1, Division
<1>3. nb_blocks = q + (IF r = 0 THEN 0 ELSE 1)
  BY DEF nb_blocks, RoundedUp
<1> HIDE DEF q, r, s
<1>4. q * s \in Nat /\ (q + 1) * s = q * s + s
  BY <1>1, <1>2, ProductStep
<1>5. CASE r = 0
  <2>1. q # 0
    BY <1>1, <1>2, <1>5
  <2>2. q - 1 \in Nat /\ (q - 1) * s = q * s - s
    BY <1>1, <1>2, <2>1
  <2>3. nb_blocks = q
    BY <1>2, <1>3, <1>5
  <2> QED
    BY <1>1, <1>2, <1>4, <1>5, <2>1, <2>2, <2>3 DEF s, r
<1>6. CASE r # 0
  <2>1. nb_blocks = q + 1 /\ nb_blocks - 1 = q
    BY <1>2, <1>3, <1>6
  <2>2. (nb_blocks - 1) * s = q * s /\ nb_blocks * s = q * s + s
    BY <1>4, <2>1
  <2>3. EndLba = (nb_blocks - 1) * s + r
    BY <1>2, <2>2
  <2>4. (nb_blocks - 1) * s < EndLba /\ EndLba <= nb_blocks * s
    BY <1>1, <1>2, <1>4, <1>6, <2>2
  <2>5. nb_blocks \in Nat /\ nb_blocks >= 1
    BY <1>2, <2>1
  <2> QED
    BY <2>3, <2>4, <2>5 DEF s, r
<1> QED
  BY <1>5, <1>6

LEMMA BlockOfSector ==
  ASSUME NEW l \in Lbas
  PROVE  /\ MapBlock(l) \in MapBlocks
         /\ MapBlock(l) * SectorsAtOnce = l - (l % SectorsAtOnce)
         /\ l - (l % SectorsAtOnce) \in Lbas
         /\ l % SectorsAtOnce \in 0 .. SectorsAtOnce - 1
<1> DEFINE s == SectorsAtOnce
           q == l \div s
           r == l % s
<1>1. s \in Nat /\ s > 0 /\ EndLba \in Nat /\ l \in Nat /\ l < EndLba
  BY SectorsAtOnceAssumption, EndLbaAssumption DEF Lbas
<1>2. q \in Nat /\ r \in 0 .. s - 1 /\ l = q * s + r
  BY <1>1, Division
<1> HIDE DEF q, r, s
<1>3. nb_blocks \in Nat /\ EndLba <= nb_blocks * s
  BY MapSize DEF s
<1>4. q * s \in Nat
  BY <1>1, <1>2, ProductStep
<1>5. q < nb_blocks
  <2> SUFFICES ASSUME nb_blocks <= q PROVE FALSE
    BY <1>2, <1>3
  <2>1. nb_blocks * s <= q * s
    BY <1>1, <1>2, <1>3, ProductStep
  <2> QED
    BY <1>1, <1>2, <1>3, <1>4, <2>1, ProductStep
<1>6. q \in 0 .. nb_blocks - 1
  BY <1>2, <1>3, <1>5
<1>7. q * s = l - r /\ l - r \in 0 .. EndLba - 1
  BY <1>1, <1>2, <1>4
<1> QED
  BY <1>2, <1>6, <1>7 DEF q, r, s, MapBlock, MapBlocks, Lbas

LEMMA FirstOfBlock ==
  ASSUME NEW i \in MapBlocks
  PROVE  /\ i * SectorsAtOnce \in Lbas
         /\ MapBlock(i * SectorsAtOnce) = i
         /\ Aligned(i * SectorsAtOnce)
<1>1. i \in Nat /\ nb_blocks \in Nat /\ i <= nb_blocks - 1 /\ nb_blocks - 1 \in Nat
  BY MapSize DEF MapBlocks
<1>2. SectorsAtOnce \in Nat /\ 0 \in 0 .. SectorsAtOnce - 1 /\ EndLba \in Nat
  BY SectorsAtOnceAssumption, EndLbaAssumption
<1> DEFINE x == i * SectorsAtOnce
           y == (nb_blocks - 1) * SectorsAtOnce
<1>3. x \in Nat /\ y \in Nat /\ x <= y /\ y < EndLba
  BY <1>1, <1>2, ProductStep, MapSize
<1>4. (x + 0) \div SectorsAtOnce = i /\ (x + 0) % SectorsAtOnce = 0
  BY <1>1, <1>2, DivisionUnique
<1> HIDE DEF x, y
<1>5. x + 0 = x /\ x \in 0 .. EndLba - 1
  BY <1>2, <1>3
<1> QED
  BY <1>4, <1>5 DEF x, MapBlock, Aligned, Lbas

(* The sectors of the block of the map that an aligned sector begins.      *)
LEMMA AlignedBlock ==
  ASSUME NEW b \in Lbas, Aligned(b), NEW l \in Lbas
  PROVE  /\ MapBlock(l) = MapBlock(b) <=> b <= l /\ l < b + SectorsAtOnce
         /\ l - (l % SectorsAtOnce) = b <=> b <= l /\ l < b + SectorsAtOnce
<1> DEFINE s == SectorsAtOnce
           q == l \div s
           r == l % s
           p == b \div s
<1>1. s \in Nat /\ s > 0 /\ l \in Nat /\ b \in Nat
  BY SectorsAtOnceAssumption, EndLbaAssumption DEF Lbas
<1>2. /\ q \in Nat /\ r \in 0 .. s - 1 /\ l = q * s + r
      /\ p \in Nat /\ b = p * s + 0
  BY <1>1, Division DEF Aligned
<1>3. MapBlock(l) = q /\ MapBlock(b) = p
  BY DEF MapBlock
<1> HIDE DEF q, r, s, p
<1>4. q * s \in Nat /\ p * s \in Nat
      /\ (q < p => q * s + s <= p * s)
      /\ (p < q => p * s + s <= q * s)
  BY <1>1, <1>2, ProductStep
<1>5. (q = p) <=> (b <= l /\ l < b + s)
  <2>1. q = p => b <= l /\ l < b + s
    BY <1>1, <1>2, <1>4
  <2>2. q < p => ~(b <= l)
    BY <1>1, <1>2, <1>4
  <2>3. p < q => ~(l < b + s)
    BY <1>1, <1>2, <1>4
  <2> QED
    BY <1>2, <2>1, <2>2, <2>3
<1>6. (l - r = b) <=> (b <= l /\ l < b + s)
  <2>1. l - r = q * s /\ b = p * s
    BY <1>1, <1>2, <1>4
  <2>2. q = p => l - r = b
    BY <2>1
  <2>3. l - r = b => b <= l /\ l < b + s
    BY <1>1, <1>2
  <2> QED
    BY <1>5, <2>2, <2>3
<1> QED
  BY <1>3, <1>5, <1>6 DEF r, s

SectorsIn(blocks) == { l \in Lbas : MapBlock(l) \in blocks }

LEMMA LbasFinite == IsFiniteSet(Lbas) /\ Cardinality(Lbas) = EndLba
<1>1. 0 \in Int /\ EndLba - 1 \in Int /\ EndLba \in Nat /\ ~(0 > EndLba - 1)
      /\ EndLba - 1 - 0 + 1 = EndLba
  BY EndLbaAssumption
<1>2. /\ IsFiniteSet(0 .. EndLba - 1)
      /\ Cardinality(0 .. EndLba - 1) = IF 0 > EndLba - 1 THEN 0 ELSE EndLba - 1 - 0 + 1
  BY <1>1, FS_Interval
<1> QED
  BY <1>1, <1>2 DEF Lbas

LEMMA MapBlocksFinite == IsFiniteSet(MapBlocks)
<1>1. 0 \in Int /\ nb_blocks - 1 \in Int
  BY MapSize
<1> QED
  BY <1>1, FS_Interval DEF MapBlocks

(* Full blocks have as many sectors as their number says.                  *)
LEMMA FullBlocks ==
  ASSUME NEW blocks \in SUBSET (MapBlocks \ {LastBlock})
  PROVE  /\ Cardinality(SectorsIn(blocks)) = Cardinality(blocks) * SectorsAtOnce
         /\ Cardinality(blocks) \in Nat
<1> DEFINE s == SectorsAtOnce
           places == 0 .. s - 1
           pairs == blocks \X places
           f == [p \in pairs |-> p[1] * s + p[2]]
<1>1. s \in Nat /\ s > 0 /\ EndLba \in Nat
  BY SectorsAtOnceAssumption, EndLbaAssumption
<1>2. /\ IsFiniteSet(blocks) /\ Cardinality(blocks) \in Nat
      /\ IsFiniteSet(places) /\ Cardinality(places) = s
  <2>1. IsFiniteSet(blocks)
    BY MapBlocksFinite, FS_Subset
  <2>2. Cardinality(blocks) \in Nat
    BY <2>1, FS_CardinalityType
  <2>3. 0 \in Int /\ s - 1 \in Int /\ ~(0 > s - 1) /\ s - 1 - 0 + 1 = s
    BY <1>1
  <2>4. IsFiniteSet(places) /\ Cardinality(places) = IF 0 > s - 1 THEN 0 ELSE s - 1 - 0 + 1
    BY <2>3, FS_Interval
  <2> QED
    BY <2>1, <2>2, <2>3, <2>4
<1>3. ASSUME NEW i \in blocks, NEW k \in places
      PROVE  /\ i \in Nat /\ k \in Nat /\ i * s + k \in SectorsIn(blocks)
             /\ MapBlock(i * s + k) = i /\ (i * s + k) % s = k
  <2>1. i \in Nat /\ nb_blocks \in Nat /\ i < nb_blocks - 1 /\ nb_blocks - 1 \in Nat
    BY MapSize DEF MapBlocks, LastBlock
  <2>2. i * s + k \in Nat /\ MapBlock(i * s + k) = i /\ (i * s + k) % s = k
    BY <2>1, DivisionUnique DEF MapBlock
  <2>3. /\ i * s \in Nat /\ i * s + s <= (nb_blocks - 1) * s
        /\ (nb_blocks - 1) * s \in Nat /\ (nb_blocks - 1) * s < EndLba
    BY <1>1, <2>1, ProductStep, MapSize
  <2>4. k \in Nat /\ k < s
    BY <1>1
  <2>5. i * s + k \in Lbas
    BY <1>1, <2>3, <2>4 DEF Lbas
  <2> QED
    BY <2>1, <2>2, <2>4, <2>5 DEF SectorsIn
<1>4. ASSUME NEW l \in SectorsIn(blocks)
      PROVE  \E i \in blocks, k \in places : l = i * s + k
  <2>1. l \in Lbas /\ MapBlock(l) \in blocks
    BY DEF SectorsIn
  <2>2. MapBlock(l) * s = l - (l % s) /\ l % s \in places
    BY <2>1, BlockOfSector
  <2>3. l = MapBlock(l) * s + (l % s)
    BY <1>1, <2>1, <2>2 DEF Lbas
  <2> QED
    BY <2>1, <2>2, <2>3
<1> HIDE DEF places, s
<1>5. f \in [pairs -> SectorsIn(blocks)]
  BY <1>3
<1>6. \A p, q \in pairs : f[p] = f[q] => p = q
  <2> SUFFICES ASSUME NEW p \in pairs, NEW q \in pairs, f[p] = f[q] PROVE p = q
    OBVIOUS
  <2>1. p = <<p[1], p[2]>> /\ q = <<q[1], q[2]>>
        /\ p[1] \in blocks /\ p[2] \in places /\ q[1] \in blocks /\ q[2] \in places
    OBVIOUS
  <2>2. p[1] * s + p[2] = q[1] * s + q[2]
    OBVIOUS
  <2>3. p[1] = q[1] /\ p[2] = q[2]
    BY <1>3, <2>1, <2>2
  <2> QED
    BY <2>1, <2>3
<1>7. \A l \in SectorsIn(blocks) : \E p \in pairs : f[p] = l
  <2> SUFFICES ASSUME NEW l \in SectorsIn(blocks) PROVE \E p \in pairs : f[p] = l
    OBVIOUS
  <2>1. PICK i \in blocks, k \in places : l = i * s + k
    BY <1>4
  <2>2. <<i, k>> \in pairs /\ f[<<i, k>>] = l
    BY <2>1
  <2> QED
    BY <2>2
<1> HIDE DEF f
<1>8. ExistsBijection(pairs, SectorsIn(blocks))
  <2> DEFINE T == SectorsIn(blocks)
  <2> HIDE DEF pairs, T
  <2>1. f \in Injection(pairs, T) /\ f \in Surjection(pairs, T)
    BY <1>5, <1>6, <1>7 DEF Injection, Surjection, IsInjective, T
  <2>2. f \in Bijection(pairs, T)
    BY <2>1 DEF Bijection
  <2> QED
    BY <2>2 DEF ExistsBijection, T
<1>9. IsFiniteSet(pairs) /\ Cardinality(pairs) = Cardinality(blocks) * Cardinality(places)
  BY <1>2, FS_Product
<1> HIDE DEF pairs
<1>10. Cardinality(SectorsIn(blocks)) = Cardinality(pairs)
  BY <1>8, <1>9, FS_Bijection
<1> QED
  BY <1>2, <1>9, <1>10 DEF s

(* What a set of blocks adds to a counter is never more than the device    *)
(* has, and it is the sectors of these blocks unless the last one, being   *)
(* full, is counted as empty.                                              *)
LEMMA CountedBlocks ==
  ASSUME NEW blocks \in SUBSET MapBlocks
  PROVE  /\ SectorsOf(blocks) \in 0 .. EndLba
         /\ EndLba % SectorsAtOnce # 0 =>
              SectorsOf(blocks) = Cardinality(SectorsIn(blocks))
<1> DEFINE full == blocks \ {LastBlock}
           n == Cardinality(full) * SectorsAtOnce
           tail == LastBlock * SectorsAtOnce .. EndLba - 1
<1>1. EndLba \in Nat /\ SectorsAtOnce \in Nat
  BY EndLbaAssumption, SectorsAtOnceAssumption
<1>2. /\ LastBlock \in MapBlocks /\ LastBlock \in Nat
      /\ LastBlock * SectorsAtOnce \in Nat /\ LastBlock * SectorsAtOnce < EndLba
      /\ EndLba % SectorsAtOnce # 0 =>
           EndLba = LastBlock * SectorsAtOnce + (EndLba % SectorsAtOnce)
      /\ EndLba % SectorsAtOnce \in 0 .. SectorsAtOnce - 1
      /\ EndLba <= LastBlock * SectorsAtOnce + SectorsAtOnce
  <2>1. nb_blocks \in Nat /\ nb_blocks >= 1 /\ LastBlock = nb_blocks - 1 /\ LastBlock \in Nat
    BY MapSize DEF LastBlock
  <2>2. LastBlock * SectorsAtOnce \in Nat
        /\ nb_blocks * SectorsAtOnce = LastBlock * SectorsAtOnce + SectorsAtOnce
    BY <1>1, <2>1, ProductStep
  <2>3. LastBlock \in MapBlocks
    BY <2>1 DEF MapBlocks
  <2>4. EndLba % SectorsAtOnce \in 0 .. SectorsAtOnce - 1
    BY <1>1, Division
  <2> QED
    BY <2>1, <2>2, <2>3, <2>4, MapSize
<1>3. n = Cardinality(SectorsIn(full)) /\ n \in Nat
  <2>1. full \in SUBSET (MapBlocks \ {LastBlock})
    OBVIOUS
  <2>2. n = Cardinality(SectorsIn(full)) /\ Cardinality(full) \in Nat
    BY <2>1, FullBlocks
  <2> QED
    BY <1>1, <2>2, ProductStep
<1>4. /\ \A b \in SUBSET Lbas : IsFiniteSet(b) /\ Cardinality(b) \in Nat /\ Cardinality(b) <= EndLba
      /\ SectorsIn(blocks) \in SUBSET Lbas /\ SectorsIn(full) \in SUBSET Lbas
  <2>1. \A b \in SUBSET Lbas : IsFiniteSet(b) /\ Cardinality(b) <= Cardinality(Lbas)
    BY LbasFinite, FS_Subset
  <2>2. \A b \in SUBSET Lbas : Cardinality(b) \in Nat
    BY <2>1, FS_CardinalityType
  <2> QED
    BY <2>1, <2>2, LbasFinite DEF SectorsIn
<1> HIDE DEF n
<1>5. SectorsOf(blocks) = n + IF LastBlock \in blocks THEN SectorsInLast ELSE 0
  BY DEF SectorsOf, n
<1>6. CASE LastBlock \notin blocks
  <2>1. full = blocks
    BY <1>6
  <2>2. SectorsOf(blocks) = n
    BY <1>3, <1>5, <1>6
  <2> QED
    BY <1>1, <1>3, <1>4, <2>1, <2>2
<1>7. CASE LastBlock \in blocks
  <2>1. tail \in SUBSET Lbas
    BY <1>1, <1>2 DEF Lbas
  <2>2. \A l \in Lbas : MapBlock(l) = LastBlock <=> l \in tail
    <3> SUFFICES ASSUME NEW l \in Lbas PROVE MapBlock(l) = LastBlock <=> l \in tail
      OBVIOUS
    <3> DEFINE b == LastBlock * SectorsAtOnce
    <3>1. b \in Lbas /\ MapBlock(b) = LastBlock /\ Aligned(b)
      BY <1>2, FirstOfBlock
    <3> HIDE DEF b
    <3>2. MapBlock(l) = LastBlock <=> b <= l /\ l < b + SectorsAtOnce
      BY <3>1, AlignedBlock
    <3>3. l \in Nat /\ l < EndLba /\ b \in Nat /\ EndLba <= b + SectorsAtOnce
      BY <1>1, <1>2, <3>1 DEF Lbas, b
    <3> QED
      BY <1>1, <3>2, <3>3 DEF b
  <2>3. SectorsIn(blocks) = SectorsIn(full) \cup tail /\ SectorsIn(full) \cap tail = {}
    BY <1>7, <2>1, <2>2 DEF SectorsIn
  <2>4. Cardinality(tail) = EndLba - LastBlock * SectorsAtOnce
    <3>1. /\ LastBlock * SectorsAtOnce \in Int /\ EndLba - 1 \in Int
          /\ ~(LastBlock * SectorsAtOnce > EndLba - 1)
          /\ EndLba - 1 - LastBlock * SectorsAtOnce + 1 = EndLba - LastBlock * SectorsAtOnce
      BY <1>1, <1>2
    <3> QED
      BY <3>1, FS_Interval
  <2> HIDE DEF full, tail
  <2>5. Cardinality(SectorsIn(blocks)) = n + Cardinality(tail)
    <3>1. Cardinality(SectorsIn(full) \cup tail)
            = Cardinality(SectorsIn(full)) + Cardinality(tail)
                - Cardinality(SectorsIn(full) \cap tail)
      BY <1>4, <2>1, FS_Union
    <3>2. Cardinality(SectorsIn(full) \cap tail) = 0
      BY <2>3, FS_EmptySet
    <3>3. Cardinality(tail) \in Nat
      BY <1>4, <2>1
    <3> QED
      BY <1>3, <2>3, <3>1, <3>2, <3>3
  <2>6. SectorsOf(blocks) = n + (EndLba % SectorsAtOnce)
    BY <1>5, <1>7 DEF SectorsInLast
  <2> DEFINE r == EndLba % SectorsAtOnce
             b == LastBlock * SectorsAtOnce
  <2>7. /\ Cardinality(SectorsIn(blocks)) \in Nat /\ Cardinality(SectorsIn(blocks)) <= EndLba
        /\ r \in Nat /\ b \in Nat /\ b < EndLba /\ (r # 0 => EndLba = b + r)
        /\ SectorsOf(blocks) = n + r
        /\ Cardinality(SectorsIn(blocks)) = n + (EndLba - b)
    BY <1>1, <1>2, <1>4, <2>4, <2>5, <2>6
  <2> HIDE DEF r, b
  <2>8. SectorsOf(blocks) \in 0 .. EndLba
        /\ (r # 0 => SectorsOf(blocks) = Cardinality(SectorsIn(blocks)))
    BY <1>1, <1>3, <2>7
  <2> QED
    BY <2>8 DEF r
<1> QED
  BY <1>6, <1>7

LEMMA NoBlocks == SectorsOf({}) = 0
<1>1. Cardinality({} \ {LastBlock}) = 0 /\ LastBlock \notin {}
  <2>1. {} \ {LastBlock} = {}
    OBVIOUS
  <2> QED
    BY <2>1, FS_EmptySet
<1>2. 0 * SectorsAtOnce = 0
  BY SectorsAtOnceAssumption
<1> QED
  BY <1>1, <1>2 DEF SectorsOf

-----------------------------------------------------------------------------
(* Beginning and end, and the cases of a turn of the loop.                 *)

LEMMA DisplayInitInv == DisplayInit => DisplayInv
<1> SUFFICES ASSUME DisplayInit PROVE DisplayInv
  OBVIOUS
<1>1. /\ pc = "closed" /\ display = FALSE /\ straddled = FALSE /\ use_journal = FALSE
      /\ blocks_map = [i \in MapBlocks |-> "Unread"] /\ handled = 0 /\ num = 0
      /\ unread_count = 0 /\ read_ok_count = 0 /\ errors_count = 0
      /\ report = EmptyReport /\ journal = [l \in Lbas |-> "Unread"]
  BY DEF DisplayInit, Init, NoDisplay, NoSession
<1>2. ShownInv /\ ReportInv /\ FreshInv /\ AlignedInv /\ MatchInv /\ MapInv /\ DueInv
  BY <1>1 DEF ShownInv, ReportInv, FreshInv, AlignedInv, MatchInv, MapInv, DueInv, Comparable
<1>3. TallyInv
  <2>1. 0 \in 0 .. CountModulus - 1 /\ 0 \in 0 .. EndLba + 0 /\ 0 <= EndLba
    BY CountModulusAssumption, EndLbaAssumption
  <2>2. blocks_map \in [MapBlocks -> SectorStatus] /\ report.sectors_processed = 0
    BY <1>1 DEF SectorStatus, EmptyReport
  <2>3. display \in BOOLEAN /\ straddled \in BOOLEAN
    BY <1>1
  <2>4. handled <= num + (IF pc = "closing" /\ result = "stopped" THEN EndLba ELSE 0)
    BY <1>1
  <2> QED
    BY <1>1, <2>1, <2>2, <2>3, <2>4 DEF TallyInv
<1>4. UniformInv
  BY <1>1, BlockOfSector DEF UniformInv
<1> QED
  BY <1>2, <1>3, <1>4 DEF DisplayInv

(* When the session is over there is nothing to show.                      *)
LEMMA EndStepInv == DisplayInv /\ EndStep => DisplayInv'
<1> SUFFICES ASSUME DisplayInv, EndStep PROVE DisplayInv'
  OBVIOUS
<1>1. /\ display' = FALSE /\ straddled' = straddled
      /\ blocks_map' = [i \in MapBlocks |-> "Unread"]
      /\ unread_count' = 0 /\ read_ok_count' = 0 /\ errors_count' = 0
  BY DEF EndStep, CloseDisplay
<1>2. \E how : EndSession(how)
  BY DEF EndStep, Close, Crash, JumpAssertionFails
<1>3. /\ pc' = "closed" /\ use_journal' = FALSE /\ num' = 0 /\ handled' = 0
      /\ report' = EmptyReport /\ journal' = journal
  BY <1>2 DEF EndSession, persistent
<1>4. /\ ShownInv' /\ ReportInv' /\ FreshInv' /\ AlignedInv' /\ MatchInv' /\ MapInv' /\ DueInv'
  BY <1>1, <1>3 DEF ShownInv, ReportInv, FreshInv, AlignedInv, MatchInv, MapInv, DueInv, Comparable
<1>5. TallyInv'
  <2>1. 0 \in 0 .. CountModulus - 1 /\ 0 \in 0 .. EndLba + 0 /\ 0 <= EndLba
    BY CountModulusAssumption, EndLbaAssumption
  <2>2. blocks_map' \in [MapBlocks -> SectorStatus] /\ report'.sectors_processed = 0
    BY <1>1, <1>3 DEF SectorStatus, EmptyReport
  <2>3. display' \in BOOLEAN /\ straddled' \in BOOLEAN
    BY <1>1 DEF DisplayInv, TallyInv
  <2>4. MapBlocks' = MapBlocks
    BY DEF MapBlocks, nb_blocks
  <2> QED
    BY <1>1, <1>3, <2>1, <2>2, <2>3, <2>4 DEF TallyInv
<1>6. UniformInv'
  BY <1>1, <1>3 DEF DisplayInv, UniformInv
<1> QED
  BY <1>4, <1>5, <1>6 DEF DisplayInv

(* What a turn of the loop may do while the display is open.               *)
LEMMA LoopCases ==
  LoopStep =>
    /\ display /\ UNCHANGED displayVars
    /\ straddled' = (straddled \/ (pc' = "read" /\ use_journal /\ ~Aligned(lba_to_read')))
    /\ UNCHANGED <<config, den, handled>>
    /\ pc \notin {"callback", "closing"}
    /\ \/ GetTask \/ NoTask \/ RefuseBlock
       \/ \E how \in ReadResults : Read(how)
       \/ Write \/ WriteJournal \/ UseResults
       \/ LoopFinished \/ LoopInterrupted
<1> SUFFICES ASSUME LoopStep
    PROVE  /\ display /\ UNCHANGED displayVars
           /\ straddled' = (straddled \/ (pc' = "read" /\ use_journal /\ ~Aligned(lba_to_read')))
           /\ UNCHANGED <<config, den, handled>>
           /\ pc \notin {"callback", "closing"}
           /\ \/ GetTask \/ NoTask \/ RefuseBlock
              \/ \E how \in ReadResults : Read(how)
              \/ Write \/ WriteJournal \/ UseResults
              \/ LoopFinished \/ LoopInterrupted
  OBVIOUS
<1>1. ~JumpAssertionFails
  BY DEF LoopStep, JumpAssertionFails, EndSession
<1>2. \/ GetTask \/ NoTask \/ RefuseBlock
      \/ \E how \in ReadResults : Read(how)
      \/ Write \/ WriteJournal \/ UseResults
      \/ LoopFinished \/ LoopInterrupted
  BY <1>1 DEF LoopStep, Perform
<1>3. UNCHANGED <<config, den, handled>> /\ pc \notin {"callback", "closing"}
  BY <1>2 DEF GetTask, MorePending, NoTask, RefuseBlock, Read, Write, WriteJournal,
    UseResults, LoopFinished, LoopInterrupted, progress
<1>4. straddled' = (straddled \/ (pc' = "read" /\ use_journal /\ ~Aligned(lba_to_read')))
  BY DEF LoopStep, NextStraddled, Aligned
<1> QED
  BY <1>2, <1>3, <1>4 DEF LoopStep

-----------------------------------------------------------------------------
(* Alignment.                                                              *)

LEMMA AlignedSum ==
  ASSUME NEW a \in Nat, Aligned(a)
  PROVE  /\ Aligned(a + SectorsAtOnce)
         /\ \A b \in Nat : (Aligned(b) /\ a < b) => a + SectorsAtOnce <= b
<1> DEFINE s == SectorsAtOnce
           p == a \div s
<1>1. s \in Nat /\ s > 0 /\ 0 \in 0 .. s - 1
  BY SectorsAtOnceAssumption
<1>2. p \in Nat /\ a = p * s + 0
  BY <1>1, Division DEF Aligned
<1> HIDE DEF s, p
<1>3. p * s \in Nat /\ a = p * s /\ (p + 1) * s = p * s + s /\ (p + 1) * s \in Nat /\ p + 1 \in Nat
  BY <1>1, <1>2, ProductStep
<1>4. Aligned(a + s)
  <2>1. ((p + 1) * s + 0) % s = 0
    BY <1>1, <1>3, DivisionUnique DEF s
  <2>2. (p + 1) * s + 0 = a + s
    BY <1>1, <1>3
  <2> HIDE DEF s
  <2>3. (a + s) % s = 0
    BY <2>1, <2>2
  <2> QED
    BY <2>3 DEF Aligned, s
<1>5. ASSUME NEW b \in Nat, Aligned(b), a < b PROVE a + s <= b
  <2> DEFINE q == b \div s
  <2>1. q \in Nat /\ b = q * s + 0
    BY <1>1, <1>5, Division DEF Aligned, s
  <2> HIDE DEF q
  <2>2. q * s \in Nat /\ (p < q => p * s + s <= q * s) /\ (q <= p => q * s <= p * s)
    BY <1>1, <1>2, <2>1, ProductStep
  <2> QED
    BY <1>1, <1>2, <1>3, <1>5, <2>1, <2>2
<1> QED
  BY <1>4, <1>5 DEF s

LEMMA AlignedZero == Aligned(0)
<1>1. 0 \in Nat /\ 0 \in 0 .. SectorsAtOnce - 1
  BY SectorsAtOnceAssumption
<1>2. (0 * SectorsAtOnce + 0) % SectorsAtOnce = 0 /\ 0 * SectorsAtOnce + 0 = 0
  BY <1>1, DivisionUnique, SectorsAtOnceAssumption
<1> QED
  BY <1>2 DEF Aligned

(* The assertions on jumps and halves are met by aligned sectors.          *)
LEMMA JumpAligned ==
  ASSUME NEW zone \in Zone, NEW dist \in Nat
  PROVE  JumpTarget(zone, dist) \in Nat /\ Aligned(JumpTarget(zone, dist))
<1> DEFINE s == SectorsAtOnce
           x == zone.begin_lba + dist
           q == x \div s
<1>1. s \in Nat /\ s > 0 /\ 0 \in 0 .. s - 1
  BY SectorsAtOnceAssumption
<1>2. x \in Nat
  BY DEF Zone
<1>3. q \in Nat /\ x % s \in 0 .. s - 1 /\ x = q * s + (x % s)
  BY <1>2, Division
<1>4. q * s \in Nat
  BY <1>1, <1>3, ProductStep
<1>5. JumpTarget(zone, dist) = x - (x % s)
  BY DEF JumpTarget
<1>6. (q * s + 0) % s = 0
  BY <1>1, <1>3, DivisionUnique
<1> HIDE DEF q, x, s
<1>7. JumpTarget(zone, dist) = q * s /\ q * s + 0 = q * s
  BY <1>2, <1>3, <1>4, <1>5
<1> QED
  BY <1>4, <1>6, <1>7 DEF Aligned, s

LEMMA SplitAligned ==
  ASSUME NEW z \in Seq(Zone), ZonesAligned(z), NEW i \in 1 .. Len(z),
         NEW at \in Nat, Aligned(at)
  PROVE  ZonesAligned(Split(z, i, at))
<1> DEFINE head == [z[i] EXCEPT !.end_lba = at, !.end_lba_defective = FALSE]
           tail == [z[i] EXCEPT !.begin_lba = at, !.begin_lba_defective = FALSE]
           y == [z EXCEPT ![i] = head]
           w == Split(z, i, at)
<1>1. /\ z[i] \in Zone /\ Len(z) \in Nat /\ DOMAIN z = 1 .. Len(z)
      /\ i + 1 \in 1 .. Len(z) + 1
  BY ZoneElements
<1>2. /\ head \in Zone /\ head.begin_lba = z[i].begin_lba /\ head.end_lba = at
      /\ tail \in Zone /\ tail.begin_lba = at /\ tail.end_lba = z[i].end_lba
  BY <1>1 DEF Zone
<1>3. ZoneAligned(head) /\ ZoneAligned(tail)
  <2>1. ZoneAligned(z[i])
    BY <1>1 DEF ZonesAligned
  <2> HIDE DEF head, tail
  <2> QED
    BY <1>2, <2>1 DEF ZoneAligned
<1> HIDE DEF head, tail
<1>4. y \in Seq(Zone) /\ Len(y) = Len(z) /\ \A j \in 1 .. Len(z) : y[j] = IF j = i THEN head ELSE z[j]
  BY <1>1, <1>2, ExceptSeq
<1> HIDE DEF y
<1>5. w = InsertAt(y, i + 1, tail)
  BY DEF w, Split, y, head, tail
<1>6. /\ w \in Seq(Zone) /\ Len(w) = Len(z) + 1
      /\ \A j \in 1 .. i : w[j] = y[j]
      /\ w[i + 1] = tail
      /\ \A j \in i + 2 .. Len(z) + 1 : w[j] = y[j - 1]
  <2> DEFINE k == i + 1
  <2>1. y \in Seq(Zone) /\ tail \in Zone /\ k \in 1 .. Len(y) + 1
    BY <1>1, <1>2, <1>4
  <2>2. k - 1 = i /\ k + 1 = i + 2
    BY <1>1
  <2> HIDE DEF k, w
  <2>3. InsertAt(y, k, tail) \in Seq(Zone)
    BY <2>1, InsertAtElements
  <2>4. Len(InsertAt(y, k, tail)) = Len(y) + 1
    BY <2>1, InsertAtElements
  <2>5. \A j \in 1 .. k - 1 : InsertAt(y, k, tail)[j] = y[j]
    BY <2>1, InsertAtElements
  <2>6. InsertAt(y, k, tail)[k] = tail
    BY <2>1, InsertAtElements
  <2>7. \A j \in k + 1 .. Len(y) + 1 : InsertAt(y, k, tail)[j] = y[j - 1]
    BY ONLY <2>1, InsertAtElements, SMTT(30)
  <2>8. w = InsertAt(y, k, tail)
    BY <1>5 DEF k
  <2>9. /\ \A j \in 1 .. i : w[j] = y[j]
        /\ \A j \in i + 2 .. Len(z) + 1 : w[j] = y[j - 1]
    BY <1>4, <2>2, <2>5, <2>7, <2>8
  <2> QED
    BY <1>4, <2>3, <2>4, <2>6, <2>8, <2>9, Zenon DEF k
<1> HIDE DEF w
<1>7. \A j \in 1 .. Len(z) + 1 : j \in 1 .. i \/ j = i + 1 \/ (j \in i + 2 .. Len(z) + 1 /\ j - 1 \in 1 .. Len(z))
  BY <1>1
<1>8. \A j \in 1 .. Len(z) : ZoneAligned(y[j])
  BY <1>1, <1>3, <1>4 DEF ZonesAligned
<1>9. \A j \in 1 .. i : j \in 1 .. Len(z)
  BY <1>1
<1>10. \A j \in 1 .. Len(z) + 1 : ZoneAligned(w[j])
  BY <1>3, <1>6, <1>7, <1>8, <1>9
<1>11. DOMAIN w = 1 .. Len(z) + 1
  BY <1>6, ZoneElements
<1>12. ZonesAligned(w)
  BY <1>10, <1>11 DEF ZonesAligned
<1> QED
  BY <1>12 DEF w

(* What is left of an aligned zone when an aligned block has been taken    *)
(* off its edge is aligned or empty; the block itself is a block of the    *)
(* map, up to the end of the device.                                       *)
LEMMA TrimAligned ==
  ASSUME NEW zone \in Zone, NEW rev \in BOOLEAN, NEW failed \in BOOLEAN,
         zone.begin_lba < zone.end_lba, zone.end_lba <= EndLba, ZoneAligned(zone),
         Aligned(BlockStart(zone, rev))
  PROVE  LET n == BlockSize(zone)
             lba == BlockStart(zone, rev)
             left == Trim(zone, rev, n, failed)
         IN /\ Empty(left) \/ ZoneAligned(left)
            /\ n = SectorsAtOnce \/ (n < SectorsAtOnce /\ lba + n = EndLba)
<1> DEFINE b == zone.begin_lba
           e == zone.end_lba
           n == BlockSize(zone)
           lba == BlockStart(zone, rev)
           left == Trim(zone, rev, n, failed)
<1>1. b \in Nat /\ e \in Nat /\ b < e /\ EndLba \in Nat /\ e <= EndLba
      /\ SectorsAtOnce \in Nat /\ SectorsAtOnce > 0
  BY EndLbaAssumption, SectorsAtOnceAssumption DEF Zone
<1>2. Aligned(b) /\ (Aligned(e) \/ e = EndLba)
  BY DEF ZoneAligned
<1>3. /\ n = IF e - b < SectorsAtOnce THEN e - b ELSE SectorsAtOnce
      /\ lba = IF rev THEN e - n ELSE b
  BY DEF BlockSize, BlockStart, ZoneLength
<1>4. /\ ~rev => left.begin_lba = b + n /\ left.end_lba = e
      /\ rev => left.begin_lba = b /\ left.end_lba = e - n
  BY DEF Trim, Zone
<1>5. Aligned(b + SectorsAtOnce) /\ (\A x \in Nat : Aligned(x) /\ b < x => b + SectorsAtOnce <= x)
  BY <1>1, <1>2, AlignedSum
<1> HIDE DEF b, e, n, lba, left
<1>6. CASE e - b < SectorsAtOnce
  <2>1. n = e - b /\ lba = b /\ left.begin_lba = left.end_lba
    BY <1>1, <1>3, <1>4, <1>6
  <2>2. ~Aligned(e)
    BY <1>1, <1>5, <1>6
  <2>3. n < SectorsAtOnce /\ lba + n = EndLba
    BY <1>1, <1>2, <1>6, <2>1, <2>2
  <2>4. Empty(left)
    BY <2>1 DEF Empty
  <2> QED
    BY <2>3, <2>4 DEF b, e, n, lba, left
<1>7. CASE ~(e - b < SectorsAtOnce)
  <2>1. n = SectorsAtOnce
    BY <1>3, <1>7
  <2>2. CASE rev
    <3>1. Aligned(left.begin_lba) /\ left.end_lba = lba
      BY <1>2, <1>3, <1>4, <2>2
    <3>2. Aligned(left.end_lba)
      BY <3>1 DEF lba
    <3>3. ZoneAligned(left)
      BY <3>1, <3>2 DEF ZoneAligned
    <3> QED
      BY <2>1, <3>3 DEF left, n
  <2>3. CASE ~rev
    <3>1. left.begin_lba = b + SectorsAtOnce /\ left.end_lba = e
      BY <1>4, <2>1, <2>3
    <3>2. ZoneAligned(left)
      BY <1>2, <1>5, <3>1 DEF ZoneAligned
    <3> QED
      BY <2>1, <3>2 DEF left, n
  <2> QED
    BY <2>2, <2>3
<1> QED
  BY <1>6, <1>7

(* Where nothing straddles, the block in work is a block of the map.       *)
LEMMA WholeBlock ==
  ASSUME IndInv, InTask, AlignedInv, use_journal, ~straddled
  PROVE  /\ lba_to_read \in Lbas /\ Aligned(lba_to_read)
         /\ \A l \in Lbas : l \in Block <=> MapBlock(l) = MapBlock(lba_to_read)
         /\ \A l \in Lbas : l \in Block <=> l - (l % SectorsAtOnce) = lba_to_read
<1> DEFINE zone == unread_zones[current_zone]
           n == sectors_to_read
           b == lba_to_read
<1>1. /\ current_zone \in 1 .. Len(unread_zones)
      /\ zone \in Zone /\ zone.begin_lba < zone.end_lba
      /\ n = BlockSize(zone) /\ b = BlockStart(zone, reversive)
      /\ n \in Nat /\ n > 0
  BY CurrentBlock
<1>2. b \in Lbas
  BY BlockOfTask
<1>3. Aligned(b) /\ ZonesAligned(unread_zones)
  BY DEF AlignedInv
<1>4. ZoneAligned(zone) /\ zone.end_lba <= EndLba
  BY <1>1, <1>3, ListFacts, ZoneElements, WellFormedElements DEF ZonesAligned
<1>5. reversive \in BOOLEAN /\ FALSE \in BOOLEAN
  BY DEF IndInv, TypeOK
<1> HIDE DEF zone
<1>6. n = SectorsAtOnce \/ (n < SectorsAtOnce /\ b + n = EndLba)
  BY <1>1, <1>3, <1>4, <1>5, TrimAligned
<1>7. ASSUME NEW l \in Lbas
      PROVE  l \in Block <=> b <= l /\ l < b + SectorsAtOnce
  BY <1>1, <1>2, <1>6, <1>7, SectorsAtOnceAssumption, EndLbaAssumption DEF Block, Lbas
<1> QED
  BY <1>2, <1>3, <1>7, AlignedBlock

(* Recording a whole block of the map keeps its sectors alike.             *)
LEMMA WriteJournalUniform ==
  ASSUME IndInv, UniformInv, AlignedInv, WriteJournal, straddled' = straddled
  PROVE  UniformInv'
<1> SUFFICES ASSUME ~straddled, NEW l \in Lbas
             PROVE  journal'[l] = journal'[l - (l % SectorsAtOnce)]
  BY DEF UniformInv, Lbas
<1> DEFINE first == l - (l % SectorsAtOnce)
<1>1. /\ use_journal /\ InTask
      /\ journal' = [k \in Lbas |-> IF k \in Block THEN RecordedStatus ELSE journal[k]]
  BY DEF WriteJournal, InTask, IndInv, PhaseInv
<1>2. /\ l \in Block <=> first = lba_to_read
      /\ first \in Lbas
      /\ first \in Block <=> MapBlock(first) = MapBlock(lba_to_read)
      /\ l \in Block <=> MapBlock(l) = MapBlock(lba_to_read)
  BY <1>1, WholeBlock, BlockOfSector
<1>3. MapBlock(first) = MapBlock(l)
  <2>1. MapBlock(l) \in MapBlocks /\ MapBlock(l) * SectorsAtOnce = first
    BY BlockOfSector
  <2> QED
    BY <2>1, FirstOfBlock
<1>4. journal[l] = journal[first]
  BY DEF UniformInv
<1> HIDE DEF first
<1>5. journal'[l] = journal'[first]
  BY <1>1, <1>2, <1>3, <1>4
<1> QED
  BY <1>5 DEF first

(* A strategy leaves the list as it is, or cuts a zone at a block.         *)
LEMMA TaskCuts ==
  ASSUME IndInv, GetTask
  PROVE  \/ unread_zones' = unread_zones
         \/ \E i \in 1 .. Len(unread_zones), at \in Nat :
              Aligned(at) /\ unread_zones' = Split(unread_zones, i, at)
<1>1. /\ unread_zones \in Seq(Zone)
      /\ DOMAIN unread_zones = 1 .. Len(unread_zones)
      /\ \A i \in 1 .. Len(unread_zones) : unread_zones[i] \in Zone
  BY ListFacts, ZoneElements
<1>2. CASE PlainGetTask
  BY <1>2 DEF PlainGetTask, GiveTask
<1>3. CASE SmartGetTask
  <2>1. \/ unread_zones' = unread_zones
        \/ SmartSplit
    BY <1>3 DEF SmartGetTask, ProceedCurrent, GiveTask, SmartGoSequential
  <2>2. CASE SmartSplit
    <3> DEFINE half(i) == ZoneLength(unread_zones[i]) \div 2
    <3>1. PICK i \in 1 .. Len(unread_zones) :
            /\ MaySplit(unread_zones[i])
            /\ unread_zones' = Split(unread_zones, i, JumpTarget(unread_zones[i], half(i)))
      BY <1>1, <2>2 DEF SmartSplit, GiveTask
    <3>2. half(i) \in Nat
      <4>1. ZoneLength(unread_zones[i]) > IndivisibleZone /\ IndivisibleZone \in Nat
        BY <3>1, IndivisibleZoneAssumption DEF MaySplit
      <4>2. ZoneLength(unread_zones[i]) \in Int
        BY <1>1 DEF ZoneLength, Zone
      <4> HIDE DEF half
      <4>3. ZoneLength(unread_zones[i]) \in Nat
        BY <4>1, <4>2
      <4> QED
        BY <4>3 DEF half
    <3> HIDE DEF half
    <3>3. /\ JumpTarget(unread_zones[i], half(i)) \in Nat
          /\ Aligned(JumpTarget(unread_zones[i], half(i)))
      BY <1>1, <3>2, JumpAligned
    <3> QED
      BY <3>1, <3>3
  <2> QED
    BY <2>1, <2>2
<1>4. CASE SkipfailGetTask
  <2> DEFINE at(i) == JumpTarget(unread_zones[i], SkipSectors)
  <2>1. \/ unread_zones' = unread_zones
        \/ \E i \in 1 .. Len(unread_zones) : unread_zones' = Split(unread_zones, i, at(i))
    BY <1>1, <1>4 DEF SkipfailGetTask, ProceedCurrent, GiveTask
  <2>2. SkipSectors \in Nat
    <3>1. skip_blocks \in Nat /\ SectorsAtOnce \in Nat
      BY SectorsAtOnceAssumption DEF IndInv, TypeOK
    <3> QED
      BY <3>1, ProductStep DEF SkipSectors
  <2>3. \A i \in 1 .. Len(unread_zones) : at(i) \in Nat /\ Aligned(at(i))
    BY <1>1, <2>2, JumpAligned
  <2> HIDE DEF at
  <2> QED
    BY <2>1, <2>3
<1> QED
  BY <1>2, <1>3, <1>4 DEF GetTask

(* Taking the block off its zone.                                          *)
LEMMA UseResultsAligned ==
  ASSUME IndInv, UseResults, ZonesAligned(unread_zones), Aligned(lba_to_read)
  PROVE  ZonesAligned(unread_zones')
<1> DEFINE zone == unread_zones[current_zone]
           left == Trim(zone, reversive, sectors_to_read, Failed)
           z == unread_zones
           n == Len(z)
<1>1. /\ z \in Seq(Zone) /\ n \in Nat /\ DOMAIN z = 1 .. n
      /\ current_zone \in 1 .. n
      /\ zone \in Zone /\ zone.begin_lba < zone.end_lba /\ zone.end_lba <= EndLba
      /\ sectors_to_read = BlockSize(zone)
      /\ lba_to_read = BlockStart(zone, reversive)
  <2>1. InTask
    BY DEF UseResults, InTask
  <2> QED
    BY <2>1, CurrentBlock, ListFacts, ZoneElements, WellFormedElements
<1>2. \A j \in 1 .. n : ZoneAligned(z[j])
  BY <1>1 DEF ZonesAligned
<1>3. Failed \in BOOLEAN /\ reversive \in BOOLEAN
  BY DEF Failed, IndInv, TypeOK
<1>4. ZoneAligned(zone)
  BY <1>1, <1>2
<1>5. unread_zones' = IF Empty(left) THEN RemoveAt(z, current_zone)
                      ELSE [z EXCEPT ![current_zone] = left]
  BY DEF UseResults
<1>6. (Empty(left) \/ ZoneAligned(left)) /\ left \in Zone
  <2> HIDE DEF zone
  <2>1. (Empty(left) \/ ZoneAligned(left))
    BY <1>1, <1>3, <1>4, TrimAligned
  <2>2. left \in Zone
    BY <1>1, <1>3, TrimmedZone
  <2> QED
    BY <2>1, <2>2
<1> HIDE DEF left, zone
<1>7. CASE Empty(left)
  <2> DEFINE w == RemoveAt(z, current_zone)
  <2>1. /\ w \in Seq(Zone) /\ Len(w) = n - 1
        /\ \A j \in 1 .. n - 1 : w[j] = IF j < current_zone THEN z[j] ELSE z[j + 1]
    BY <1>1, RemoveAtElements
  <2>2. DOMAIN w = 1 .. n - 1
    BY <2>1, ZoneElements
  <2>3. \A j \in 1 .. n - 1 : j \in 1 .. n /\ j + 1 \in 1 .. n
    BY <1>1
  <2> HIDE DEF w, z, n
  <2>4. \A j \in 1 .. n - 1 : ZoneAligned(w[j])
    BY <1>2, <2>1, <2>3
  <2>5. ZonesAligned(w)
    BY <2>2, <2>4 DEF ZonesAligned
  <2> QED
    BY <1>5, <1>7, <2>5 DEF w, z
<1>8. CASE ~Empty(left)
  <2> DEFINE w == [z EXCEPT ![current_zone] = left]
  <2>1. DOMAIN w = 1 .. n /\ \A j \in 1 .. n : w[j] = IF j = current_zone THEN left ELSE z[j]
    BY <1>1
  <2> HIDE DEF w, n
  <2>2. \A j \in 1 .. n : ZoneAligned(w[j])
    BY <1>2, <1>6, <1>8, <2>1
  <2>3. ZonesAligned(w)
    BY <2>1, <2>2 DEF ZonesAligned
  <2> QED
    BY <1>5, <1>8, <2>3 DEF w
<1> QED
  BY <1>7, <1>8

LEMMA LoopAligned == IndInv /\ AlignedInv /\ LoopStep => AlignedInv'
<1> SUFFICES ASSUME IndInv, AlignedInv, LoopStep, use_journal', ~straddled'
             PROVE  /\ ZonesAligned(unread_zones')
                    /\ InTask' => Aligned(lba_to_read')
                    /\ pc' # "scan"
  BY DEF AlignedInv
<1> USE DEF config
<1>1. /\ use_journal /\ ~straddled
      /\ pc' = "read" => Aligned(lba_to_read')
      /\ ZonesAligned(unread_zones)
      /\ InTask => Aligned(lba_to_read)
  BY LoopCases DEF AlignedInv
<1>2. CASE GetTask
  <2>1. pc' = "read"
    BY <1>2 DEF GetTask
  <2>2. ZonesAligned(unread_zones')
    BY <1>1, <1>2, TaskCuts, SplitAligned, ListFacts
  <2> QED
    BY <1>1, <2>1, <2>2
<1>3. CASE NoTask \/ RefuseBlock \/ LoopFinished \/ LoopInterrupted
  <2>1. unread_zones' = unread_zones /\ pc' \in {"callback", "closing"}
    BY <1>3 DEF NoTask, RefuseBlock, Return, LoopFinished, LoopInterrupted, zoneVars
  <2> QED
    BY <1>1, <2>1 DEF InTask
<1>4. CASE (\E how \in ReadResults : Read(how)) \/ Write \/ WriteJournal
  <2>1. /\ unread_zones' = unread_zones /\ lba_to_read' = lba_to_read
        /\ InTask /\ pc' # "scan"
    BY <1>4 DEF Read, Write, WriteJournal, RecordNext, zoneVars, task, InTask
  <2> QED
    BY <1>1, <2>1
<1>5. CASE UseResults
  <2>1. pc' = "callback" /\ InTask
    BY <1>5 DEF UseResults, Return, InTask
  <2> QED
    BY <1>1, <1>5, <2>1, UseResultsAligned DEF InTask
<1> QED
  BY <1>2, <1>3, <1>4, <1>5, LoopCases

(* Inside a block of the map two neighbours have the same first sector.    *)
LEMMA NeighboursAlike ==
  ASSUME UniformInv, ~straddled, NEW l \in Lbas, l > 0, ~Aligned(l)
  PROVE  l - 1 \in Lbas /\ journal[l - 1] = journal[l]
<1> DEFINE b == l - (l % SectorsAtOnce)
<1>1. /\ l \in Nat /\ l < EndLba /\ EndLba \in Nat /\ SectorsAtOnce \in Nat
      /\ l % SectorsAtOnce \in 0 .. SectorsAtOnce - 1 /\ l % SectorsAtOnce # 0
      /\ b \in Lbas
  <2>1. l % SectorsAtOnce \in 0 .. SectorsAtOnce - 1 /\ b \in Lbas
    BY BlockOfSector
  <2>2. l % SectorsAtOnce # 0
    BY DEF Aligned
  <2>3. l \in Nat /\ l < EndLba /\ EndLba \in Nat /\ SectorsAtOnce \in Nat
    BY EndLbaAssumption, SectorsAtOnceAssumption DEF Lbas
  <2> QED
    BY <2>1, <2>2, <2>3
<1>2. Aligned(b)
  <2>1. MapBlock(l) \in MapBlocks /\ MapBlock(l) * SectorsAtOnce = b
    BY BlockOfSector
  <2> QED
    BY <2>1, FirstOfBlock
<1>3. l - 1 \in Lbas /\ b \in Nat /\ b <= l - 1 /\ l < b + SectorsAtOnce
  BY <1>1 DEF Lbas
<1>4. l - 1 < b + SectorsAtOnce
  BY <1>1, <1>3
<1>5. (l - 1) - ((l - 1) % SectorsAtOnce) = b
  <2> HIDE DEF b
  <2> QED
    BY <1>1, <1>2, <1>3, <1>4, AlignedBlock
<1> QED
  BY <1>3, <1>5 DEF UniformInv

(* A zone found in the journal goes from block to block of the map.        *)
LEMMA AppendAligned ==
  ASSUME NEW z \in Seq(Zone), ZonesAligned(z), NEW zone \in Zone, ZoneAligned(zone)
  PROVE  ZonesAligned(Append(z, zone))
<1>1. /\ Len(z) \in Nat /\ DOMAIN z = 1 .. Len(z)
      /\ Append(z, zone) \in Seq(Zone) /\ Len(Append(z, zone)) = Len(z) + 1
      /\ \A i \in 1 .. Len(z) : Append(z, zone)[i] = z[i]
      /\ Append(z, zone)[Len(z) + 1] = zone
  BY ZoneElements, AppendProperties
<1>2. DOMAIN Append(z, zone) = 1 .. Len(z) + 1
  BY <1>1, ZoneElements
<1>3. \A i \in 1 .. Len(z) + 1 : i \in 1 .. Len(z) \/ i = Len(z) + 1
  BY <1>1
<1> QED
  BY <1>1, <1>2, <1>3 DEF ZonesAligned

LEMMA NoZonesAligned == ZonesAligned(<<>>)
BY DEF ZonesAligned

LEMMA ScanAligned ==
  ASSUME IndInv, UniformInv, AlignedInv, ScanSector \/ ScanEnd, ~straddled,
         straddled' = straddled
  PROVE  AlignedInv'
<1>1. /\ pc = "scan" /\ use_journal /\ unread_zones \in Seq(Zone)
      /\ scan_lba \in Nat /\ scan_lba <= EndLba /\ EndLba \in Nat
      /\ scan_begin # -1 => scan_begin \in Nat /\ scan_begin < scan_lba
      /\ \A l \in 0 .. scan_lba - 1 :
           journal[l] = "Unread"
             <=> l \in UnreadSectors(unread_zones) \/ (scan_begin # -1 /\ scan_begin <= l)
  <2>1. pc = "scan"
    BY DEF ScanSector, ScanEnd
  <2> QED
    BY <2>1, Scanning
<1>2. /\ ZonesAligned(unread_zones)
      /\ scan_begin # -1 => Aligned(scan_begin)
      /\ scan_begin = -1 /\ scan_lba > 0 => journal[scan_lba - 1] # "Unread"
  BY <1>1 DEF AlignedInv
<1>3. scan_begin # -1 => journal[scan_lba - 1] = "Unread"
  <2> SUFFICES ASSUME scan_begin # -1 PROVE journal[scan_lba - 1] = "Unread"
    OBVIOUS
  <2>1. scan_lba - 1 \in 0 .. scan_lba - 1 /\ scan_begin <= scan_lba - 1
    BY <1>1
  <2> QED
    BY <1>1, <2>1
<1>4. ASSUME NEW e \in Nat, NEW defective \in BOOLEAN, scan_begin # -1,
             Aligned(e) \/ e = EndLba, AppendZone(e, defective)
      PROVE  ZonesAligned(unread_zones') /\ scan_begin' = -1
  <2> DEFINE zone == [begin_lba |-> scan_begin, end_lba |-> e,
                      begin_lba_defective |-> scan_defective,
                      end_lba_defective |-> defective]
  <2>1. scan_defective \in BOOLEAN
    BY DEF IndInv, TypeOK
  <2>2. zone \in Zone /\ zone.begin_lba = scan_begin /\ zone.end_lba = e
    BY <1>1, <1>4, <2>1 DEF Zone
  <2>3. unread_zones' = Append(unread_zones, zone) /\ scan_begin' = -1
    BY <1>4 DEF AppendZone
  <2> HIDE DEF zone
  <2>4. ZoneAligned(zone)
    BY <1>2, <1>4, <2>2 DEF ZoneAligned
  <2> QED
    BY <1>1, <1>2, <2>2, <2>3, <2>4, AppendAligned
<1>5. CASE ScanSector
  <2>1. /\ scan_lba < EndLba /\ scan_lba' = scan_lba + 1 /\ pc' = "scan"
        /\ journal' = journal /\ scan_lba \in Lbas /\ scan_lba' > 0 /\ scan_lba' - 1 = scan_lba
    BY <1>1, <1>5 DEF ScanSector, persistent, Lbas
  <2>2. /\ ZonesAligned(unread_zones')
        /\ scan_begin' # -1 => Aligned(scan_begin')
        /\ scan_begin' = -1 => journal[scan_lba] # "Unread"
    <3>1. CASE /\ journal[scan_lba] = "Unread" /\ scan_begin = -1
               /\ scan_begin' = scan_lba /\ UNCHANGED <<unread_zones, den>>
      <4>1. Aligned(scan_lba)
        <5>1. CASE scan_lba = 0
          BY <5>1, AlignedZero
        <5>2. CASE scan_lba # 0
          <6>1. scan_lba > 0 /\ journal[scan_lba - 1] # "Unread"
            BY <1>1, <1>2, <3>1, <5>2
          <6> QED
            BY <2>1, <3>1, <6>1, NeighboursAlike
        <5> QED
          BY <5>1, <5>2
      <4>2. scan_lba # -1
        BY <1>1
      <4> QED
        BY <1>2, <3>1, <4>1, <4>2
    <3>2. CASE /\ journal[scan_lba] # "Unread" /\ scan_begin # -1
               /\ AppendZone(scan_lba, Defective(journal[scan_lba]))
      <4>1. scan_lba > 0
        BY <1>1, <3>2
      <4>2. Aligned(scan_lba)
        BY <1>3, <2>1, <3>2, <4>1, NeighboursAlike
      <4>3. Defective(journal[scan_lba]) \in BOOLEAN
        BY DEF Defective
      <4> QED
        BY <1>1, <1>4, <3>2, <4>2, <4>3
    <3>3. CASE /\ (journal[scan_lba] = "Unread") = (scan_begin # -1)
               /\ UNCHANGED <<scan_begin, scan_defective, unread_zones, den>>
      BY <1>2, <3>3
    <3> QED
      BY <1>5, <3>1, <3>2, <3>3 DEF ScanSector
  <2>3. ~InTask'
    BY <2>1 DEF InTask
  <2> QED
    BY <2>1, <2>2, <2>3 DEF AlignedInv
<1>6. CASE ScanEnd
  <2>1. scan_lba = EndLba /\ pc' = "loop"
    BY <1>6 DEF ScanEnd
  <2>2. ZonesAligned(unread_zones')
    <3>1. CASE scan_begin # -1
      <4>1. AppendZone(EndLba, FALSE) /\ FALSE \in BOOLEAN
        BY <1>6, <3>1 DEF ScanEnd
      <4> QED
        BY <1>1, <1>4, <3>1, <4>1
    <3>2. CASE scan_begin = -1
      BY <1>2, <1>6, <3>2 DEF ScanEnd
    <3> QED
      BY <3>1, <3>2
  <2> QED
    BY <2>1, <2>2 DEF AlignedInv, InTask
<1> QED
  BY <1>5, <1>6

LEMMA OpeningAligned ==
  IndInv /\ UniformInv /\ AlignedInv /\ OpeningStep => AlignedInv'
<1> SUFFICES ASSUME IndInv, UniformInv, AlignedInv, OpeningStep PROVE AlignedInv'
  OBVIOUS
<1>1. straddled' = straddled
  BY DEF OpeningStep
<1> SUFFICES ASSUME ~straddled PROVE AlignedInv'
  BY <1>1 DEF AlignedInv
<1>2. ZonesAligned(<<FreshZone(0, EndLba)>>)
  <2>1. <<FreshZone(0, EndLba)>>[1].begin_lba = 0 /\ <<FreshZone(0, EndLba)>>[1].end_lba = EndLba
    BY DEF FreshZone
  <2>2. DOMAIN <<FreshZone(0, EndLba)>> = {1}
    OBVIOUS
  <2> QED
    BY <2>1, <2>2, AlignedZero DEF ZonesAligned, ZoneAligned
<1>3. CASE OpenRefused
  BY <1>1, <1>3 DEF OpenRefused, AlignedInv, InTask, IndInv, PhaseInv, NoSession, config
<1>4. ASSUME NEW s \in Strategies, OpenWithoutJournal(s) PROVE AlignedInv'
  BY <1>4 DEF OpenWithoutJournal, OpenContext, AlignedInv
<1>5. ASSUME NEW s \in Strategies, OpenNewJournal(s) PROVE AlignedInv'
  BY <1>2, <1>5 DEF OpenNewJournal, AlignedInv, InTask
<1>6. ASSUME NEW s \in Strategies, OpenJournal(s) PROVE AlignedInv'
  <2>1. scan_lba = 0 /\ scan_begin = -1 /\ scan_lba' = scan_lba /\ scan_begin' = scan_begin
        /\ unread_zones' = <<>> /\ pc' = "scan"
    BY <1>6 DEF OpenJournal, OpenContext, IndInv, PhaseInv, NoSession, scanVars
  <2> QED
    BY <2>1, NoZonesAligned DEF AlignedInv, InTask
<1>7. CASE FillJournal
  BY <1>1, <1>7 DEF FillJournal, AlignedInv, InTask, config, zoneVars
<1>8. CASE ScanSector \/ ScanEnd
  BY <1>1, <1>8, ScanAligned
<1> QED
  BY <1>3, <1>4, <1>5, <1>6, <1>7, <1>8 DEF OpeningStep, Open

-----------------------------------------------------------------------------
(* Opening the procedure, and the display.                                 *)

LEMMA OpeningInv == IndInv /\ DisplayInv /\ OpeningStep => DisplayInv'
<1> SUFFICES ASSUME IndInv, DisplayInv, OpeningStep PROVE DisplayInv'
  OBVIOUS
<1>1. /\ ~display /\ UNCHANGED <<displayVars, straddled>>
      /\ Open \/ FillJournal \/ ScanSector \/ ScanEnd
  BY DEF OpeningStep
<1>2. /\ UNCHANGED <<num, handled, report, journal>>
      /\ pc \in {"closed", "create", "scan"} /\ pc' \in {"closed", "create", "scan", "loop"}
  BY <1>1 DEF Open, OpenRefused, OpenWithoutJournal, OpenNewJournal, OpenJournal,
    OpenContext, FillJournal, ScanSector, ScanEnd, persistent, progress, outcome
<1>3. num = 0
  BY <1>2 DEF IndInv, PhaseInv, NoSession
<1>4. ShownInv'
  BY <1>1, <1>2, <1>3 DEF ShownInv, displayVars
<1>5. TallyInv'
  <2>1. TallyInv /\ ~(pc = "closing") /\ ~(pc' = "closing")
    BY <1>2 DEF DisplayInv
  <2>2. MapBlocks' = MapBlocks
    BY DEF MapBlocks, nb_blocks
  <2> QED
    BY <1>1, <1>2, <2>1, <2>2 DEF TallyInv, displayVars
<1>6. ReportInv'
  BY <1>2 DEF ReportInv
<1>7. FreshInv' /\ MatchInv' /\ MapInv' /\ DueInv'
  BY <1>1 DEF FreshInv, MatchInv, MapInv, DueInv, Comparable, displayVars
<1>8. UniformInv'
  BY <1>1, <1>2 DEF DisplayInv, UniformInv, Lbas
<1>9. AlignedInv'
  BY OpeningAligned DEF DisplayInv
<1> QED
  BY <1>4, <1>5, <1>6, <1>7, <1>8, <1>9 DEF DisplayInv

(* What a session that uses the journal seeds the counters with.           *)
BlocksWith(statuses) == { i \in MapBlocks : SampledStatus(i) \in statuses }
SectorsWith(statuses) == { l \in Lbas : journal[l] \in statuses }

(* In a journal without straddling the sectors of the blocks that begin    *)
(* with a verdict are those that have it.                                  *)
LEMMA SampledSectors ==
  ASSUME UniformInv, ~straddled, NEW statuses
  PROVE  SectorsIn(BlocksWith(statuses)) = SectorsWith(statuses)
<1>1. ASSUME NEW l \in Lbas
      PROVE  MapBlock(l) \in BlocksWith(statuses) <=> journal[l] \in statuses
  <2>1. /\ MapBlock(l) \in MapBlocks
        /\ SampledStatus(MapBlock(l)) = journal[l - (l % SectorsAtOnce)]
    BY BlockOfSector DEF SampledStatus
  <2>2. journal[l] = journal[l - (l % SectorsAtOnce)]
    BY DEF UniformInv
  <2> QED
    BY <2>1, <2>2 DEF BlocksWith
<1> QED
  BY <1>1 DEF SectorsIn, SectorsWith

Undecided == SectorsWith({"Unread"})
Good == SectorsWith({"ReadOk"})
Bad == SectorsWith({"BlockReadError", "SectorReadError"})

LEMMA VerdictSets ==
  /\ { l \in Lbas : journal[l] = "Unread" } = Undecided
  /\ { l \in Lbas : journal[l] = "ReadOk" } = Good
  /\ { l \in Lbas : Defective(journal[l]) } = Bad
BY DEF Undecided, Good, Bad, SectorsWith, Defective

LEMMA OpenDisplayCounts ==
  ASSUME OpenDisplay, use_journal
  PROVE  /\ unread_count' = SectorsOf(BlocksWith({"Unread"}))
         /\ read_ok_count' = SectorsOf(BlocksWith({"ReadOk"}))
         /\ errors_count' = SectorsOf(BlocksWith({"BlockReadError", "SectorReadError"}))
         /\ blocks_map' = [i \in MapBlocks |-> SampledStatus(i)]
<1>1. /\ { i \in MapBlocks : SampledStatus(i) = "Unread" } = BlocksWith({"Unread"})
      /\ { i \in MapBlocks : SampledStatus(i) = "ReadOk" } = BlocksWith({"ReadOk"})
      /\ { i \in MapBlocks : Defective(SampledStatus(i)) }
           = BlocksWith({"BlockReadError", "SectorReadError"})
  BY DEF BlocksWith, Defective
<1> QED
  BY <1>1 DEF OpenDisplay, SeededUnread

(* A device none of which is decided yet.                                  *)
LEMMA FreshJournal ==
  ASSUME IndInv, pc = "loop", num = 0, den = EndLba, use_journal
  PROVE  \A l \in Lbas : journal[l] = "Unread"
<1> DEFINE U == UnreadSectors(unread_zones)
<1>1. Cardinality(U) = EndLba
  <2>1. num + Cardinality(U) = den /\ Cardinality(U) \in Nat
    BY ListFacts, UnreadFinite DEF IndInv, ProgressAccounts, InSession
  <2> HIDE DEF U
  <2> QED
    BY <2>1, EndLbaAssumption
<1>2. U \in SUBSET Lbas
  BY ListFacts, UnreadFinite DEF Lbas
<1> HIDE DEF U
<1>3. U = Lbas
  BY <1>1, <1>2, LbasFinite, FS_Subset
<1> QED
  BY <1>3 DEF U, IndInv, JournalMatchesZones, InSession

LEMMA OpenDisplayFresh ==
  ASSUME IndInv, CountInv, DisplayInv, OpenDisplay
  PROVE  FreshInv'
<1>1. /\ pc = "loop" /\ ~display /\ num = 0 /\ handled = 0
      /\ UNCHANGED <<vars, straddled>>
  BY DEF OpenDisplay, DisplayInv, ShownInv, CountInv
<1>2. /\ handled' = 0 /\ den' = den /\ use_journal' = use_journal
  BY <1>1 DEF vars, progress, config
<1> SUFFICES ASSUME den = EndLba, use_journal => EndLba % SectorsAtOnce # 0
             PROVE  unread_count' = EndLba /\ read_ok_count' = 0 /\ errors_count' = 0
  BY <1>2, EndLbaAssumption DEF FreshInv
<1>3. CASE ~use_journal
  BY <1>3 DEF OpenDisplay
<1>4. CASE use_journal
  <2>1. \A l \in Lbas : journal[l] = "Unread"
    BY <1>1, <1>4, FreshJournal
  <2>2. \A i \in MapBlocks : SampledStatus(i) = "Unread"
    BY <2>1, FirstOfBlock DEF SampledStatus
  <2>3. /\ BlocksWith({"Unread"}) = MapBlocks
        /\ BlocksWith({"ReadOk"}) = {}
        /\ BlocksWith({"BlockReadError", "SectorReadError"}) = {}
    BY <2>2 DEF BlocksWith
  <2>4. SectorsIn(MapBlocks) = Lbas
    BY BlockOfSector DEF SectorsIn
  <2>5. SectorsOf(MapBlocks) = EndLba
    BY <1>4, <2>4, CountedBlocks, LbasFinite
  <2> QED
    BY <1>4, <2>3, <2>5, OpenDisplayCounts, NoBlocks
<1> QED
  BY <1>3, <1>4

LEMMA OpenDisplayInv == IndInv /\ CountInv /\ DisplayInv /\ OpenDisplay => DisplayInv'
<1> SUFFICES ASSUME IndInv, CountInv, DisplayInv, OpenDisplay PROVE DisplayInv'
  OBVIOUS
<1>1. /\ pc = "loop" /\ display' = TRUE /\ UNCHANGED <<vars, straddled>>
  BY DEF OpenDisplay
<1>2. /\ UNCHANGED <<journal, pc, result, num, den, handled, report, use_journal,
                     unread_zones, lba_to_read, sectors_to_read, error_flag,
                     scan_lba, scan_begin, perform_ret>>
  BY <1>1 DEF vars, persistent, config, zoneVars, progress, scanVars, task, outcome
<1>3. /\ journal \in [Lbas -> SectorStatus] /\ den \in Nat /\ handled \in Nat
      /\ num \in Nat
  BY DEF IndInv, TypeOK
<1>4. ShownInv'
  BY <1>1, <1>2 DEF ShownInv, InSession
<1>5. ReportInv' /\ DueInv'
  BY <1>1, <1>2 DEF ReportInv, DueInv, Due
<1>6. UniformInv'
  BY <1>1, <1>2 DEF DisplayInv, UniformInv, Lbas
<1>7. AlignedInv'
  BY <1>1, <1>2 DEF DisplayInv, AlignedInv, InTask
<1>8. TallyInv'
  <2>1. den <= EndLba
    <3>1. /\ num + Cardinality(UnreadSectors(unread_zones)) = den
          /\ UnreadSectors(unread_zones) \in SUBSET Lbas
          /\ num = 0
      BY <1>1, ListFacts, UnreadFinite
      DEF IndInv, ProgressAccounts, InSession, Lbas, DisplayInv, ShownInv, OpenDisplay
    <3>2. Cardinality(UnreadSectors(unread_zones)) <= EndLba
      BY <3>1, LbasFinite, FS_Subset
    <3>3. Cardinality(UnreadSectors(unread_zones)) \in Nat
      BY ListFacts, UnreadFinite
    <3> QED
      BY <3>1, <3>2, <3>3, EndLbaAssumption
  <2>2. /\ unread_count' \in 0 .. EndLba
        /\ read_ok_count' \in 0 .. EndLba /\ errors_count' \in 0 .. EndLba
        /\ blocks_map' \in [MapBlocks -> SectorStatus]
    <3>1. CASE use_journal
      <4>1. \A i \in MapBlocks : SampledStatus(i) \in SectorStatus
        BY <1>3, FirstOfBlock DEF SampledStatus
      <4>2. blocks_map' \in [MapBlocks -> SectorStatus]
        BY <3>1, <4>1, OpenDisplayCounts
      <4>3. \A s : BlocksWith(s) \in SUBSET MapBlocks
        BY DEF BlocksWith
      <4> QED
        BY <3>1, <4>2, <4>3, OpenDisplayCounts, CountedBlocks
    <3>2. CASE ~use_journal
      <4>1. unread_count' = den /\ read_ok_count' = 0 /\ errors_count' = 0
            /\ blocks_map' = [i \in MapBlocks |-> "Unread"]
        BY <3>2 DEF OpenDisplay
      <4>2. blocks_map' \in [MapBlocks -> SectorStatus]
        BY <4>1 DEF SectorStatus
      <4> QED
        BY <1>3, <2>1, <4>1, <4>2, EndLbaAssumption
    <3> QED
      BY <3>1, <3>2
  <2>3. /\ unread_count' \in 0 .. CountModulus - 1
        /\ read_ok_count' \in 0 .. EndLba + handled
        /\ errors_count' \in 0 .. EndLba + handled
    BY <1>3, <2>2, EndLbaAssumption, CountModulusAssumption
  <2>4. MapBlocks' = MapBlocks /\ TallyInv
    BY DEF MapBlocks, nb_blocks, DisplayInv
  <2> QED
    BY <1>1, <1>2, <2>1, <2>2, <2>3, <2>4 DEF TallyInv
<1>9. FreshInv'
  BY OpenDisplayFresh
<1>10. MatchInv'
  <2> SUFFICES ASSUME use_journal, ~straddled, EndLba % SectorsAtOnce # 0
               PROVE  /\ unread_count' = Cardinality(Undecided)
                      /\ read_ok_count' = Cardinality(Good)
                      /\ errors_count' = Cardinality(Bad)
    <3>1. /\ Cardinality(Undecided) \in Nat /\ Cardinality(Good) \in Nat
          /\ Cardinality(Bad) \in Nat
      <4>1. Undecided \in SUBSET Lbas /\ Good \in SUBSET Lbas /\ Bad \in SUBSET Lbas
        BY DEF Undecided, Good, Bad, SectorsWith
      <4> QED
        BY <4>1, LbasFinite, FS_Subset, FS_CardinalityType
    <3>2. /\ { l \in Lbas' : journal'[l] = "Unread" } = Undecided
          /\ { l \in Lbas' : journal'[l] = "ReadOk" } = Good
          /\ { l \in Lbas' : Defective(journal'[l]) } = Bad
      BY <1>2, VerdictSets DEF Lbas
    <3>3. \A yes : Ahead(yes)' = 0
      BY <1>1, <1>2 DEF Ahead, Due
    <3>4. (Comparable /\ EndLba % SectorsAtOnce # 0)'
            => use_journal /\ ~straddled /\ EndLba % SectorsAtOnce # 0
      BY <1>1, <1>2 DEF Comparable
    <3> HIDE DEF Undecided
    <3>5. (Comparable /\ EndLba % SectorsAtOnce # 0)' =>
            /\ unread_count' = Cardinality(Undecided)
            /\ read_ok_count' = Cardinality(Good)
            /\ errors_count' = Cardinality(Bad)
            /\ unread_count' = unread_count' + 0 /\ read_ok_count' = read_ok_count' + 0
            /\ errors_count' = errors_count' + 0
      BY <3>1, <3>4
    <3> QED
      BY <3>2, <3>3, <3>5 DEF MatchInv
  <2>1. /\ BlocksWith({"Unread"}) \in SUBSET MapBlocks
        /\ BlocksWith({"ReadOk"}) \in SUBSET MapBlocks
        /\ BlocksWith({"BlockReadError", "SectorReadError"}) \in SUBSET MapBlocks
    BY DEF BlocksWith
  <2>2. UniformInv
    BY DEF DisplayInv
  <2> QED
    BY <2>1, <2>2, OpenDisplayCounts, CountedBlocks, SampledSectors DEF Undecided, Good, Bad
<1>11. MapInv'
  <2>1. ASSUME use_journal, NEW i \in MapBlocks
        PROVE  ShownAs(blocks_map'[i], journal[i * SectorsAtOnce])
    BY <2>1, OpenDisplayCounts DEF SampledStatus, ShownAs
  <2>2. ~Due' /\ MapBlocks' = MapBlocks
    BY <1>1, <1>2 DEF Due, MapBlocks, nb_blocks
  <2>3. Comparable' => use_journal
    BY <1>2 DEF Comparable
  <2> QED
    BY <1>2, <2>1, <2>2, <2>3 DEF MapInv, ShownAs
<1> QED
  BY <1>4, <1>5, <1>6, <1>7, <1>8, <1>9, <1>10, <1>11 DEF DisplayInv-----------------------------------------------------------------------------

(* A turn of the loop.                                                     *)

(* What MatchInv says, of the sets of sectors by verdict.                  *)
MatchSets ==
  (Comparable /\ EndLba % SectorsAtOnce # 0) =>
    /\ unread_count = Cardinality(Undecided) + Ahead(TRUE)
    /\ read_ok_count + Ahead(~Failed) = Cardinality(Good)
    /\ errors_count + Ahead(Failed) = Cardinality(Bad)

LEMMA MatchForm == MatchInv <=> MatchSets
BY VerdictSets DEF MatchInv, MatchSets

LEMMA VerdictsFinite ==
  /\ Undecided \in SUBSET Lbas /\ Good \in SUBSET Lbas /\ Bad \in SUBSET Lbas
  /\ \A S \in SUBSET Lbas : IsFiniteSet(S) /\ Cardinality(S) \in Nat
                              /\ Cardinality(S) <= EndLba
<1>1. \A S \in SUBSET Lbas : IsFiniteSet(S) /\ Cardinality(S) <= EndLba
  BY LbasFinite, FS_Subset
<1>2. \A S \in SUBSET Lbas : Cardinality(S) \in Nat
  BY <1>1, FS_CardinalityType
<1> QED
  BY <1>1, <1>2 DEF Undecided, Good, Bad, SectorsWith

(* Recording a block moves its sectors from one verdict to another.        *)
LEMMA VerdictsMove ==
  ASSUME IndInv, WriteJournal
  PROVE  /\ sectors_to_read \in Nat
         /\ Cardinality(Undecided) = Cardinality(Undecided') + sectors_to_read
         /\ Cardinality(Good') =
              Cardinality(Good) + IF error_flag THEN 0 ELSE sectors_to_read
         /\ Cardinality(Bad') =
              Cardinality(Bad) + IF error_flag THEN sectors_to_read ELSE 0
<1>1. /\ pc = "journal" /\ use_journal /\ InTask /\ InSession
      /\ journal' = [l \in Lbas |-> IF l \in Block THEN RecordedStatus ELSE journal[l]]
  BY DEF WriteJournal, IndInv, PhaseInv, InTask, InSession
<1>2. /\ Block \in SUBSET Lbas /\ sectors_to_read \in Nat
      /\ Cardinality(Block) = sectors_to_read
      /\ \A l \in Block : journal[l] = "Unread"
  <2>1. /\ Block \subseteq UnreadSectors(unread_zones) /\ sectors_to_read \in Nat
        /\ Cardinality(Block) = sectors_to_read
    BY <1>1, CurrentBlock
  <2>2. UnreadSectors(unread_zones) \subseteq Lbas
    BY ListFacts, UnreadFinite DEF Lbas
  <2>3. \A l \in Block : journal[l] = "Unread"
    BY <1>1, <2>1, <2>2 DEF IndInv, JournalMatchesZones
  <2> QED
    BY <2>1, <2>2, <2>3
<1>3. Lbas' = Lbas
  BY DEF Lbas
<1>4. error_flag \in BOOLEAN
  BY DEF IndInv, TypeOK
<1>5. /\ ~error_flag => RecordedStatus = "ReadOk"
      /\ error_flag => RecordedStatus \in {"BlockReadError", "SectorReadError"}
  BY DEF RecordedStatus
<1> DEFINE N == Block
<1>6. \A l \in Lbas : journal'[l] = IF l \in N THEN RecordedStatus ELSE journal[l]
  BY <1>1
<1> HIDE DEF N
<1>7. /\ N \in SUBSET Lbas /\ \A l \in N : journal[l] = "Unread"
      /\ Cardinality(N) = sectors_to_read /\ sectors_to_read \in Nat
  BY <1>2 DEF N
<1>8. /\ Undecided' = Undecided \ N
      /\ Good' = Good \cup (IF error_flag THEN {} ELSE N)
      /\ Bad' = Bad \cup (IF error_flag THEN N ELSE {})
  <2>1. \A l : /\ l \in Undecided' <=> l \in Lbas /\ journal'[l] = "Unread"
               /\ l \in Good' <=> l \in Lbas /\ journal'[l] = "ReadOk"
               /\ l \in Bad' <=> l \in Lbas /\ journal'[l] \in {"BlockReadError", "SectorReadError"}
    BY <1>3 DEF Undecided, Good, Bad, SectorsWith
  <2>2. \A l : /\ l \in Undecided <=> l \in Lbas /\ journal[l] = "Unread"
               /\ l \in Good <=> l \in Lbas /\ journal[l] = "ReadOk"
               /\ l \in Bad <=> l \in Lbas /\ journal[l] \in {"BlockReadError", "SectorReadError"}
    BY DEF Undecided, Good, Bad, SectorsWith
  <2>3. \A l : l \in Undecided' <=> l \in Undecided \ N
    BY <1>4, <1>5, <1>6, <1>7, <2>1, <2>2
  <2>4. \A l : l \in Good' <=> l \in Good \cup (IF error_flag THEN {} ELSE N)
    BY <1>4, <1>5, <1>6, <1>7, <2>1, <2>2
  <2>5. \A l : l \in Bad' <=> l \in Bad \cup (IF error_flag THEN N ELSE {})
    BY <1>4, <1>5, <1>6, <1>7, <2>1, <2>2
  <2> QED
    BY <2>3, <2>4, <2>5
<1>9. /\ N \subseteq Undecided /\ Good \cap N = {} /\ Bad \cap N = {}
  BY <1>7 DEF Undecided, Good, Bad, SectorsWith
<1>10. Cardinality(Undecided) = Cardinality(Undecided \ N) + sectors_to_read
  <2>1. Cardinality(Undecided \ N) = Cardinality(Undecided) - Cardinality(Undecided \cap N)
    BY VerdictsFinite, FS_Difference
  <2>2. Undecided \cap N = N
    BY <1>9
  <2>3. Cardinality(Undecided) \in Nat
    BY VerdictsFinite
  <2>4. Cardinality(Undecided \ N) = Cardinality(Undecided) - sectors_to_read
    BY <1>7, <2>1, <2>2
  <2> QED
    BY <1>7, <2>3, <2>4
<1>11. ASSUME NEW S \in SUBSET Lbas, S \cap N = {}
       PROVE  Cardinality(S \cup N) = Cardinality(S) + sectors_to_read
  <2>1. Cardinality(S \cup N) = Cardinality(S) + Cardinality(N) - Cardinality(S \cap N)
    BY <1>7, VerdictsFinite, FS_Union
  <2>2. Cardinality(S \cap N) = 0
    BY <1>11, FS_EmptySet
  <2> QED
    BY <1>7, <2>1, <2>2, VerdictsFinite
<1>12. Cardinality(Good') = Cardinality(Good) + IF error_flag THEN 0 ELSE sectors_to_read
  <2>1. CASE error_flag
    BY <1>8, <2>1, VerdictsFinite
  <2>2. CASE ~error_flag
    BY <1>8, <1>9, <1>11, <2>2, VerdictsFinite
  <2> QED
    BY <2>1, <2>2
<1>13. Cardinality(Bad') = Cardinality(Bad) + IF error_flag THEN sectors_to_read ELSE 0
  <2>1. CASE error_flag
    BY <1>8, <1>9, <1>11, <2>1, VerdictsFinite
  <2>2. CASE ~error_flag
    BY <1>8, <2>2, VerdictsFinite
  <2> QED
    BY <2>1, <2>2
<1> QED
  BY <1>7, <1>8, <1>10, <1>12, <1>13

(* What the turns other than recording and using the results leave alone.  *)
LEMMA QuietTurns ==
  ASSUME IndInv, LoopStep, ~WriteJournal, ~UseResults
  PROVE  /\ journal' = journal /\ num' = num
         /\ \/ GaveUp'
            \/ ~Due' \/ ~use_journal
<1>1. \/ GetTask \/ NoTask \/ RefuseBlock
      \/ \E how \in ReadResults : Read(how)
      \/ Write \/ LoopFinished \/ LoopInterrupted
  BY LoopCases
<1>2. CASE GetTask
  BY <1>2 DEF GetTask, Due, persistent, progress
<1>3. CASE NoTask \/ RefuseBlock
  BY <1>3 DEF NoTask, RefuseBlock, Return, GaveUp, persistent, progress
<1>4. CASE (\E how \in ReadResults : Read(how)) \/ Write
  <2>1. journal' = journal /\ num' = num /\ pc' \in {"write", RecordNext}
    BY <1>4 DEF Read, Write, PutSectors, persistent, progress
  <2> QED
    BY <2>1 DEF RecordNext, Due
<1>5. CASE LoopFinished \/ LoopInterrupted
  BY <1>5 DEF LoopFinished, LoopInterrupted, Due, persistent, progress
<1> QED
  BY <1>1, <1>2, <1>3, <1>4, <1>5

LEMMA QuietBefore == ASSUME LoopStep, ~WriteJournal, ~UseResults PROVE ~Due
<1>1. pc \notin {"callback", "closing"}
  BY LoopCases
<1>2. pc # "update"
  BY LoopCases DEF GetTask, MorePending, NoTask, RefuseBlock, Read, Write, LoopFinished,
    LoopInterrupted
<1> QED
  BY <1>1, <1>2 DEF Due

(* The map and the counters were held against the journal before the turn  *)
(* when they are after it.                                                 *)
LEMMA ComparableBefore ==
  LoopStep /\ Comparable' => Comparable /\ use_journal /\ ~straddled /\ ~WriteFaults
<1> SUFFICES ASSUME LoopStep, Comparable'
             PROVE  Comparable /\ use_journal /\ ~straddled /\ ~WriteFaults
  OBVIOUS
<1>1. display' /\ use_journal' /\ ~straddled' /\ ~WriteFaults
  BY DEF Comparable
<1>2. display /\ display' = display /\ use_journal' = use_journal
      /\ (straddled => straddled') /\ pc \notin {"callback", "closing"}
  BY LoopCases DEF displayVars, config
<1> QED
  BY <1>1, <1>2 DEF Comparable, GaveUp

LEMMA LoopShown == IndInv /\ DisplayInv /\ LoopStep => ShownInv'
<1> SUFFICES ASSUME IndInv, DisplayInv, LoopStep PROVE ShownInv'
  OBVIOUS
<1>1. display /\ display' = display /\ InSession
  BY LoopCases DEF displayVars, DisplayInv, ShownInv
<1>2. pc' \notin {"closed", "create", "scan"}
  BY LoopCases DEF GetTask, NoTask, RefuseBlock, Return, Read, Write, RecordNext,
    WriteJournal, UseResults, LoopFinished, LoopInterrupted
<1> QED
  BY <1>1, <1>2 DEF ShownInv, InSession

LEMMA LoopReport == IndInv /\ DisplayInv /\ LoopStep => ReportInv'
<1> SUFFICES ASSUME IndInv, DisplayInv, LoopStep PROVE ReportInv'
  OBVIOUS
<1>1. report \in Report /\ error_flag \in BOOLEAN
  BY DEF IndInv, TypeOK
<1>2. ReportInv
  BY DEF DisplayInv
<1>3. CASE GetTask \/ NoTask \/ RefuseBlock \/ UseResults \/ LoopFinished \/ LoopInterrupted
  BY <1>3 DEF GetTask, NoTask, RefuseBlock, Return, UseResults, LoopFinished,
    LoopInterrupted, ReportInv
<1>4. ASSUME NEW how \in ReadResults, Read(how) PROVE ReportInv'
  <2>1. /\ report' = ReportOf(how) /\ error_flag' = (how = "failed")
        /\ UNCHANGED <<lba_to_read, sectors_to_read>>
    BY <1>4 DEF Read, task
  <2>2. /\ report'.lba = lba_to_read /\ report'.sectors_processed = sectors_to_read
        /\ report'.blk_status = IF how = "failed" THEN "eError" ELSE "eOk"
    BY <2>1 DEF ReportOf
  <2>3. error_flag' <=> report'.blk_status # "eOk"
    BY <2>1, <2>2
  <2> QED
    BY <2>1, <2>2, <2>3 DEF ReportInv, Failed
<1>5. CASE Write
  <2>1. /\ pc = "write" /\ UNCHANGED <<lba_to_read, sectors_to_read, error_flag>>
        /\ report'.lba = report.lba
        /\ report'.sectors_processed = report.sectors_processed
        /\ ~WriteFaults => report' = report
    BY <1>1, <1>5 DEF Write, Report, task
  <2> QED
    BY <1>2, <2>1 DEF ReportInv, Failed
<1>6. CASE WriteJournal
  BY <1>2, <1>6 DEF WriteJournal, ReportInv, Failed, task, outcome
<1> QED
  BY <1>3, <1>4, <1>5, <1>6, LoopCases

(* A block has no more sectors than the device.                            *)
LEMMA BlockBounded ==
  ASSUME IndInv, InTask
  PROVE  sectors_to_read \in Nat /\ sectors_to_read <= EndLba
<1>1. /\ Block \subseteq UnreadSectors(unread_zones) /\ sectors_to_read \in Nat
      /\ Cardinality(Block) = sectors_to_read
  BY CurrentBlock
<1>2. Block \in SUBSET Lbas
  BY <1>1, ListFacts, UnreadFinite DEF Lbas
<1> QED
  BY <1>1, <1>2, VerdictsFinite

LEMMA LoopTally == IndInv /\ CountInv /\ DisplayInv /\ LoopStep => TallyInv'
<1> SUFFICES ASSUME IndInv, CountInv, DisplayInv, LoopStep PROVE TallyInv'
  OBVIOUS
<1>1. /\ report \in Report /\ num \in Nat /\ handled \in Nat /\ TallyInv
      /\ use_journal \in BOOLEAN /\ sectors_to_read \in Nat
  BY DEF IndInv, TypeOK, DisplayInv
<1>2. /\ UNCHANGED displayVars /\ handled' = handled
      /\ straddled' = (straddled \/ (pc' = "read" /\ use_journal /\ ~Aligned(lba_to_read')))
      /\ pc \notin {"callback", "closing"}
  BY LoopCases
<1>3. straddled' \in BOOLEAN /\ (display' => den' <= EndLba)
  BY <1>1, <1>2, LoopCases DEF TallyInv, displayVars
<1>4. MapBlocks' = MapBlocks
  BY DEF MapBlocks, nb_blocks
<1>5. report'.sectors_processed <= EndLba
  <2>1. ASSUME NEW how \in ReadResults, Read(how) PROVE report'.sectors_processed <= EndLba
    <3>1. report'.sectors_processed = sectors_to_read /\ InTask
      BY <2>1 DEF Read, ReportOf, InTask
    <3> QED
      BY <3>1, BlockBounded
  <2>2. CASE ~(\E how \in ReadResults : Read(how))
    <3>1. report'.sectors_processed = report.sectors_processed
      <4>1. CASE Write
        BY <1>1, <4>1 DEF Write, Report
      <4>2. CASE ~Write
        BY <2>2, <4>2, LoopCases DEF GetTask, NoTask, RefuseBlock, UseResults, LoopFinished,
          LoopInterrupted, WriteJournal, outcome
      <4> QED
        BY <4>1, <4>2
    <3> QED
      BY <1>1, <3>1 DEF TallyInv
  <2> QED
    BY <2>1, <2>2
<1>6. handled' <= num' + (IF pc' = "closing" /\ result' = "stopped" THEN EndLba ELSE 0)
  <2>1. num' \in Nat /\ num <= num'
    <3>1. CASE UseResults
      BY <1>1, <3>1 DEF UseResults
    <3>2. CASE WriteJournal
      BY <1>1, <3>2 DEF WriteJournal, progress
    <3>3. CASE ~UseResults /\ ~WriteJournal
      BY <1>1, <3>3, QuietTurns
    <3> QED
      BY <3>1, <3>2, <3>3
  <2>2. handled <= num
    BY <1>1, <1>2 DEF TallyInv
  <2> DEFINE extra == IF pc' = "closing" /\ result' = "stopped" THEN EndLba ELSE 0
             m == num'
  <2>3. extra \in Nat /\ m \in Nat /\ num <= m
    BY <2>1, EndLbaAssumption
  <2> HIDE DEF extra, m
  <2>4. handled <= m + extra
    BY <1>1, <2>2, <2>3
  <2> QED
    BY <1>2, <2>4 DEF extra, m
<1> QED
  BY <1>1, <1>2, <1>3, <1>4, <1>5, <1>6 DEF TallyInv, displayVars

LEMMA LoopFresh == IndInv /\ DisplayInv /\ LoopStep => FreshInv'
<1> SUFFICES ASSUME IndInv, DisplayInv, LoopStep PROVE FreshInv'
  OBVIOUS
<1>1. /\ UNCHANGED displayVars /\ UNCHANGED <<config, den, handled>> /\ display
      /\ pc \notin {"callback", "closing"}
  BY LoopCases
<1> QED
  BY <1>1 DEF DisplayInv, FreshInv, GaveUp, displayVars, config

LEMMA LoopUniform == IndInv /\ DisplayInv /\ LoopStep => UniformInv'
<1> SUFFICES ASSUME IndInv, DisplayInv, LoopStep PROVE UniformInv'
  OBVIOUS
<1>1. UniformInv /\ AlignedInv
  BY DEF DisplayInv
<1>2. straddled => straddled'
  BY LoopCases
<1>3. CASE WriteJournal
  <2>1. pc' # "read"
    BY <1>3 DEF WriteJournal
  <2>2. straddled \in BOOLEAN
        /\ straddled' = (straddled \/ (pc' = "read" /\ use_journal /\ ~Aligned(lba_to_read')))
    BY LoopCases DEF DisplayInv, TallyInv
  <2>3. straddled' = straddled
    BY <2>1, <2>2
  <2> QED
    BY <1>1, <1>3, <2>3, WriteJournalUniform
<1>4. CASE ~WriteJournal
  <2>1. journal' = journal
    BY <1>4, LoopCases, QuietTurns DEF UseResults, persistent
  <2> QED
    BY <1>1, <1>2, <2>1 DEF UniformInv, Lbas
<1> QED
  BY <1>3, <1>4

(* The block handed to the callback is already in the journal.             *)
LEMMA LoopDue == IndInv /\ DisplayInv /\ LoopStep => DueInv'
<1> SUFFICES ASSUME IndInv, DisplayInv, LoopStep, Comparable', Due'
             PROVE  Aligned(report'.lba) /\ report'.lba < EndLba
  BY DEF DueInv, Aligned
<1>1. Comparable /\ use_journal /\ ~straddled
  BY ComparableBefore
<1>2. ~GaveUp'
  BY DEF Comparable
<1>3. CASE WriteJournal
  <2>1. pc = "journal" /\ InTask /\ report' = report
    BY <1>3 DEF WriteJournal, InTask, outcome
  <2>2. lba_to_read \in Lbas /\ Aligned(lba_to_read)
    BY <1>1, <2>1, WholeBlock DEF DisplayInv
  <2>3. report.lba = lba_to_read
    BY <2>1 DEF DisplayInv, ReportInv
  <2> QED
    BY <2>1, <2>2, <2>3, EndLbaAssumption DEF Lbas
<1>4. CASE UseResults
  BY <1>1, <1>4 DEF UseResults, Due, DisplayInv, DueInv
<1>5. CASE ~WriteJournal /\ ~UseResults
  BY <1>1, <1>2, <1>5, QuietTurns
<1> QED
  BY <1>3, <1>4, <1>5

LEMMA LoopMatch == IndInv /\ DisplayInv /\ LoopStep => MatchInv'
<1> SUFFICES ASSUME IndInv, DisplayInv, LoopStep, Comparable', EndLba % SectorsAtOnce # 0
             PROVE  /\ unread_count' = Cardinality(Undecided') + Ahead(TRUE)'
                    /\ read_ok_count' + Ahead(~Failed)' = Cardinality(Good')
                    /\ errors_count' + Ahead(Failed)' = Cardinality(Bad')
  <2>1. MatchInv' <=> MatchSets'
    BY MatchForm, PTL
  <2> QED
    BY <2>1 DEF MatchSets
<1>1. /\ Comparable /\ use_journal /\ ~straddled /\ ~WriteFaults /\ ~GaveUp'
      /\ UNCHANGED <<unread_count, read_ok_count, errors_count>>
  BY ComparableBefore, LoopCases DEF Comparable, displayVars
<1>2. /\ unread_count = Cardinality(Undecided) + Ahead(TRUE)
      /\ read_ok_count + Ahead(~Failed) = Cardinality(Good)
      /\ errors_count + Ahead(Failed) = Cardinality(Bad)
  BY <1>1, MatchForm DEF DisplayInv, MatchSets
<1>3. /\ unread_count \in Nat /\ read_ok_count \in Nat /\ errors_count \in Nat
      /\ report \in Report /\ error_flag \in BOOLEAN
  <2>1. handled \in Nat /\ report \in Report /\ error_flag \in BOOLEAN
    BY DEF IndInv, TypeOK
  <2> QED
    BY <2>1, EndLbaAssumption, CountModulusAssumption DEF DisplayInv, TallyInv
<1>4. /\ Cardinality(Undecided) \in Nat /\ Cardinality(Good) \in Nat /\ Cardinality(Bad) \in Nat
  BY VerdictsFinite
<1>5. journal' = journal => Undecided' = Undecided /\ Good' = Good /\ Bad' = Bad
  BY DEF Undecided, Good, Bad, SectorsWith, Lbas
<1>6. CASE WriteJournal
  <2>1. pc = "journal" /\ pc' = "update" /\ report' = report
    BY <1>6 DEF WriteJournal, outcome
  <2>2. report.sectors_processed = sectors_to_read /\ (Failed <=> error_flag)
    BY <1>1, <2>1 DEF DisplayInv, ReportInv
  <2>3. ~Due /\ Due' /\ (Failed' <=> Failed)
    BY <2>1 DEF Due, Failed
  <2>4. /\ Ahead(TRUE) = 0 /\ Ahead(~Failed) = 0 /\ Ahead(Failed) = 0
        /\ Ahead(TRUE)' = sectors_to_read
        /\ Ahead(~Failed)' = IF error_flag THEN 0 ELSE sectors_to_read
        /\ Ahead(Failed)' = IF error_flag THEN sectors_to_read ELSE 0
    BY <1>3, <2>1, <2>2, <2>3 DEF Ahead
  <2>5. /\ Cardinality(Undecided) = Cardinality(Undecided') + sectors_to_read
        /\ Cardinality(Good') =
             Cardinality(Good) + IF error_flag THEN 0 ELSE sectors_to_read
        /\ Cardinality(Bad') =
             Cardinality(Bad) + IF error_flag THEN sectors_to_read ELSE 0
    BY <1>6, VerdictsMove
  <2>6. unread_count' = Cardinality(Undecided') + Ahead(TRUE)'
    <3> DEFINE u == Cardinality(Undecided)
               a == Ahead(TRUE)
    <3>1. u \in Nat /\ a = 0 /\ unread_count = u + a
      BY <1>2, <1>4, <2>4
    <3> HIDE DEF u, a
    <3>2. unread_count = u
      BY <3>1
    <3> QED
      BY <1>1, <2>4, <2>5, <3>2 DEF u
  <2>7. read_ok_count' + Ahead(~Failed)' = Cardinality(Good')
    BY <1>1, <1>2, <1>3, <1>4, <2>4, <2>5
  <2>8. errors_count' + Ahead(Failed)' = Cardinality(Bad')
    BY <1>1, <1>2, <1>3, <1>4, <2>4, <2>5
  <2> QED
    BY <2>6, <2>7, <2>8
<1>7. CASE UseResults
  <2>1. /\ journal' = journal /\ report' = report /\ Due /\ Due'
    BY <1>7 DEF UseResults, Return, Due, persistent
  <2>2. Ahead(TRUE)' = Ahead(TRUE) /\ Ahead(~Failed)' = Ahead(~Failed)
        /\ Ahead(Failed)' = Ahead(Failed)
    BY <2>1 DEF Ahead, Failed
  <2> QED
    BY <1>1, <1>2, <1>5, <2>1, <2>2
<1>8. CASE ~WriteJournal /\ ~UseResults
  <2>1. journal' = journal /\ ~Due'
    BY <1>1, <1>8, QuietTurns
  <2>2. ~Due
    BY <1>8, QuietBefore
  <2>3. /\ Ahead(TRUE)' = 0 /\ Ahead(~Failed)' = 0 /\ Ahead(Failed)' = 0
        /\ Ahead(TRUE) = 0 /\ Ahead(~Failed) = 0 /\ Ahead(Failed) = 0
    BY <2>1, <2>2 DEF Ahead
  <2> QED
    BY <1>1, <1>2, <1>5, <2>1, <2>3
<1> QED
  BY <1>6, <1>7, <1>8

LEMMA LoopMap == IndInv /\ DisplayInv /\ LoopStep => MapInv'
<1> SUFFICES ASSUME IndInv, DisplayInv, LoopStep PROVE MapInv'
  OBVIOUS
<1>1. MapBlocks' = MapBlocks
  BY DEF MapBlocks, nb_blocks
<1> DEFINE Said(i) == IF Due /\ i = MapBlock(report.lba) THEN VerdictOfReport ELSE blocks_map[i]
<1> SUFFICES ASSUME Comparable', NEW i \in MapBlocks
             PROVE  ShownAs(Said(i)', journal'[i * SectorsAtOnce])
  BY <1>1 DEF MapInv, MapBlock
<1>2. /\ Comparable /\ use_journal /\ ~straddled /\ ~WriteFaults /\ ~GaveUp'
      /\ blocks_map' = blocks_map
  BY ComparableBefore, LoopCases DEF Comparable, displayVars
<1>3. ShownAs(Said(i), journal[i * SectorsAtOnce])
  BY <1>2 DEF DisplayInv, MapInv
<1>4. CASE WriteJournal
  <2>1. /\ pc = "journal" /\ pc' = "update" /\ report' = report /\ InTask
        /\ journal' = [l \in Lbas |-> IF l \in Block THEN RecordedStatus ELSE journal[l]]
    BY <1>4 DEF WriteJournal, outcome, InTask
  <2>2. report.lba = lba_to_read /\ (Failed <=> error_flag)
    BY <1>2, <2>1 DEF DisplayInv, ReportInv
  <2>3. ~Due /\ Due'
    BY <2>1 DEF Due
  <2>4. i * SectorsAtOnce \in Lbas /\ MapBlock(i * SectorsAtOnce) = i
    BY FirstOfBlock
  <2>5. i * SectorsAtOnce \in Block <=> i = MapBlock(report.lba)
    BY <1>2, <2>1, <2>2, <2>4, WholeBlock DEF DisplayInv
  <2>6. journal'[i * SectorsAtOnce] =
          IF i = MapBlock(report.lba) THEN RecordedStatus ELSE journal[i * SectorsAtOnce]
    BY <2>1, <2>4, <2>5
  <2>7. Said(i) = blocks_map[i]
    BY <2>3
  <2>8. Said(i)' = IF i = MapBlock(report.lba) THEN VerdictOfReport ELSE blocks_map[i]
    BY <1>2, <2>1, <2>3 DEF VerdictOfReport, Failed, MapBlock
  <2>9. ShownAs(VerdictOfReport, RecordedStatus)
    BY <2>2 DEF ShownAs, VerdictOfReport, RecordedStatus
  <2> HIDE DEF Said
  <2> QED
    BY <1>3, <2>6, <2>7, <2>8, <2>9
<1>5. CASE UseResults
  <2>1. journal' = journal /\ report' = report /\ Due /\ Due'
    BY <1>5 DEF UseResults, Return, Due, persistent
  <2>2. Said(i)' = Said(i)
    BY <1>2, <2>1 DEF VerdictOfReport, Failed, MapBlock
  <2> HIDE DEF Said
  <2> QED
    BY <1>3, <2>1, <2>2
<1>6. CASE ~WriteJournal /\ ~UseResults
  <2>1. journal' = journal /\ ~Due'
    BY <1>2, <1>6, QuietTurns
  <2>2. ~Due
    BY <1>6, QuietBefore
  <2>3. Said(i)' = blocks_map[i] /\ Said(i) = blocks_map[i]
    BY <1>2, <2>1, <2>2
  <2> HIDE DEF Said
  <2> QED
    BY <1>3, <2>1, <2>3
<1> QED
  BY <1>4, <1>5, <1>6

LEMMA LoopInv == IndInv /\ CountInv /\ DisplayInv /\ LoopStep => DisplayInv'
<1>1. IndInv /\ DisplayInv /\ LoopStep => AlignedInv'
  BY LoopAligned DEF DisplayInv
<1> QED
  BY <1>1, LoopShown, LoopTally, LoopReport, LoopFresh, LoopUniform, LoopMatch, LoopMap,
    LoopDue DEF DisplayInv

-----------------------------------------------------------------------------
(* A report is shown.                                                      *)

LEMMA Wrapping ==
  /\ \A x \in Int : Wrapped(x) \in 0 .. CountModulus - 1
  /\ \A x \in 0 .. EndLba : Wrapped(x) = x
  /\ CountModulus \in Nat /\ EndLba \in Nat /\ EndLba < CountModulus
<1>1. CountModulus \in Nat /\ EndLba \in Nat /\ EndLba < CountModulus
  BY EndLbaAssumption, CountModulusAssumption
<1> QED
  BY <1>1 DEF Wrapped

LEMMA ShowReportFacts ==
  ASSUME IndInv, CountInv, DisplayInv, ShowReport
  PROVE  /\ pc = "callback" /\ display /\ display' = display
         /\ report.sectors_processed \in Nat /\ report.sectors_processed <= EndLba
         /\ handled' = handled + report.sectors_processed
         /\ UNCHANGED <<journal, num, den, report, use_journal, unread_zones, perform_ret,
                        straddled>>
         /\ pc' = IF perform_ret # 0 THEN "closing" ELSE "loop"
         /\ result' = IF perform_ret # 0 THEN "stopped" ELSE result
         /\ perform_ret = 0 => handled + report.sectors_processed = num
         /\ num <= den /\ den \in Nat /\ num \in Nat /\ handled \in Nat
         /\ perform_ret # 0 => GaveUp'
         /\ perform_ret = 0 => ~GaveUp
         /\ (Failed <=> Failed')
<1>1. pc = "callback"
  BY DEF ShowReport, Callback
<1>2. display
  BY <1>1 DEF DisplayInv, ShownInv
<1>3. report \in Report /\ den \in Nat /\ num \in Nat /\ handled \in Nat
  BY DEF IndInv, TypeOK
<1>4. num <= den
  <2>1. /\ num + Cardinality(UnreadSectors(unread_zones)) = den
        /\ Cardinality(UnreadSectors(unread_zones)) \in Nat
    BY <1>1, ListFacts, UnreadFinite DEF IndInv, ProgressAccounts, InSession
  <2> QED
    BY <1>3, <2>1
<1>5. report.sectors_processed \in Nat /\ report.sectors_processed <= EndLba
  BY <1>3 DEF Report, DisplayInv, TallyInv
<1>6. /\ UNCHANGED <<journal, num, den, report, use_journal, unread_zones, perform_ret,
                     straddled, display>>
      /\ handled' = handled + report.sectors_processed
      /\ pc' = IF perform_ret # 0 THEN "closing" ELSE "loop"
      /\ result' = IF perform_ret # 0 THEN "stopped" ELSE result
  BY DEF ShowReport, Callback, UpdateBlocksInfo, persistent, config, zoneVars, progress,
    outcome
<1>7. perform_ret = 0 => handled + report.sectors_processed = num
  BY <1>1 DEF CountInv
<1>8. /\ perform_ret # 0 => GaveUp'
      /\ perform_ret = 0 => ~GaveUp
  BY <1>1, <1>6 DEF GaveUp
<1>9. Failed <=> Failed'
  BY <1>6 DEF Failed
<1> QED
  BY <1>1, <1>2, <1>3, <1>4, <1>5, <1>6, <1>7, <1>8, <1>9

LEMMA ShowReportTally ==
  IndInv /\ CountInv /\ DisplayInv /\ ShowReport => TallyInv'
<1> SUFFICES ASSUME IndInv, CountInv, DisplayInv, ShowReport PROVE TallyInv'
  OBVIOUS
<1> DEFINE n == report.sectors_processed
<1>1. n \in Nat /\ n <= EndLba /\ handled' = handled + n /\ handled \in Nat /\ num \in Nat
  BY ShowReportFacts
<1>2. /\ unread_count \in 0 .. CountModulus - 1
      /\ read_ok_count \in 0 .. EndLba + handled
      /\ errors_count \in 0 .. EndLba + handled
      /\ handled <= num
      /\ display \in BOOLEAN /\ straddled \in BOOLEAN
      /\ blocks_map \in [MapBlocks -> SectorStatus]
  <2>1. pc = "callback"
    BY ShowReportFacts
  <2>2. handled <= num
    BY <1>1, <2>1 DEF DisplayInv, TallyInv
  <2> QED
    BY <2>2 DEF DisplayInv, TallyInv
<1>3. /\ unread_count' = Wrapped(unread_count - n)
      /\ read_ok_count' \in {read_ok_count, read_ok_count + n}
      /\ errors_count' \in {errors_count, errors_count + n}
      /\ blocks_map' \in [MapBlocks -> SectorStatus]
  <2>1. /\ unread_count' = Wrapped(unread_count - n)
        /\ read_ok_count' = IF Failed THEN read_ok_count ELSE read_ok_count + n
        /\ errors_count' = IF Failed THEN errors_count + n ELSE errors_count
        /\ blocks_map' = [blocks_map EXCEPT ![MapBlock(report.lba)] =
                            IF Failed THEN "BlockReadError" ELSE "ReadOk"]
    BY DEF ShowReport, UpdateBlocksInfo, ErrorsCounted
  <2>2. blocks_map' \in [MapBlocks -> SectorStatus]
    BY <1>2, <2>1 DEF SectorStatus
  <2> QED
    BY <2>1, <2>2
<1> HIDE DEF n
<1>4. unread_count' \in 0 .. CountModulus - 1
  <2>1. unread_count - n \in Int
    BY <1>1, <1>2, Wrapping
  <2> QED
    BY <1>3, <2>1, Wrapping
<1>5. /\ read_ok_count' \in 0 .. EndLba + handled'
      /\ errors_count' \in 0 .. EndLba + handled'
  BY <1>1, <1>2, <1>3, EndLbaAssumption
<1>6. handled' <= num' + (IF pc' = "closing" /\ result' = "stopped" THEN EndLba ELSE 0)
  <2>1. num' = num
    BY ShowReportFacts
  <2>2. CASE perform_ret # 0
    <3>1. pc' = "closing" /\ result' = "stopped"
      BY <2>2, ShowReportFacts
    <3>2. handled + n <= num + EndLba
      BY <1>1, <1>2, EndLbaAssumption
    <3> QED
      BY <1>1, <2>1, <3>1, <3>2
  <2>3. CASE perform_ret = 0
    <3>1. pc' = "loop" /\ handled' = num
      BY <1>1, <2>3, ShowReportFacts DEF n
    <3>2. num <= num + 0
      BY <1>1
    <3> QED
      BY <2>1, <3>1, <3>2
  <2> QED
    BY <2>2, <2>3
<1>7. /\ report'.sectors_processed <= EndLba /\ display' = display /\ straddled' = straddled
      /\ display => den' <= EndLba
  BY <1>1, ShowReportFacts DEF n, DisplayInv, TallyInv
<1>8. MapBlocks' = MapBlocks
  BY DEF MapBlocks, nb_blocks
<1> QED
  BY <1>2, <1>3, <1>4, <1>5, <1>6, <1>7, <1>8 DEF TallyInv

LEMMA ShowReportFresh ==
  IndInv /\ CountInv /\ DisplayInv /\ ShowReport => FreshInv'
<1> SUFFICES ASSUME IndInv, CountInv, DisplayInv, ShowReport, ~GaveUp', den' = EndLba,
                    use_journal' => EndLba % SectorsAtOnce # 0
             PROVE  /\ unread_count' = den' - handled'
                    /\ read_ok_count' + errors_count' = handled'
  BY DEF FreshInv
<1> DEFINE n == report.sectors_processed
<1>1. /\ perform_ret = 0 /\ display /\ den = EndLba /\ den' = den
      /\ use_journal => EndLba % SectorsAtOnce # 0
      /\ n \in Nat /\ handled \in Nat /\ num \in Nat /\ num <= den
      /\ handled' = handled + n /\ handled + n = num /\ ~GaveUp
  BY ShowReportFacts
<1>2. unread_count = den - handled /\ read_ok_count + errors_count = handled
  BY <1>1 DEF DisplayInv, FreshInv
<1>3. read_ok_count \in Nat /\ errors_count \in Nat
  BY <1>1, EndLbaAssumption DEF DisplayInv, TallyInv
<1>4. /\ unread_count' = Wrapped(unread_count - n)
      /\ read_ok_count' = IF Failed THEN read_ok_count ELSE read_ok_count + n
      /\ errors_count' = IF Failed THEN errors_count + n ELSE errors_count
  BY DEF ShowReport, UpdateBlocksInfo, ErrorsCounted
<1> HIDE DEF n
<1>5. unread_count - n \in 0 .. EndLba /\ unread_count - n = den - handled'
  BY <1>1, <1>2, EndLbaAssumption
<1>6. unread_count' = den' - handled'
  BY <1>1, <1>4, <1>5, Wrapping
<1>7. read_ok_count' + errors_count' = handled'
  BY <1>1, <1>2, <1>3, <1>4
<1> QED
  BY <1>6, <1>7

LEMMA ComparableShown ==
  ASSUME IndInv, CountInv, DisplayInv, ShowReport, Comparable'
  PROVE  perform_ret = 0 /\ pc' = "loop" /\ Comparable
<1>1. display' /\ use_journal' /\ ~straddled' /\ ~WriteFaults /\ ~GaveUp'
  BY DEF Comparable
<1>2. perform_ret = 0
  BY <1>1, ShowReportFacts
<1>3. /\ display /\ (use_journal' => use_journal) /\ (straddled => straddled') /\ ~GaveUp
      /\ pc' = "loop"
  BY <1>2, ShowReportFacts
<1> QED
  BY <1>1, <1>2, <1>3 DEF Comparable

LEMMA ShowReportMatch ==
  IndInv /\ CountInv /\ DisplayInv /\ ShowReport => MatchInv'
<1> SUFFICES ASSUME IndInv, CountInv, DisplayInv, ShowReport, Comparable',
                    EndLba % SectorsAtOnce # 0
             PROVE  /\ unread_count' = Cardinality(Undecided') + Ahead(TRUE)'
                    /\ read_ok_count' + Ahead(~Failed)' = Cardinality(Good')
                    /\ errors_count' + Ahead(Failed)' = Cardinality(Bad')
  <2>1. MatchInv' <=> MatchSets'
    BY MatchForm, PTL
  <2> QED
    BY <2>1 DEF MatchSets
<1> DEFINE n == report.sectors_processed
           u == Cardinality(Undecided)
<1>1. /\ ~GaveUp' /\ perform_ret = 0 /\ pc = "callback" /\ pc' = "loop" /\ n \in Nat
      /\ journal' = journal
  BY ShowReportFacts DEF Comparable
<1>2. Comparable
  BY ComparableShown
<1>3. Due /\ ~Due'
  BY <1>1 DEF Due
<1>4. /\ Undecided' = Undecided /\ Good' = Good /\ Bad' = Bad
  BY <1>1 DEF Undecided, Good, Bad, SectorsWith, Lbas
<1>5. /\ Ahead(TRUE) = n
      /\ Ahead(~Failed) = IF Failed THEN 0 ELSE n
      /\ Ahead(Failed) = IF Failed THEN n ELSE 0
      /\ Ahead(TRUE)' = 0 /\ Ahead(~Failed)' = 0 /\ Ahead(Failed)' = 0
  BY <1>3 DEF Ahead
<1>6. /\ unread_count = u + Ahead(TRUE)
      /\ read_ok_count + Ahead(~Failed) = Cardinality(Good)
      /\ errors_count + Ahead(Failed) = Cardinality(Bad)
  BY <1>2, MatchForm DEF DisplayInv, MatchSets
<1>7. /\ u \in Nat /\ u <= EndLba
      /\ read_ok_count \in Nat /\ errors_count \in Nat
  <2>1. handled \in Nat
    BY DEF IndInv, TypeOK
  <2> QED
    BY <2>1, VerdictsFinite, EndLbaAssumption DEF DisplayInv, TallyInv
<1>8. /\ unread_count' = Wrapped(unread_count - n)
      /\ read_ok_count' = IF Failed THEN read_ok_count ELSE read_ok_count + n
      /\ errors_count' = IF Failed THEN errors_count + n ELSE errors_count
  BY DEF ShowReport, UpdateBlocksInfo, ErrorsCounted
<1> HIDE DEF n
<1>9. unread_count' = Cardinality(Undecided') + Ahead(TRUE)'
  <2>1. u' = u
    BY <1>4
  <2> HIDE DEF u
  <2>2. unread_count - n = u /\ u + 0 = u
    <3>1. unread_count = u + n
      BY <1>5, <1>6
    <3> QED
      BY <1>1, <1>7, <3>1
  <2>3. Wrapped(u) = u
    BY <1>7, EndLbaAssumption, Wrapping
  <2>4. unread_count' = u' + Ahead(TRUE)'
    BY <1>5, <1>8, <2>1, <2>2, <2>3
  <2> QED
    BY <2>4 DEF u
<1>10. read_ok_count' + Ahead(~Failed)' = Cardinality(Good')
  BY <1>1, <1>4, <1>5, <1>6, <1>7, <1>8
<1>11. errors_count' + Ahead(Failed)' = Cardinality(Bad')
  BY <1>1, <1>4, <1>5, <1>6, <1>7, <1>8
<1> QED
  BY <1>9, <1>10, <1>11

LEMMA ShowReportMap ==
  IndInv /\ CountInv /\ DisplayInv /\ ShowReport => MapInv'
<1> SUFFICES ASSUME IndInv, CountInv, DisplayInv, ShowReport PROVE MapInv'
  OBVIOUS
<1> SUFFICES ASSUME Comparable', NEW i \in MapBlocks
             PROVE  ShownAs(blocks_map'[i], journal'[i * SectorsAtOnce])
  <2>1. ASSUME Comparable' PROVE ~Due'
    <3>1. pc' = "loop"
      BY <2>1, ComparableShown
    <3> QED
      BY <3>1 DEF Due
  <2>2. MapBlocks' = MapBlocks
    BY DEF MapBlocks, nb_blocks
  <2> QED
    BY <2>1, <2>2 DEF MapInv
<1>1. /\ perform_ret = 0 /\ pc = "callback" /\ journal' = journal /\ Comparable
  BY ShowReportFacts, ComparableShown
<1>2. Due
  BY <1>1 DEF Due
<1>3. ShownAs(IF i = MapBlock(report.lba) THEN VerdictOfReport ELSE blocks_map[i],
              journal[i * SectorsAtOnce])
  BY <1>1, <1>2 DEF DisplayInv, MapInv
<1>4. blocks_map \in [MapBlocks -> SectorStatus]
  BY DEF DisplayInv, TallyInv
<1>5. blocks_map' = [blocks_map EXCEPT ![MapBlock(report.lba)] = VerdictOfReport]
  BY DEF ShowReport, UpdateBlocksInfo, VerdictOfReport
<1>6. blocks_map'[i] = IF i = MapBlock(report.lba) THEN VerdictOfReport ELSE blocks_map[i]
  BY <1>4, <1>5
<1> QED
  BY <1>1, <1>3, <1>6

LEMMA ShowReportInv ==
  IndInv /\ CountInv /\ DisplayInv /\ ShowReport => DisplayInv'
<1> SUFFICES ASSUME IndInv, CountInv, DisplayInv, ShowReport PROVE DisplayInv'
  OBVIOUS
<1>1. /\ display /\ display' = display /\ pc' \in {"loop", "closing"}
      /\ UNCHANGED <<journal, use_journal, unread_zones, straddled>>
  BY ShowReportFacts
<1>2. ShownInv'
  BY <1>1 DEF ShownInv, InSession
<1>3. ReportInv' /\ DueInv'
  <2>1. ~Due'
    BY <1>1 DEF Due
  <2> QED
    BY <1>1, <2>1 DEF ReportInv, DueInv
<1>4. UniformInv'
  BY <1>1 DEF DisplayInv, UniformInv, Lbas
<1>5. AlignedInv'
  BY <1>1 DEF DisplayInv, AlignedInv, InTask
<1> QED
  BY <1>2, <1>3, <1>4, <1>5, ShowReportTally, ShowReportFresh, ShowReportMatch, ShowReportMap
  DEF DisplayInv

-----------------------------------------------------------------------------
(* The copy with its display.                                              *)

LEMMA DisplayStepInv ==
  IndInv /\ CountInv /\ DisplayInv /\ [DisplayNext]_allVars => DisplayInv'
<1> SUFFICES ASSUME IndInv, CountInv, DisplayInv, [DisplayNext]_allVars PROVE DisplayInv'
  OBVIOUS
<1>1. CASE OpeningStep
  BY <1>1, OpeningInv
<1>2. CASE OpenDisplay
  BY <1>2, OpenDisplayInv
<1>3. CASE LoopStep
  BY <1>3, LoopInv
<1>4. CASE ShowReport
  BY <1>4, ShowReportInv
<1>5. CASE EndStep
  BY <1>5, EndStepInv
<1>6. CASE UNCHANGED allVars
  <2>1. /\ UNCHANGED <<journal, pc, result, num, den, handled, report, use_journal,
                       unread_zones, lba_to_read, sectors_to_read, error_flag,
                       scan_lba, scan_begin, perform_ret>>
        /\ UNCHANGED <<display, blocks_map, unread_count, read_ok_count, errors_count,
                       straddled>>
    BY <1>6 DEF allVars, vars, displayVars, persistent, config, zoneVars, progress,
      scanVars, task, outcome
  <2>2. ShownInv'
    BY <2>1 DEF DisplayInv, ShownInv, InSession
  <2>3. TallyInv'
    <3>1. MapBlocks' = MapBlocks
      BY DEF MapBlocks, nb_blocks
    <3> QED
      BY <2>1, <3>1 DEF DisplayInv, TallyInv
  <2>4. ReportInv' /\ FreshInv' /\ UniformInv' /\ AlignedInv'
    BY <2>1 DEF DisplayInv, ReportInv, FreshInv, UniformInv, AlignedInv, Failed, GaveUp,
      Lbas, InTask
  <2>5. (Comparable' => Comparable) /\ (Due' <=> Due) /\ (Failed' <=> Failed)
    BY <2>1 DEF Comparable, GaveUp, Due, Failed
  <2>6. DueInv'
    BY <2>1, <2>5 DEF DisplayInv, DueInv
  <2>7. MapInv'
    <3>1. MapBlocks' = MapBlocks /\ VerdictOfReport' = VerdictOfReport
      BY <2>5 DEF MapBlocks, nb_blocks, VerdictOfReport
    <3>2. MapInv
      BY DEF DisplayInv
    <3> QED
      BY <2>1, <2>5, <3>1, <3>2 DEF MapInv, MapBlock
  <2>8. MatchInv'
    <3>1. Undecided' = Undecided /\ Good' = Good /\ Bad' = Bad
      BY <2>1 DEF Undecided, Good, Bad, SectorsWith, Lbas
    <3>2. Ahead(TRUE)' = Ahead(TRUE) /\ Ahead(~Failed)' = Ahead(~Failed)
          /\ Ahead(Failed)' = Ahead(Failed)
      BY <2>1, <2>5 DEF Ahead
    <3>3. MatchSets
      BY MatchForm DEF DisplayInv
    <3>4. MatchSets'
      BY <2>1, <2>5, <3>1, <3>2, <3>3 DEF MatchSets
    <3> QED
      BY <3>4, MatchForm, PTL
  <2> QED
    BY <2>2, <2>3, <2>4, <2>6, <2>7, <2>8 DEF DisplayInv
<1> QED
  BY <1>1, <1>2, <1>3, <1>4, <1>5, <1>6 DEF DisplayNext

(* A step with the display is a step of the copy.                          *)
LEMMA DisplayStepIsCopyStep == [DisplayNext]_allVars => [Next]_vars
BY DEF DisplayNext, OpeningStep, OpenDisplay, LoopStep, ShowReport, EndStep, allVars, Next,
  SessionStep, Perform

(* The display never makes the copy do anything it would not do without:   *)
(* the renderer only reads the context (whole_space_renderer.c:159-221).   *)
THEOREM DisplayLeavesCopyAlone == DisplaySpec => Spec
<1>1. DisplayInit => Init
  BY DEF DisplayInit
<1> QED
  BY <1>1, DisplayStepIsCopyStep, PTL DEF DisplaySpec, Spec

(* What the copy keeps true is kept true with the display.                 *)
THEOREM DisplayInvariant == DisplaySpec => [](IndInv /\ CountInv /\ DisplayInv)
<1>1. DisplayInit => IndInv /\ CountInv /\ DisplayInv
  BY InitInv, InitCount, DisplayInitInv DEF DisplayInit
<1>2. IndInv /\ CountInv /\ DisplayInv /\ [DisplayNext]_allVars
        => (IndInv /\ CountInv /\ DisplayInv)'
  BY NextInv, CountStep, DisplayStepInv, DisplayStepIsCopyStep
<1> QED
  BY <1>1, <1>2, PTL DEF DisplaySpec

(* The counters of the renderer never leave their width and the map its    *)
(* statuses (whole_space_renderer.c:38-61).                                *)
THEOREM DisplayTypes == DisplaySpec => []DisplayTypeOK
<1>1. IndInv /\ CountInv /\ DisplayInv => DisplayTypeOK
  <2> SUFFICES ASSUME IndInv, CountInv, DisplayInv PROVE DisplayTypeOK
    OBVIOUS
  <2>1. /\ handled \in Nat /\ num \in Nat /\ den \in Nat /\ EndLba \in Nat /\ EndLba > 0
        /\ CountModulus \in Nat /\ CountModulus > 3 * EndLba
    BY EndLbaAssumption, CountModulusAssumption DEF IndInv, TypeOK
  <2>2. num <= EndLba
    <3>1. CASE display
      <4>1. InSession /\ den <= EndLba
        BY <3>1 DEF DisplayInv, ShownInv, TallyInv
      <4>2. /\ num + Cardinality(UnreadSectors(unread_zones)) = den
            /\ Cardinality(UnreadSectors(unread_zones)) \in Nat
        BY <4>1, ListFacts, UnreadFinite DEF IndInv, ProgressAccounts
      <4>3. num <= den
        BY <2>1, <4>2
      <4> QED
        BY <2>1, <4>1, <4>3
    <3>2. CASE ~display
      BY <2>1, <3>2 DEF DisplayInv, ShownInv, IndInv, PhaseInv, NoSession
    <3> QED
      BY <3>1, <3>2
  <2>3. handled <= 2 * EndLba
    <3>1. handled <= num + EndLba
      BY <2>1 DEF DisplayInv, TallyInv
    <3> QED
      BY <2>1, <2>2, <3>1
  <2>4. /\ read_ok_count \in 0 .. CountModulus - 1
        /\ errors_count \in 0 .. CountModulus - 1
    BY <2>1, <2>3 DEF DisplayInv, TallyInv
  <2> QED
    BY <2>4 DEF DisplayInv, TallyInv, DisplayTypeOK
<1> QED
  BY <1>1, DisplayInvariant, PTL

(* In a session that starts with nothing done the counters are those of    *)
(* the progress, whatever blocks the strategy reads in whatever order.     *)
THEOREM FreshCountsFollowProgress == DisplaySpec => []FreshCountsAreProgress
<1>1. IndInv /\ CountInv /\ DisplayInv => FreshCountsAreProgress
  <2> SUFFICES ASSUME CountInv, DisplayInv, AtRest, den = EndLba,
                      use_journal => EndLba % SectorsAtOnce # 0
               PROVE  unread_count = den - num /\ read_ok_count + errors_count = num
    BY DEF FreshCountsAreProgress
  <2>1. display /\ pc = "loop" /\ ~GaveUp /\ handled = num
    BY DEF AtRest, GaveUp, CountInv
  <2> QED
    BY <2>1 DEF DisplayInv, FreshInv
<1> QED
  BY <1>1, DisplayInvariant, PTL

(* At rest, in a session of which map and counters are held against the    *)
(* journal, no block is due.                                               *)
LEMMA RestFacts ==
  ASSUME AtRest, use_journal, ~straddled, ~WriteFaults
  PROVE  Comparable /\ ~Due
BY DEF AtRest, Comparable, GaveUp, Due

(* The counters are the sectors the journal has with each verdict, in      *)
(* resumed sessions too, unless a write falls short: update_blocks_info    *)
(* then counts as failed what the journal has as read.                     *)
THEOREM CountersAgreeWithJournal ==
  ASSUME ~WriteFaults
  PROVE  DisplaySpec => []CountersMatchJournal
<1>1. IndInv /\ CountInv /\ DisplayInv => CountersMatchJournal
  <2> SUFFICES ASSUME IndInv, DisplayInv, AtRest, use_journal, ~straddled,
                      EndLba % SectorsAtOnce # 0
               PROVE  /\ unread_count = Cardinality(Undecided)
                      /\ read_ok_count = Cardinality(Good)
                      /\ errors_count = Cardinality(Bad)
    BY VerdictSets DEF CountersMatchJournal
  <2> DEFINE u == Cardinality(Undecided)
             r == read_ok_count
             e == errors_count
  <2>1. Comparable /\ ~Due
    BY RestFacts
  <2>2. Ahead(TRUE) = 0 /\ Ahead(~Failed) = 0 /\ Ahead(Failed) = 0
    BY <2>1 DEF Ahead
  <2>3. unread_count = u + 0 /\ r + 0 = Cardinality(Good) /\ e + 0 = Cardinality(Bad)
    BY <2>1, <2>2, MatchForm DEF DisplayInv, MatchSets
  <2>4. u \in Nat /\ r \in Nat /\ e \in Nat
    <3>1. handled \in Nat
      BY DEF IndInv, TypeOK
    <3> QED
      BY <3>1, VerdictsFinite, EndLbaAssumption DEF DisplayInv, TallyInv
  <2> HIDE DEF u, r, e
  <2>5. unread_count = u /\ r = Cardinality(Good) /\ e = Cardinality(Bad)
    BY <2>3, <2>4
  <2> QED
    BY <2>5 DEF u, r, e
<1> QED
  BY <1>1, DisplayInvariant, PTL

(* Every cell of the map shows what the legend says of its sectors         *)
(* (whole_space_renderer.c:235-246), unless a write falls short.           *)
THEOREM MapShowsLegend ==
  ASSUME ~WriteFaults
  PROVE  DisplaySpec => []MapFollowsLegend
<1>1. IndInv /\ CountInv /\ DisplayInv => MapFollowsLegend
  <2> SUFFICES ASSUME DisplayInv, AtRest, use_journal, ~straddled,
                      \A l \in Lbas : journal[l] # "SectorReadError",
                      NEW c \in Cells
               PROVE  CellShows(c) = LegendOf(c)
    BY DEF MapFollowsLegend
  <2>1. Comparable /\ ~Due
    BY RestFacts
  <2>2. ASSUME NEW i \in MapBlocks
        PROVE  /\ i * SectorsAtOnce \in Lbas /\ MapBlock(i * SectorsAtOnce) = i
               /\ blocks_map[i] = journal[i * SectorsAtOnce]
    <3>1. i * SectorsAtOnce \in Lbas /\ MapBlock(i * SectorsAtOnce) = i
      BY FirstOfBlock
    <3>2. ShownAs(blocks_map[i], journal[i * SectorsAtOnce])
      BY <2>1 DEF DisplayInv, MapInv
    <3> QED
      BY <3>1, <3>2 DEF ShownAs
  <2>3. ASSUME NEW l \in Lbas
        PROVE  MapBlock(l) \in MapBlocks /\ journal[l] = blocks_map[MapBlock(l)]
    <3>1. /\ MapBlock(l) \in MapBlocks
          /\ MapBlock(l) * SectorsAtOnce = l - (l % SectorsAtOnce)
      BY BlockOfSector
    <3>2. journal[l] = journal[l - (l % SectorsAtOnce)]
      BY DEF DisplayInv, UniformInv
    <3> QED
      BY <2>2, <3>1, <3>2
  <2>4. ASSUME NEW i \in MapBlocks PROVE blocks_map[i] # "SectorReadError"
    BY <2>2
  <2>5. (\E i \in BlocksOfCell(c) : blocks_map[i] = "BlockReadError")
          <=> (\E l \in SectorsOfCell(c) : Defective(journal[l]))
    <3>1. ASSUME NEW i \in BlocksOfCell(c), blocks_map[i] = "BlockReadError"
          PROVE  \E l \in SectorsOfCell(c) : Defective(journal[l])
      <4>1. i \in MapBlocks
        BY DEF BlocksOfCell
      <4>2. i * SectorsAtOnce \in SectorsOfCell(c) /\ Defective(journal[i * SectorsAtOnce])
        BY <2>2, <3>1, <4>1 DEF SectorsOfCell, Defective
      <4> QED
        BY <4>2
    <3>2. ASSUME NEW l \in SectorsOfCell(c), Defective(journal[l])
          PROVE  \E i \in BlocksOfCell(c) : blocks_map[i] = "BlockReadError"
      <4>1. l \in Lbas /\ MapBlock(l) \in BlocksOfCell(c)
        BY DEF SectorsOfCell
      <4>2. blocks_map[MapBlock(l)] = "BlockReadError"
        BY <2>3, <2>4, <3>2, <4>1 DEF Defective
      <4> QED
        BY <4>1, <4>2
    <3> QED
      BY <3>1, <3>2
  <2>6. (\E i \in BlocksOfCell(c) : blocks_map[i] = "Unread")
          <=> (\E l \in SectorsOfCell(c) : journal[l] = "Unread")
    <3>1. ASSUME NEW i \in BlocksOfCell(c), blocks_map[i] = "Unread"
          PROVE  \E l \in SectorsOfCell(c) : journal[l] = "Unread"
      <4>1. i \in MapBlocks
        BY DEF BlocksOfCell
      <4>2. i * SectorsAtOnce \in SectorsOfCell(c) /\ journal[i * SectorsAtOnce] = "Unread"
        BY <2>2, <3>1, <4>1 DEF SectorsOfCell
      <4> QED
        BY <4>2
    <3>2. ASSUME NEW l \in SectorsOfCell(c), journal[l] = "Unread"
          PROVE  \E i \in BlocksOfCell(c) : blocks_map[i] = "Unread"
      <4>1. l \in Lbas /\ MapBlock(l) \in BlocksOfCell(c)
        BY DEF SectorsOfCell
      <4> QED
        BY <2>3, <3>2, <4>1
    <3> QED
      BY <3>1, <3>2
  <2> QED
    BY <2>5, <2>6 DEF CellShows, LegendOf
<1> QED
  BY <1>1, DisplayInvariant, PTL
=============================================================================
