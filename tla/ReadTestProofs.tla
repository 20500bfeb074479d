--------------------------- MODULE ReadTestProofs ---------------------------
(***************************************************************************)
(* The invariants of the read test, for every size of device, range, block *)
(* and histogram, every set of error statuses, and every failure of a      *)
(* command, an allocation or a report file that the module ReadTest        *)
(* allows.                                                                 *)
(***************************************************************************)
EXTENDS ReadTestProps, FiniteSetTheorems, TLAPS

-----------------------------------------------------------------------------
(* Lists that grow at the end.                                             *)

LEMMA AppendFacts ==
  ASSUME NEW S, NEW s \in Seq(S), NEW e \in S
  PROVE  /\ Append(s, e) \in Seq(S)
         /\ Len(s) \in Nat /\ DOMAIN s = 1 .. Len(s)
         /\ Len(Append(s, e)) = Len(s) + 1
         /\ DOMAIN Append(s, e) = 1 .. Len(s) + 1
         /\ \A i \in 1 .. Len(s) : Append(s, e)[i] = s[i]
         /\ Append(s, e)[Len(s) + 1] = e
OBVIOUS

(* What holds of the elements of a list, one of them being the last.       *)
LEMMA AppendIndex ==
  ASSUME NEW S, NEW s \in Seq(S), NEW e \in S, NEW i \in DOMAIN Append(s, e)
  PROVE  \/ i \in DOMAIN s /\ i <= Len(s) /\ Append(s, e)[i] = s[i]
         \/ i = Len(s) + 1 /\ Append(s, e)[i] = e
OBVIOUS

(* The number of elements in a set grows by one or not at all.             *)
CountIn(s, G) == Cardinality({ i \in DOMAIN s : s[i] \in G })

LEMMA CountGrows ==
  ASSUME NEW S, NEW s \in Seq(S), NEW e \in S, NEW G
  PROVE  /\ CountIn(s, G) \in Nat
         /\ CountIn(Append(s, e), G) = CountIn(s, G) + (IF e \in G THEN 1 ELSE 0)
<1> DEFINE old == { i \in DOMAIN s : s[i] \in G }
           new == { i \in DOMAIN Append(s, e) : Append(s, e)[i] \in G }
<1>1. IsFiniteSet(old)
  <2>1. IsFiniteSet(1 .. Len(s))
    BY FS_Interval, AppendFacts
  <2>2. old \in SUBSET (1 .. Len(s))
    BY AppendFacts
  <2> QED
    BY <2>1, <2>2, FS_Subset
<1>2. Cardinality(old) \in Nat
  BY <1>1, FS_CardinalityType
<1>3. Len(s) + 1 \notin old
  BY AppendFacts
<1>4. new = IF e \in G THEN old \cup {Len(s) + 1} ELSE old
  BY AppendFacts
<1> HIDE DEF old, new
<1>5. CASE e \in G
  BY <1>1, <1>2, <1>3, <1>4, <1>5, FS_AddElement DEF CountIn, old, new
<1>6. CASE e \notin G
  <2>1. Cardinality(new) = Cardinality(old) + (IF e \in G THEN 1 ELSE 0)
    BY <1>2, <1>4, <1>6
  <2> QED
    BY <1>2, <2>1 DEF CountIn, old, new
<1> QED
  BY <1>5, <1>6

LEMMA CountEmpty == \A G : CountIn(<<>>, G) = 0
<1> TAKE G
<1>1. { i \in DOMAIN <<>> : <<>>[i] \in G } = {}
  OBVIOUS
<1> QED
  BY <1>1, FS_EmptySet DEF CountIn

(* The rows of a defect list, and the one to come.                         *)
AnyInterval == Interval \cup {NoInterval}

LEMMA ListedGrows ==
  ASSUME NEW list \in Seq(AnyInterval), NEW e \in AnyInterval, NEW t
  PROVE  SectorsListed(Append(list, e), t)
           = SectorsListed(list, t) \cup (IF e.type = t THEN e.begin_lba .. e.end_lba ELSE {})
<1> DEFINE long == Append(list, e)
<1>1. /\ Len(list) \in Nat /\ DOMAIN list = 1 .. Len(list)
      /\ DOMAIN long = 1 .. Len(list) + 1
      /\ \A i \in 1 .. Len(list) : long[i] = list[i]
      /\ long[Len(list) + 1] = e
  BY AppendFacts
<1> HIDE DEF long
<1>2. ASSUME NEW l \in SectorsListed(long, t)
      PROVE  l \in SectorsListed(list, t) \/ (e.type = t /\ l \in e.begin_lba .. e.end_lba)
  <2>1. PICK i \in DOMAIN long : long[i].type = t /\ l \in long[i].begin_lba .. long[i].end_lba
    BY <1>2 DEF SectorsListed
  <2>2. CASE i \in 1 .. Len(list)
    BY <1>1, <2>1, <2>2 DEF SectorsListed
  <2>3. CASE i = Len(list) + 1
    BY <1>1, <2>1, <2>3
  <2> QED
    BY <1>1, <2>2, <2>3
<1>3. ASSUME NEW l \in SectorsListed(list, t)
      PROVE  l \in SectorsListed(long, t)
  <2>1. PICK i \in DOMAIN list : list[i].type = t /\ l \in list[i].begin_lba .. list[i].end_lba
    BY <1>3 DEF SectorsListed
  <2>2. i \in DOMAIN long /\ long[i] = list[i]
    BY <1>1
  <2> QED
    BY <2>1, <2>2 DEF SectorsListed
<1>4. ASSUME e.type = t, NEW l \in e.begin_lba .. e.end_lba
      PROVE  l \in SectorsListed(long, t)
  <2>1. Len(list) + 1 \in DOMAIN long
    BY <1>1
  <2> QED
    BY <1>1, <1>4, <2>1 DEF SectorsListed
<1> QED
  BY <1>2, <1>3, <1>4 DEF long

(* The blocks seen, and the one just processed.                            *)
LEMMA SeenGrows ==
  ASSUME seen \in Seq(Report), NEW r \in Report, seen' = Append(seen, r)
  PROVE  /\ \A t : SectorsSeen(t)'
                     = SectorsSeen(t) \cup (IF DefectType(r) = t THEN BlockSectors(r) ELSE {})
         /\ Covered(seen') = Covered(seen) \cup BlockSectors(r)
<1>1. /\ Len(seen) \in Nat /\ DOMAIN seen = 1 .. Len(seen)
      /\ DOMAIN seen' = 1 .. Len(seen) + 1
      /\ \A i \in 1 .. Len(seen) : seen'[i] = seen[i]
      /\ seen'[Len(seen) + 1] = r
  BY AppendFacts
<1>2. \A i : i \in DOMAIN seen' <=> i \in DOMAIN seen \/ i = Len(seen) + 1
  BY <1>1
<1>3. \A i \in DOMAIN seen : seen'[i] = seen[i]
  BY <1>1
<1>4. ASSUME NEW t
      PROVE  SectorsSeen(t)'
               = SectorsSeen(t) \cup (IF DefectType(r) = t THEN BlockSectors(r) ELSE {})
  <2>1. \A l : l \in SectorsSeen(t)
                 <=> \E j \in DOMAIN seen : DefectType(seen[j]) = t /\ l \in BlockSectors(seen[j])
    BY DEF SectorsSeen
  <2>2. \A l : l \in SectorsSeen(t)'
                 <=> \E j \in DOMAIN seen' : DefectType(seen'[j]) = t /\ l \in BlockSectors(seen'[j])
    BY DEF SectorsSeen, DefectType, BlockSectors, BlockEnd
  <2>3. \A l : l \in SectorsSeen(t)'
                 <=> l \in SectorsSeen(t) \/ (DefectType(r) = t /\ l \in BlockSectors(r))
    BY <1>1, <1>2, <1>3, <2>1, <2>2
  <2> QED
    BY <2>3
<1>5. Covered(seen') = Covered(seen) \cup BlockSectors(r)
  <2>1. \A l : l \in Covered(seen) <=> \E j \in DOMAIN seen : l \in BlockSectors(seen[j])
    BY DEF Covered
  <2>2. \A l : l \in Covered(seen') <=> \E j \in DOMAIN seen' : l \in BlockSectors(seen'[j])
    BY DEF Covered
  <2>3. \A l : l \in Covered(seen') <=> l \in Covered(seen) \/ l \in BlockSectors(r)
    BY <1>1, <1>2, <1>3, <2>1, <2>2
  <2> QED
    BY <2>3
<1> QED
  BY <1>4, <1>5

-----------------------------------------------------------------------------
(* The range and its blocks.                                               *)

(* The number of blocks that Open computes is the one that reaches the end *)
(* of the range: the last block begins before it.                          *)
LEMMA BlocksBound ==
  ASSUME NEW x \in Nat \ {0}, NEW n \in Nat \ {0}
  PROVE  /\ Blocks(x, n) \in Nat \ {0}
         /\ (Blocks(x, n) - 1) * n < x /\ x <= Blocks(x, n) * n
<1> DEFINE q == x \div n
           m == x % n
<1>1. q \in Nat /\ m \in Nat /\ m < n /\ x = n * q + m
  OBVIOUS
<1> HIDE DEF q, m
<1>2. CASE m = 0
  <2>1. Blocks(x, n) = q
    BY <1>1, <1>2 DEF Blocks, q, m
  <2>2. q # 0
    BY <1>1, <1>2
  <2> QED
    BY <1>1, <1>2, <2>1, <2>2
<1>3. CASE m # 0
  <2>1. Blocks(x, n) = q + 1
    BY <1>3 DEF Blocks, q, m
  <2> QED
    BY <1>1, <1>3, <2>1
<1> QED
  BY <1>2, <1>3

LEMMA Monotone ==
  ASSUME NEW a \in Nat, NEW b \in Nat, NEW n \in Nat, a <= b
  PROVE  a * n <= b * n
<1>1. PICK c \in Nat : b = a + c
  <2>1. b - a \in Nat /\ b = a + (b - a)
    OBVIOUS
  <2> QED
    BY <2>1
<1>2. b * n = a * n + c * n
  BY <1>1
<1>3. c * n \in Nat /\ a * n \in Nat
  BY <1>1
<1> QED
  BY <1>2, <1>3

(* progress.num is progress.den exactly when the range is used up.         *)
LEMMA LoopCounts ==
  ASSUME TypeOK, RangeInv, SeenInv, api # "none"
  PROVE  (num = den <=> lba_to_process = 0) /\ num <= den
<1> DEFINE n == sectors_at_once
           range == end_lba - start_lba
<1>1. /\ n \in Nat \ {0} /\ num \in Nat /\ den \in Nat
      /\ range \in Nat \ {0} /\ den = Blocks(range, n)
      /\ start_lba \in Int /\ end_lba \in Int /\ current_lba \in Int
      /\ lba_to_process \in Nat /\ lba_to_process = end_lba - current_lba
  BY DEF TypeOK, RangeInv
<1>2. den \in Nat \ {0} /\ (den - 1) * n < range /\ range <= den * n
  BY <1>1, BlocksBound
<1>3. CASE lba_to_process > 0
  <2>1. num * n < range
    <3>1. current_lba = start_lba + num * n /\ num * n \in Nat
      BY <1>1, <1>3 DEF RangeInv
    <3> QED
      BY <1>1, <1>3, <3>1
  <2>2. ~(den <= num)
    <3>1. ASSUME den <= num PROVE FALSE
      <4>1. den * n <= num * n
        BY <1>1, <3>1, Monotone
      <4>2. den * n \in Nat /\ num * n \in Nat
        BY <1>1
      <4> QED
        BY <1>1, <1>2, <2>1, <4>1, <4>2
    <3> QED
      BY <3>1
  <2> QED
    BY <1>1, <1>3, <2>2
<1>4. CASE lba_to_process = 0
  <2>1. range <= num * n
    <3>1. end_lba <= start_lba + num * n /\ num * n \in Nat
      BY <1>1, <1>4 DEF RangeInv
    <3> QED
      BY <1>1, <3>1
  <2>2. num >= 1
    BY <1>1, <2>1
  <2>3. (num - 1) * n < range
    <3>1. /\ num \in DOMAIN seen /\ seen[num] \in Report
          /\ seen[num].lba = start_lba + (num - 1) * n
          /\ BlockEnd(seen[num]) < current_lba
      <4>1. num = Len(seen) /\ seen \in Seq(Report)
        BY DEF RangeInv, TypeOK
      <4>2. num \in DOMAIN seen /\ seen[num] \in Report
        BY <1>1, <2>2, <4>1
      <4> QED
        BY <4>2 DEF SeenInv
    <3>2. (num - 1) * n \in Nat
      BY <1>1, <2>2
    <3>3. seen[num].lba \in Int /\ seen[num].lba <= BlockEnd(seen[num])
            /\ BlockEnd(seen[num]) \in Int
      <4>1. seen[num].lba \in Int /\ seen[num].sectors_processed \in Nat \ {0}
        BY <3>1 DEF Report
      <4> QED
        BY <4>1 DEF BlockEnd
    <3> DEFINE m == (num - 1) * n
    <3>4. seen[num].lba < end_lba /\ seen[num].lba = start_lba + m /\ m \in Nat
      BY <1>1, <1>4, <3>1, <3>2, <3>3
    <3> HIDE DEF m
    <3>5. m < range
      BY <1>1, <3>4
    <3> QED
      BY <3>5 DEF m
  <2>4. ~(num <= den - 1)
    <3>1. ASSUME num <= den - 1 PROVE FALSE
      <4>1. den - 1 \in Nat
        BY <1>2
      <4>2. num * n <= (den - 1) * n
        BY <1>1, <3>1, <4>1, Monotone
      <4>3. num * n \in Nat /\ (den - 1) * n \in Nat
        BY <1>1, <4>1
      <4> QED
        BY <1>1, <1>2, <2>1, <4>2, <4>3
    <3> QED
      BY <3>1
  <2>5. ~(den <= num - 1)
    <3>1. ASSUME den <= num - 1 PROVE FALSE
      <4>1. num - 1 \in Nat
        BY <1>1, <2>2
      <4>2. den * n <= (num - 1) * n
        BY <1>1, <3>1, <4>1, Monotone
      <4>3. den * n \in Nat /\ (num - 1) * n \in Nat
        BY <1>1, <4>1
      <4> QED
        BY <1>1, <1>2, <2>3, <4>2, <4>3
    <3> QED
      BY <3>1
  <2> QED
    BY <1>1, <1>4, <2>4, <2>5
<1> QED
  BY <1>1, <1>3, <1>4
-----------------------------------------------------------------------------
(* Processing a block.                                                     *)

(* What Perform does with the report of a block, whatever the API.         *)
Processed(r) ==
  /\ r \in Report /\ r.lba = current_lba /\ r.sectors_processed = SectorsToRead
  /\ (r.blk_status # "eOk" => r.tier = 0)
  /\ pc = "loop" /\ pc' = "callback" /\ api # "none" /\ lba_to_process > 0
  /\ SectorsToRead \in 1 .. sectors_at_once /\ SectorsToRead <= lba_to_process
  /\ report' = r /\ num' = num + 1
  /\ lba_to_process' = lba_to_process - SectorsToRead
  /\ current_lba' = current_lba + SectorsToRead
  /\ BlockEnd(r) = current_lba' - 1
  /\ stats' = Accumulated(r)
  /\ DgIntervalUpdate(DefectType(r), r.lba, BlockEnd(r))
  /\ seen' = Append(seen, r)
  /\ perform_ret' \in {0, 1}
  /\ UNCHANGED <<result, options, kernel_end, den, saved>>

LEMMA PerformedBlock ==
  ASSUME ReadInv, NEW status \in {"eOk"} \cup Failures, NEW tier \in Tiers,
         NEW reach \in Reaches, status # "eOk" => tier = 0,
         Perform(status, tier, reach)
  PROVE  Processed([lba |-> current_lba, sectors_processed |-> SectorsToRead,
                    blk_status |-> status, tier |-> tier])
<1> DEFINE r == [lba |-> current_lba, sectors_processed |-> SectorsToRead,
                 blk_status |-> status, tier |-> tier]
<1>1. api # "none" /\ pc = "loop"
  BY DEF ReadInv, RangeInv, Perform
<1>2. /\ current_lba \in Int /\ lba_to_process \in Nat /\ sectors_at_once \in Nat
      /\ sectors_at_once > 0 /\ num \in Nat /\ den \in Nat
  BY <1>1 DEF ReadInv, TypeOK, RangeInv
<1>3. lba_to_process > 0
  BY <1>1, <1>2, LoopCounts DEF ReadInv, Perform
<1>4. SectorsToRead \in 1 .. sectors_at_once /\ SectorsToRead <= lba_to_process
  BY <1>2, <1>3 DEF SectorsToRead
<1>5. r \in Report
  BY <1>2, <1>4 DEF Report
<1>6. r.lba = current_lba /\ r.sectors_processed = SectorsToRead
  OBVIOUS
<1>7. BlockEnd(r) = current_lba + SectorsToRead - 1
  BY <1>6 DEF BlockEnd
<1>8. current_lba' = current_lba + SectorsToRead
  BY DEF Perform
<1>9. perform_ret' \in {0, 1}
  BY DEF Perform, VerifyBlock, ReadBlock
<1>10. /\ report' = r /\ num' = num + 1 /\ pc' = "callback"
       /\ lba_to_process' = lba_to_process - SectorsToRead
       /\ stats' = Accumulated(r) /\ seen' = Append(seen, r)
       /\ DgIntervalUpdate(DefectType(r), r.lba, BlockEnd(r))
       /\ UNCHANGED <<result, options, kernel_end, den, saved>>
  BY DEF Perform
<1>11. r.blk_status # "eOk" => r.tier = 0
  OBVIOUS
<1> HIDE DEF r
<1>12. Processed(r)
  BY <1>1, <1>2, <1>3, <1>4, <1>5, <1>6, <1>7, <1>8, <1>9, <1>10, <1>11 DEF Processed
<1> QED
  BY <1>12 DEF r

LEMMA RangeStep ==
  ASSUME ReadInv, NEW r, Processed(r)
  PROVE  RangeInv' /\ SeenInv'
<1> DEFINE n == sectors_at_once
           k == SectorsToRead
<1>1. /\ start_lba \in Int /\ end_lba \in Int /\ current_lba \in Int /\ lba_to_process \in Nat
      /\ n \in Nat /\ n > 0 /\ num \in Nat /\ num = Len(seen)
      /\ lba_to_process = end_lba - current_lba /\ lba_to_process > 0
      /\ k \in 1 .. n /\ k <= lba_to_process
      /\ start_lba <= current_lba /\ result # "finished" /\ api # "none"
      /\ seen \in Seq(Report) /\ r \in Report
  BY DEF ReadInv, TypeOK, RangeInv, Processed
<1>2. num * n \in Nat /\ (num + 1) * n = num * n + n /\ current_lba = start_lba + num * n
  BY <1>1 DEF ReadInv, RangeInv
<1>3. /\ current_lba' = current_lba + k /\ lba_to_process' = lba_to_process - k
      /\ num' = num + 1 /\ UNCHANGED <<result, options, den>>
      /\ seen' = Append(seen, r)
  BY DEF Processed
<1>4. /\ Len(seen') = Len(seen) + 1 /\ DOMAIN seen' = 1 .. Len(seen) + 1
      /\ DOMAIN seen = 1 .. Len(seen)
      /\ \A i \in 1 .. Len(seen) : seen'[i] = seen[i]
      /\ seen'[Len(seen) + 1] = r
  BY <1>1, <1>3, AppendFacts
<1>5. lba_to_process' > 0 => k = n
  BY <1>1, <1>3 DEF SectorsToRead
<1>6. lba_to_process' = 0 => end_lba <= current_lba + n
  BY <1>1, <1>3
<1>7. RangeInv'
  <2>1. start_lba' <= current_lba' /\ lba_to_process' = end_lba' - current_lba'
        /\ num' = Len(seen')
    BY <1>1, <1>3, <1>4 DEF options
  <2>2. lba_to_process' > 0 => current_lba' = start_lba' + num' * sectors_at_once'
    BY <1>1, <1>2, <1>3, <1>5 DEF options
  <2>3. lba_to_process' = 0 => end_lba' <= start_lba' + num' * sectors_at_once'
    BY <1>1, <1>2, <1>3, <1>6 DEF options
  <2>4. lba_to_process' >= 0
    BY <1>1, <1>3
  <2>5. lba_to_process' \in Int
    BY <1>1, <1>3
  <2> HIDE DEF n, k
  <2> QED
    BY <1>1, <1>3, <2>1, <2>2, <2>3, <2>4, <2>5 DEF ReadInv, RangeInv, options, Blocks
<1>8. SeenInv'
  <2>1. Covered(seen') = start_lba .. current_lba' - 1
    <3>1. Covered(seen) = start_lba .. current_lba - 1
      BY DEF ReadInv, SeenInv
    <3>2. BlockSectors(r) = current_lba .. current_lba' - 1
      BY DEF Processed, BlockSectors
    <3>3. Covered(seen') = Covered(seen) \cup BlockSectors(r)
      BY <1>1, <1>3, SeenGrows
    <3> QED
      BY <1>1, <1>3, <3>1, <3>2, <3>3
  <2>2. ASSUME NEW i \in 1 .. Len(seen)
        PROVE  /\ seen'[i].lba = start_lba + (i - 1) * n
               /\ BlockEnd(seen'[i]) < current_lba'
               /\ seen'[i].sectors_processed = n
    <3>1. /\ seen[i].lba = start_lba + (i - 1) * n
          /\ BlockEnd(seen[i]) < current_lba
          /\ seen[i].sectors_processed = n
      BY <1>1, <1>4 DEF ReadInv, SeenInv
    <3>2. BlockEnd(seen[i]) \in Int
      <4>1. seen[i] \in Report
        BY <1>1
      <4>2. seen[i].lba \in Int /\ seen[i].sectors_processed \in Nat
        BY <4>1 DEF Report
      <4> QED
        BY <4>2 DEF BlockEnd
    <3> QED
      BY <1>1, <1>3, <1>4, <3>1, <3>2
  <2>3. /\ r.lba = start_lba + num * n /\ BlockEnd(r) < current_lba'
        /\ lba_to_process' > 0 => r.sectors_processed = n
    BY <1>1, <1>2, <1>3, <1>5 DEF Processed
  <2>4. (Len(seen) + 1) - 1 = num
    BY <1>1
  <2>5. ASSUME NEW i \in DOMAIN seen'
        PROVE  /\ seen'[i].lba = start_lba + (i - 1) * n
               /\ BlockEnd(seen'[i]) < current_lba'
               /\ i < Len(seen') \/ lba_to_process' > 0 => seen'[i].sectors_processed = n
    <3>1. CASE i \in 1 .. Len(seen)
      BY <2>2, <3>1
    <3>2. CASE i = Len(seen) + 1
      BY <1>1, <1>4, <2>3, <2>4, <3>2
    <3> QED
      BY <1>4, <3>1, <3>2
  <2>6. start_lba' = start_lba /\ sectors_at_once' = n
    BY <1>3 DEF options
  <2> HIDE DEF n, k
  <2> QED
    BY <2>1, <2>5, <2>6 DEF SeenInv, BlockEnd
<1> QED
  BY <1>7, <1>8

-----------------------------------------------------------------------------
(* The summary.                                                            *)

FailedBlocks == { r \in Report : r.blk_status # "eOk" }
BlocksOk(t) == { r \in Report : r.blk_status = "eOk" /\ r.tier = t }
BlocksWith(f) == { r \in Report : r.blk_status = f }

(* StatsOfSeen in terms of these: the counts are counts of elements of a   *)
(* list, the error range is that of the failed blocks.                     *)
ErrorRange ==
  IF \A i \in DOMAIN seen : seen[i] \notin FailedBlocks THEN stats.first_error_lba = -1
  ELSE /\ \E i \in DOMAIN seen :
            seen[i] \in FailedBlocks /\ stats.first_error_lba = seen[i].lba
       /\ \E i \in DOMAIN seen :
            seen[i] \in FailedBlocks /\ stats.last_error_lba = BlockEnd(seen[i])
       /\ \A i \in DOMAIN seen :
            seen[i] \in FailedBlocks =>
              stats.first_error_lba <= seen[i].lba /\ BlockEnd(seen[i]) <= stats.last_error_lba

StatsByCount ==
  /\ stats.blocks_processed = Len(seen)
  /\ stats.blocks_with_errors = CountIn(seen, FailedBlocks)
  /\ \A t \in Tiers : stats.access_time_stats[t] = CountIn(seen, BlocksOk(t))
  /\ \A f \in Failures : stats.error_stats[f] = CountIn(seen, BlocksWith(f))
  /\ start_lba >= 0 => ErrorRange

LEMMA SeenCounts == seen \in Seq(Report) => (StatsOfSeen(stats) <=> StatsByCount)
<1> SUFFICES ASSUME seen \in Seq(Report)
             PROVE  StatsOfSeen(stats) <=> StatsByCount
  OBVIOUS
<1>1. \A i \in DOMAIN seen : seen[i] \in Report
  OBVIOUS
<1>2. ErrorsSeen = { i \in DOMAIN seen : seen[i] \in FailedBlocks }
  BY <1>1 DEF ErrorsSeen, FailedBlocks
<1>3. \A t : { i \in DOMAIN seen : seen[i].blk_status = "eOk" /\ seen[i].tier = t }
             = { i \in DOMAIN seen : seen[i] \in BlocksOk(t) }
  BY <1>1 DEF BlocksOk
<1>4. \A f : { i \in DOMAIN seen : seen[i].blk_status = f }
             = { i \in DOMAIN seen : seen[i] \in BlocksWith(f) }
  BY <1>1 DEF BlocksWith
<1>5. /\ ErrorsSeen = {} <=> \A i \in DOMAIN seen : seen[i] \notin FailedBlocks
      /\ \A i : i \in ErrorsSeen <=> i \in DOMAIN seen /\ seen[i] \in FailedBlocks
  BY <1>2
<1>6. Cardinality(ErrorsSeen) = CountIn(seen, FailedBlocks)
  BY <1>2 DEF CountIn
<1>7. (IF ErrorsSeen = {} THEN stats.first_error_lba = -1
       ELSE /\ \E i \in ErrorsSeen : stats.first_error_lba = seen[i].lba
            /\ \E i \in ErrorsSeen : stats.last_error_lba = BlockEnd(seen[i])
            /\ \A i \in ErrorsSeen : /\ stats.first_error_lba <= seen[i].lba
                                     /\ BlockEnd(seen[i]) <= stats.last_error_lba)
        <=> ErrorRange
  BY <1>5 DEF ErrorRange
<1>8. \A t : Cardinality({ i \in DOMAIN seen : seen[i].blk_status = "eOk" /\ seen[i].tier = t })
             = CountIn(seen, BlocksOk(t))
  BY <1>3 DEF CountIn
<1>9. \A f : Cardinality({ i \in DOMAIN seen : seen[i].blk_status = f })
             = CountIn(seen, BlocksWith(f))
  BY <1>4 DEF CountIn
<1> QED
  BY <1>6, <1>7, <1>8, <1>9 DEF StatsOfSeen, StatsByCount, BlocksSeen

(* The accumulators one by one.                                            *)
LEMMA AccumulatedFields ==
  ASSUME stats \in Stats, NEW r \in Report
  PROVE  LET s == Accumulated(r)
             failed == r.blk_status # "eOk"
         IN /\ s.blocks_processed = stats.blocks_processed + 1
            /\ s.blocks_with_errors = stats.blocks_with_errors + (IF failed THEN 1 ELSE 0)
            /\ \A f \in Failures :
                 s.error_stats[f] = stats.error_stats[f] + (IF f = r.blk_status THEN 1 ELSE 0)
            /\ \A t \in Tiers :
                 s.access_time_stats[t]
                   = stats.access_time_stats[t] + (IF ~failed /\ t = r.tier THEN 1 ELSE 0)
            /\ s.first_error_lba = IF failed /\ stats.first_error_lba < 0 THEN r.lba
                                   ELSE stats.first_error_lba
            /\ s.last_error_lba = IF failed THEN BlockEnd(r) ELSE stats.last_error_lba
            /\ s \in Stats
<1> DEFINE failed == r.blk_status # "eOk"
           a == stats.blocks_processed + 1
           b == stats.blocks_with_errors + (IF failed THEN 1 ELSE 0)
           c == [x \in Failures |-> stats.error_stats[x] + (IF x = r.blk_status THEN 1 ELSE 0)]
           d == [t \in Tiers |-> stats.access_time_stats[t]
                                   + (IF ~failed /\ t = r.tier THEN 1 ELSE 0)]
           e == IF failed /\ stats.first_error_lba < 0 THEN r.lba ELSE stats.first_error_lba
           g == IF failed THEN BlockEnd(r) ELSE stats.last_error_lba
           s == Accumulated(r)
<1>1. s = [access_time_stats |-> d, error_stats |-> c, blocks_processed |-> a,
           blocks_with_errors |-> b, first_error_lba |-> e, last_error_lba |-> g]
  <2>1. stats = [access_time_stats |-> stats.access_time_stats,
                 error_stats |-> stats.error_stats,
                 blocks_processed |-> stats.blocks_processed,
                 blocks_with_errors |-> stats.blocks_with_errors,
                 first_error_lba |-> stats.first_error_lba,
                 last_error_lba |-> stats.last_error_lba]
    BY DEF Stats
  <2>2. s = [stats EXCEPT !.blocks_processed = a, !.blocks_with_errors = b,
                          !.error_stats = c, !.access_time_stats = d,
                          !.first_error_lba = e, !.last_error_lba = g]
    BY Zenon DEF Accumulated
  <2> HIDE DEF a, b, c, d, e, g, s
  <2> QED
    BY <2>1, <2>2
<1>2. a \in Nat /\ b \in Nat /\ e \in Int /\ g \in Int
  BY DEF Stats, Report, BlockEnd
<1>3. c \in [Failures -> Nat] /\ d \in [Tiers -> Nat]
  BY DEF Stats
<1> HIDE DEF a, b, c, d, e, g, s
<1>4. s \in Stats
  BY <1>1, <1>2, <1>3 DEF Stats
<1>5. /\ s.access_time_stats = d /\ s.error_stats = c /\ s.blocks_processed = a
      /\ s.blocks_with_errors = b /\ s.first_error_lba = e /\ s.last_error_lba = g
  BY <1>1
<1> QED
  BY <1>4, <1>5 DEF a, b, c, d, e, g, s

LEMMA SummaryStep ==
  ASSUME ReadInv, NEW r, Processed(r)
  PROVE  StatsOfSeen(stats)'
<1>1. /\ seen \in Seq(Report) /\ r \in Report /\ stats \in Stats
      /\ seen' = Append(seen, r) /\ stats' = Accumulated(r)
  BY DEF ReadInv, TypeOK, Processed
<1> DEFINE failed == r.blk_status # "eOk"
<1>2. /\ stats'.blocks_processed = stats.blocks_processed + 1
      /\ stats'.blocks_with_errors = stats.blocks_with_errors + (IF failed THEN 1 ELSE 0)
      /\ \A f \in Failures :
           stats'.error_stats[f] = stats.error_stats[f] + (IF f = r.blk_status THEN 1 ELSE 0)
      /\ \A t \in Tiers :
           stats'.access_time_stats[t]
             = stats.access_time_stats[t] + (IF ~failed /\ t = r.tier THEN 1 ELSE 0)
      /\ stats'.first_error_lba = IF failed /\ stats.first_error_lba < 0 THEN r.lba
                                  ELSE stats.first_error_lba
      /\ stats'.last_error_lba = IF failed THEN BlockEnd(r) ELSE stats.last_error_lba
  BY <1>1, AccumulatedFields
<1>3. StatsByCount
  BY <1>1, SeenCounts DEF ReadInv
<1>4. /\ seen' \in Seq(Report) /\ Len(seen') = Len(seen) + 1
      /\ DOMAIN seen = 1 .. Len(seen) /\ DOMAIN seen' = 1 .. Len(seen) + 1
      /\ \A i \in 1 .. Len(seen) : seen'[i] = seen[i]
      /\ seen'[Len(seen) + 1] = r /\ Len(seen) \in Nat
  BY <1>1, AppendFacts
<1>5. \A G : CountIn(seen', G) = CountIn(seen, G) + (IF r \in G THEN 1 ELSE 0)
  BY <1>1, CountGrows
<1>6. /\ r \in FailedBlocks <=> failed
      /\ \A t : r \in BlocksOk(t) <=> ~failed /\ t = r.tier
      /\ \A f : r \in BlocksWith(f) <=> f = r.blk_status
  BY <1>1 DEF FailedBlocks, BlocksOk, BlocksWith
<1>7. ASSUME start_lba >= 0 PROVE ErrorRange'
  <2>1. \A i \in DOMAIN seen :
          /\ seen[i].lba \in Nat /\ BlockEnd(seen[i]) \in Int
          /\ seen[i].lba <= BlockEnd(seen[i]) /\ BlockEnd(seen[i]) < r.lba
    <3>1. \A i \in DOMAIN seen : seen[i] \in Report
      BY <1>1
    <3>2. \A b \in Report : b.lba \in Int /\ BlockEnd(b) \in Int /\ b.lba <= BlockEnd(b)
      BY DEF Report, BlockEnd
    <3>3. \A i \in DOMAIN seen : BlockEnd(seen[i]) < r.lba
      BY DEF ReadInv, SeenInv, Processed
    <3>4. ASSUME NEW i \in DOMAIN seen PROVE start_lba <= seen[i].lba
      <4>1. BlockSectors(seen[i]) \subseteq start_lba .. current_lba - 1
        BY DEF ReadInv, SeenInv, Covered
      <4>2. seen[i].lba \in BlockSectors(seen[i])
        BY <3>1, <3>2 DEF BlockSectors
      <4> QED
        BY <4>1, <4>2
    <3>5. start_lba \in Int
      BY DEF ReadInv, TypeOK
    <3> QED
      BY <1>7, <3>1, <3>2, <3>3, <3>4, <3>5
  <2>2. r.lba \in Nat /\ BlockEnd(r) \in Int /\ r.lba <= BlockEnd(r)
    <3>1. start_lba \in Int /\ start_lba <= r.lba
      BY DEF ReadInv, TypeOK, RangeInv, Processed
    <3> QED
      BY <1>1, <1>7, <3>1 DEF Report, BlockEnd
  <2>3. ASSUME NEW i \in DOMAIN seen'
        PROVE  \/ i \in DOMAIN seen /\ seen'[i] = seen[i]
               \/ i = Len(seen) + 1 /\ seen'[i] = r
    <3>1. i \in 1 .. Len(seen) \/ i = Len(seen) + 1
      BY <1>4
    <3>2. i \in 1 .. Len(seen) => i \in DOMAIN seen /\ seen'[i] = seen[i]
      BY <1>4
    <3>3. i = Len(seen) + 1 => seen'[i] = r
      BY <1>4
    <3> QED
      BY <3>1, <3>2, <3>3
  <2>4. Len(seen) + 1 \in DOMAIN seen' /\ DOMAIN seen \subseteq DOMAIN seen'
        /\ \A i \in DOMAIN seen : seen'[i] = seen[i]
    BY <1>4
  <2>5. ErrorRange
    BY <1>3, <1>7 DEF StatsByCount
  <2>6. CASE ~failed
    <3>1. stats'.first_error_lba = stats.first_error_lba
          /\ stats'.last_error_lba = stats.last_error_lba
      BY <1>2, <2>6
    <3>2. r \notin FailedBlocks
      BY <1>6, <2>6
    <3> HIDE DEF failed
    <3>3. CASE \A i \in DOMAIN seen : seen[i] \notin FailedBlocks
      BY <2>3, <2>4, <2>5, <3>1, <3>2, <3>3 DEF ErrorRange
    <3>4. CASE \E i \in DOMAIN seen : seen[i] \in FailedBlocks
      <4>1. PICK a \in DOMAIN seen : seen[a] \in FailedBlocks /\ stats.first_error_lba = seen[a].lba
        BY <2>5, <3>4 DEF ErrorRange
      <4>2. PICK z \in DOMAIN seen :
              seen[z] \in FailedBlocks /\ stats.last_error_lba = BlockEnd(seen[z])
        BY <2>5, <3>4 DEF ErrorRange
      <4>3. \A i \in DOMAIN seen : seen[i] \in FailedBlocks =>
              stats.first_error_lba <= seen[i].lba /\ BlockEnd(seen[i]) <= stats.last_error_lba
        BY <2>5, <3>4 DEF ErrorRange
      <4>4. \A i \in DOMAIN seen' : seen'[i] \in FailedBlocks =>
              stats'.first_error_lba <= seen'[i].lba /\ BlockEnd(seen'[i]) <= stats'.last_error_lba
        BY <2>3, <3>1, <3>2, <4>3
      <4>5. /\ a \in DOMAIN seen' /\ seen'[a] \in FailedBlocks
            /\ stats'.first_error_lba = seen'[a].lba
        BY <2>4, <3>1, <4>1
      <4>6. /\ z \in DOMAIN seen' /\ seen'[z] \in FailedBlocks
            /\ stats'.last_error_lba = BlockEnd(seen'[z])
        BY <2>4, <3>1, <4>2
      <4> QED
        BY <4>4, <4>5, <4>6 DEF ErrorRange, FailedBlocks, Report, BlockEnd
    <3> QED
      BY <3>3, <3>4
  <2>7. CASE failed
    <3>1. stats'.last_error_lba = BlockEnd(r) /\ r \in FailedBlocks
      BY <1>2, <1>6, <2>7
    <3>2. stats'.first_error_lba = IF stats.first_error_lba < 0 THEN r.lba
                                   ELSE stats.first_error_lba
      BY <1>2, <2>7
    <3> HIDE DEF failed
    <3>3. \A i \in DOMAIN seen' : seen'[i] \in FailedBlocks => BlockEnd(seen'[i]) <= BlockEnd(r)
      BY <2>1, <2>2, <2>3
    <3>4. /\ \E i \in DOMAIN seen' : seen'[i] \in FailedBlocks
                                       /\ stats'.first_error_lba = seen'[i].lba
          /\ \A i \in DOMAIN seen' : seen'[i] \in FailedBlocks =>
               stats'.first_error_lba <= seen'[i].lba
      <4>1. CASE \A i \in DOMAIN seen : seen[i] \notin FailedBlocks
        <5>1. stats'.first_error_lba = r.lba
          BY <2>5, <3>2, <4>1 DEF ErrorRange
        <5> QED
          BY <1>4, <2>2, <2>3, <2>4, <3>1, <4>1, <5>1
      <4>2. CASE \E i \in DOMAIN seen : seen[i] \in FailedBlocks
        <5>1. PICK a \in DOMAIN seen : seen[a] \in FailedBlocks /\ stats.first_error_lba = seen[a].lba
          BY <2>5, <4>2 DEF ErrorRange
        <5>2. stats'.first_error_lba = seen[a].lba
          BY <2>1, <3>2, <5>1
        <5>3. seen[a].lba <= r.lba
          BY <2>1, <2>2
        <5>4. \A i \in DOMAIN seen : seen[i] \in FailedBlocks => seen[a].lba <= seen[i].lba
          BY <2>5, <4>2, <5>1 DEF ErrorRange
        <5> QED
          BY <2>3, <2>4, <5>1, <5>2, <5>3, <5>4
      <4> QED
        BY <4>1, <4>2
    <3>5. \E i \in DOMAIN seen' : seen'[i] \in FailedBlocks
                                    /\ stats'.last_error_lba = BlockEnd(seen'[i])
      BY <1>4, <2>4, <3>1
    <3> QED
      BY <3>1, <3>3, <3>4, <3>5 DEF ErrorRange, FailedBlocks, Report, BlockEnd
  <2> QED
    BY <2>6, <2>7
<1>8. StatsByCount'
  <2>1. stats'.blocks_processed = Len(seen')
    BY <1>2, <1>3, <1>4 DEF StatsByCount
  <2>2. stats'.blocks_with_errors = CountIn(seen', FailedBlocks)
    BY <1>2, <1>3, <1>5, <1>6 DEF StatsByCount
  <2>3. \A t \in Tiers : stats'.access_time_stats[t] = CountIn(seen', BlocksOk(t))
    BY <1>2, <1>3, <1>5, <1>6 DEF StatsByCount
  <2>4. \A f \in Failures : stats'.error_stats[f] = CountIn(seen', BlocksWith(f))
    BY <1>2, <1>3, <1>5, <1>6 DEF StatsByCount
  <2>5. start_lba' = start_lba
    BY DEF Processed, options
  <2> QED
    BY <1>7, <2>1, <2>2, <2>3, <2>4, <2>5
    DEF StatsByCount, CountIn, FailedBlocks, BlocksOk, BlocksWith, Report
<1>9. (seen \in Seq(Report))' => (StatsOfSeen(stats)' <=> StatsByCount')
  BY SeenCounts, PTL
<1>10. (seen \in Seq(Report))'
  BY <1>4 DEF Report
<1> QED
  BY <1>8, <1>9, <1>10

-----------------------------------------------------------------------------
(* The defect list.                                                        *)

(* The open interval has a type exactly when there is one.                 *)
LEMMA OpenInterval ==
  ASSUME TypeOK
  PROVE  /\ dg_cur.type = "none" <=> dg_cur = NoInterval
         /\ dg_cur.type # "none" => dg_cur \in Interval
         /\ dg_cur \in AnyInterval /\ dg_intervals \in Seq(AnyInterval)
<1>1. dg_cur \in Interval => dg_cur.type # "none"
  BY DEF Interval, DefectTypes
<1>2. dg_intervals \in Seq(AnyInterval)
  <2>1. Interval \subseteq AnyInterval /\ dg_intervals \in Seq(Interval)
    BY DEF AnyInterval, TypeOK
  <2> HIDE DEF AnyInterval
  <2> QED
    BY <2>1
<1> QED
  BY <1>1, <1>2 DEF TypeOK, NoInterval, AnyInterval

(* A block is of one type, or of none.                                     *)
LEMMA BlockType ==
  ASSUME NEW r \in Report
  PROVE  DefectType(r) \in DefectTypes \cup {"none"}
BY DEF DefectType, DefectTypes

(* The sectors that an update of the list adds are sectors of the block,   *)
(* and all of them unless the array could not grow.                        *)
LEMMA ListedUpdate ==
  ASSUME TypeOK, OpenInv, NEW type \in DefectTypes \cup {"none"},
         NEW b \in Int, NEW e \in Int, b <= e, DgIntervalUpdate(type, b, e),
         NEW t \in DefectTypes
  PROVE  LET old == SectorsListed(Append(dg_intervals, dg_cur), t)
             new == SectorsListed(Append(dg_intervals', dg_cur'), t)
             block_t == IF type = t THEN b .. e ELSE {}
         IN old \subseteq new /\ new \subseteq old \cup block_t
              /\ (~lost' => new = old \cup block_t /\ ~lost)
<1> DEFINE old == SectorsListed(Append(dg_intervals, dg_cur), t)
           new == SectorsListed(Append(dg_intervals', dg_cur'), t)
           block_t == IF type = t THEN b .. e ELSE {}
           Of(c) == IF c.type = t THEN c.begin_lba .. c.end_lba ELSE {}
<1>1. /\ dg_cur \in AnyInterval /\ dg_intervals \in Seq(AnyInterval)
      /\ lost \in BOOLEAN
  BY OpenInterval DEF TypeOK
<1>2. old = SectorsListed(dg_intervals, t) \cup Of(dg_cur)
  BY <1>1, ListedGrows
<1>3. CASE Extends(type, b) /\ dg_cur' = [dg_cur EXCEPT !.end_lba = e]
             /\ UNCHANGED <<dg_intervals, lost>>
  <2>1. dg_cur \in Interval /\ dg_cur.type = type /\ b = dg_cur.end_lba + 1
    BY <1>3, OpenInterval DEF Extends
  <2>2. /\ dg_cur' \in Interval /\ dg_cur'.type = dg_cur.type
        /\ dg_cur'.begin_lba = dg_cur.begin_lba /\ dg_cur'.end_lba = e
    BY <1>3, <2>1 DEF Interval
  <2>3. new = SectorsListed(dg_intervals, t) \cup Of(dg_cur')
    <3>1. dg_cur' \in AnyInterval
      BY <2>2 DEF AnyInterval
    <3>2. new = SectorsListed(Append(dg_intervals, dg_cur'), t)
      BY <1>3
    <3>3. SectorsListed(Append(dg_intervals, dg_cur'), t)
            = SectorsListed(dg_intervals, t) \cup Of(dg_cur')
      <4> DEFINE c == dg_cur'
      <4>1. c \in AnyInterval
        BY <3>1
      <4> HIDE DEF c
      <4> QED
        BY <1>1, <4>1, ListedGrows DEF c
    <3> QED
      BY <3>2, <3>3
  <2>4. Of(dg_cur') = Of(dg_cur) \cup block_t
    <3>1. dg_cur.begin_lba \in Int /\ dg_cur.end_lba \in Int
          /\ dg_cur.begin_lba <= dg_cur.end_lba
      BY <2>1 DEF Interval, OpenInv, DefectTypes
    <3> QED
      BY <2>1, <2>2, <3>1
  <2> HIDE DEF Of, block_t, old, new
  <2> QED
    BY <1>2, <1>3, <2>3, <2>4 DEF old, new, block_t
<1> DEFINE opened == IF type = "none" THEN NoInterval
                     ELSE [type |-> type, begin_lba |-> b, end_lba |-> e]
<1>4. opened \in AnyInterval /\ Of(opened) = block_t
  <2>1. type # "none" => opened \in Interval
    BY DEF Interval
  <2> QED
    BY <2>1 DEF AnyInterval, NoInterval, DefectTypes
<1>5. CASE dg_cur.type = "none" /\ dg_cur' = opened /\ UNCHANGED <<dg_intervals, lost>>
  <2>1. Of(dg_cur) = {}
    BY <1>5 DEF DefectTypes
  <2> HIDE DEF opened
  <2>2. new = SectorsListed(dg_intervals, t) \cup Of(dg_cur')
    BY <1>1, <1>4, <1>5, ListedGrows
  <2> HIDE DEF Of, block_t, old, new
  <2> QED
    BY <1>2, <1>4, <1>5, <2>1, <2>2 DEF old, new, block_t
<1>6. CASE Flushed(type, b, e)
  <2>1. dg_intervals' = Append(dg_intervals, dg_cur) /\ dg_cur' = opened /\ UNCHANGED lost
    BY <1>6 DEF Flushed
  <2>2. Append(dg_intervals, dg_cur) \in Seq(AnyInterval)
    BY <1>1, AppendFacts
  <2> HIDE DEF opened
  <2>3. new = old \cup Of(dg_cur')
    BY <1>1, <1>4, <2>1, <2>2, ListedGrows
  <2> HIDE DEF Of, block_t, old, new
  <2> QED
    BY <1>4, <2>1, <2>3 DEF old, new, block_t
<1>7. CASE /\ lost' = (lost \/ type # "none")
           /\ UNCHANGED <<dg_intervals, dg_cur>>
  <2>1. new = old
    BY <1>7
  <2>2. ~lost' => block_t = {} /\ ~lost
    BY <1>1, <1>7 DEF DefectTypes
  <2> HIDE DEF Of, block_t, old, new
  <2> QED
    BY <2>1, <2>2 DEF old, new, block_t
<1> QED
  BY <1>3, <1>5, <1>6, <1>7 DEF DgIntervalUpdate

LEMMA ListedStep ==
  ASSUME ReadInv, NEW r, Processed(r)
  PROVE  ListedInv'
<1>1. /\ seen \in Seq(Report) /\ r \in Report /\ seen' = Append(seen, r) /\ pc' = "callback"
      /\ DgIntervalUpdate(DefectType(r), r.lba, BlockEnd(r)) /\ lost \in BOOLEAN
  BY DEF Processed, ReadInv, TypeOK
<1>2. /\ DefectType(r) \in DefectTypes \cup {"none"}
      /\ r.lba \in Int /\ BlockEnd(r) \in Int /\ r.lba <= BlockEnd(r)
  BY <1>1, BlockType DEF Report, BlockEnd
<1>3. ASSUME NEW t \in DefectTypes
      PROVE  /\ SectorsListed(Append(dg_intervals', dg_cur'), t) \subseteq SectorsSeen(t)'
             /\ ~lost' => SectorsSeen(t)' \subseteq SectorsListed(Append(dg_intervals', dg_cur'), t)
  <2> DEFINE old == SectorsListed(Append(dg_intervals, dg_cur), t)
             new == SectorsListed(Append(dg_intervals', dg_cur'), t)
             block_t == IF DefectType(r) = t THEN r.lba .. BlockEnd(r) ELSE {}
  <2>1. old \subseteq new /\ new \subseteq old \cup block_t
          /\ (~lost' => new = old \cup block_t /\ ~lost)
    <3> HIDE DEF old, new, block_t
    <3>1. TypeOK /\ OpenInv
      BY DEF ReadInv
    <3> QED
      BY <1>1, <1>2, <3>1, ListedUpdate DEF old, new, block_t
  <2>2. SectorsSeen(t)' = SectorsSeen(t) \cup block_t
    BY <1>1, SeenGrows DEF BlockSectors
  <2>3. old \subseteq SectorsSeen(t) /\ (~lost => SectorsSeen(t) \subseteq old)
    BY DEF ReadInv, ListedInv
  <2> HIDE DEF old, new, block_t
  <2> QED
    BY <2>1, <2>2, <2>3 DEF new
<1> QED
  BY <1>1, <1>3 DEF ListedInv, DefectTypes, SectorsListed

LEMMA Between ==
  \A b, d, c, n \in Int : b <= d /\ d < c /\ c < n => b <= n - 1 /\ n - 1 < n
OBVIOUS

(* The open interval is a row, or to come, before the next block.          *)
LEMMA OpenStep ==
  ASSUME ReadInv, NEW r, Processed(r)
  PROVE  OpenInv'
<1>1. /\ r.lba = current_lba /\ current_lba \in Int /\ current_lba' \in Int
      /\ BlockEnd(r) = current_lba' - 1 /\ current_lba < current_lba'
      /\ DgIntervalUpdate(DefectType(r), r.lba, BlockEnd(r))
  BY DEF Processed, ReadInv, TypeOK
<1>2. TypeOK /\ OpenInv
  BY DEF ReadInv
<1>3. dg_cur.type # "none" => dg_cur.begin_lba \in Int /\ dg_cur.end_lba \in Int
  BY <1>2, OpenInterval DEF Interval
<1>4. CASE Extends(DefectType(r), r.lba) /\ dg_cur' = [dg_cur EXCEPT !.end_lba = BlockEnd(r)]
  <2>1. dg_cur.type # "none" /\ r.lba = dg_cur.end_lba + 1
    BY <1>4 DEF Extends
  <2>2. dg_cur \in Interval
    BY <1>2, <2>1, OpenInterval
  <2>3. dg_cur'.begin_lba = dg_cur.begin_lba /\ dg_cur'.end_lba = BlockEnd(r)
    BY <1>4, <2>2 DEF Interval
  <2>4. dg_cur.begin_lba <= dg_cur.end_lba /\ dg_cur.end_lba < current_lba
    BY <1>2, <2>1 DEF OpenInv
  <2>5. dg_cur.begin_lba <= BlockEnd(r) /\ BlockEnd(r) < current_lba'
    <3>1. dg_cur.begin_lba \in Int /\ dg_cur.end_lba \in Int
      BY <1>3, <2>1
    <3>2. dg_cur.begin_lba <= current_lba' - 1 /\ current_lba' - 1 < current_lba'
      BY <1>1, <2>4, <3>1, Between
    <3> QED
      BY <1>1, <3>2
  <2> QED
    BY <2>3, <2>5 DEF OpenInv
<1>5. CASE dg_cur' = IF DefectType(r) = "none" THEN NoInterval
                     ELSE [type |-> DefectType(r), begin_lba |-> r.lba, end_lba |-> BlockEnd(r)]
  <2>1. dg_cur'.type # "none" => dg_cur'.begin_lba = r.lba /\ dg_cur'.end_lba = BlockEnd(r)
    BY <1>5 DEF NoInterval
  <2> QED
    BY <1>1, <2>1 DEF OpenInv
<1>6. CASE UNCHANGED dg_cur
  BY <1>1, <1>2, <1>3, <1>6 DEF OpenInv
<1> QED
  BY <1>1, <1>4, <1>5, <1>6 DEF DgIntervalUpdate, Flushed

(* The open interval becomes the last row.                                 *)
LEMMA RowAdded ==
  ASSUME TypeOK, OpenInv, RowsInv, OrderInv, dg_cur.type # "none",
         dg_intervals' = Append(dg_intervals, dg_cur)
  PROVE  /\ OrderInv' /\ dg_intervals' \in Seq(Interval)
         /\ \A i \in DOMAIN dg_intervals' :
              /\ i \in 1 .. Len(dg_intervals) \/ i = Len(dg_intervals) + 1
              /\ dg_intervals'[i].begin_lba \in Int /\ dg_intervals'[i].end_lba \in Int
              /\ dg_intervals'[i].begin_lba <= dg_intervals'[i].end_lba
              /\ dg_intervals'[i].end_lba < current_lba
              /\ i <= Len(dg_intervals) => dg_intervals'[i].end_lba < dg_cur.begin_lba
<1>1. /\ dg_cur \in Interval /\ dg_intervals \in Seq(Interval)
      /\ dg_cur.begin_lba \in Int /\ dg_cur.end_lba \in Int /\ current_lba \in Int
  <2>1. dg_cur \in Interval
    BY OpenInterval
  <2> QED
    BY <2>1 DEF Interval, TypeOK
<1>2. \A i \in DOMAIN dg_intervals :
        /\ dg_intervals[i].begin_lba \in Int /\ dg_intervals[i].end_lba \in Int
        /\ dg_intervals[i].type # "none"
  <2>1. \A i \in DOMAIN dg_intervals : dg_intervals[i] \in Interval
    BY <1>1
  <2> QED
    BY <2>1 DEF Interval, DefectTypes
<1>3. /\ Len(dg_intervals) \in Nat /\ DOMAIN dg_intervals = 1 .. Len(dg_intervals)
      /\ Len(dg_intervals') = Len(dg_intervals) + 1
      /\ DOMAIN dg_intervals' = 1 .. Len(dg_intervals) + 1
      /\ \A i \in 1 .. Len(dg_intervals) : dg_intervals'[i] = dg_intervals[i]
      /\ dg_intervals'[Len(dg_intervals) + 1] = dg_cur
      /\ dg_intervals' \in Seq(Interval)
  BY <1>1, AppendFacts
<1>4. dg_cur.begin_lba <= dg_cur.end_lba /\ dg_cur.end_lba < current_lba
  BY DEF OpenInv
<1>5. \A i \in 1 .. Len(dg_intervals) :
        /\ dg_intervals[i].begin_lba \in Int /\ dg_intervals[i].end_lba \in Int
        /\ dg_intervals[i].begin_lba <= dg_intervals[i].end_lba
        /\ dg_intervals[i].end_lba < dg_cur.begin_lba
        /\ i = Len(dg_intervals) /\ dg_cur.type = dg_intervals[i].type =>
             dg_intervals[i].end_lba + 1 < dg_cur.begin_lba
  BY <1>2, <1>3 DEF RowsInv
<1>6. ASSUME NEW i \in DOMAIN dg_intervals'
      PROVE  /\ i \in 1 .. Len(dg_intervals) \/ i = Len(dg_intervals) + 1
             /\ dg_intervals'[i].begin_lba \in Int /\ dg_intervals'[i].end_lba \in Int
             /\ dg_intervals'[i].begin_lba <= dg_intervals'[i].end_lba
             /\ dg_intervals'[i].end_lba < current_lba
             /\ i <= Len(dg_intervals) => dg_intervals'[i].end_lba < dg_cur.begin_lba
  <2>1. CASE i \in 1 .. Len(dg_intervals)
    <3>1. dg_intervals'[i] = dg_intervals[i]
      BY <1>3, <2>1
    <3>2. /\ dg_intervals[i].begin_lba \in Int /\ dg_intervals[i].end_lba \in Int
          /\ dg_intervals[i].begin_lba <= dg_intervals[i].end_lba
          /\ dg_intervals[i].end_lba < dg_cur.begin_lba
      BY <1>5, <2>1
    <3>3. dg_intervals[i].end_lba < current_lba
      BY <1>1, <1>4, <3>2
    <3> QED
      BY <2>1, <3>1, <3>2, <3>3
  <2>2. CASE i = Len(dg_intervals) + 1
    BY <1>1, <1>3, <1>4, <2>2
  <2> QED
    BY <1>3, <2>1, <2>2
<1>7. OrderInv'
  <2>1. ASSUME NEW i \in DOMAIN dg_intervals', NEW j \in DOMAIN dg_intervals', i < j
        PROVE  dg_intervals'[i].end_lba < dg_intervals'[j].begin_lba
    <3>1. i \in 1 .. Len(dg_intervals)
      BY <1>3, <2>1
    <3>2. CASE j \in 1 .. Len(dg_intervals)
      BY <1>3, <2>1, <3>1, <3>2 DEF OrderInv
    <3>3. CASE j = Len(dg_intervals) + 1
      BY <1>3, <1>5, <3>1, <3>3
    <3> QED
      BY <1>6, <3>2, <3>3
  <2>2. ASSUME NEW i \in DOMAIN dg_intervals', i < Len(dg_intervals'),
               dg_intervals'[i].type = dg_intervals'[i + 1].type
        PROVE  dg_intervals'[i].end_lba + 1 < dg_intervals'[i + 1].begin_lba
    <3>1. i \in 1 .. Len(dg_intervals) /\ dg_intervals'[i] = dg_intervals[i]
      BY <1>3, <2>2
    <3>2. CASE i = Len(dg_intervals)
      <4>1. dg_intervals'[i + 1] = dg_cur
        BY <1>3, <3>2
      <4> QED
        BY <1>5, <2>2, <3>1, <3>2, <4>1
    <3>3. CASE i < Len(dg_intervals)
      <4>1. i + 1 \in 1 .. Len(dg_intervals)
        BY <1>3, <3>1, <3>3
      <4>2. dg_intervals'[i + 1] = dg_intervals[i + 1]
        BY <1>3, <4>1
      <4> QED
        BY <1>3, <2>2, <3>1, <3>3, <4>2 DEF OrderInv
    <3> QED
      BY <1>3, <3>1, <3>2, <3>3
  <2> QED
    BY <2>1, <2>2 DEF OrderInv
<1> QED
  BY <1>3, <1>6, <1>7

(* What the rows and the open interval are after a block: as they were,    *)
(* with the open interval longer or opened, or with one row more.          *)
LEMMA RowsStep ==
  ASSUME ReadInv, NEW r, Processed(r)
  PROVE  RowsInv' /\ OrderInv'
<1>1. /\ r.lba = current_lba /\ current_lba \in Int /\ current_lba' \in Int
      /\ BlockEnd(r) = current_lba' - 1 /\ current_lba < current_lba'
      /\ DgIntervalUpdate(DefectType(r), r.lba, BlockEnd(r)) /\ pc = "loop"
  BY DEF Processed, ReadInv, TypeOK
<1>2. TypeOK /\ OpenInv /\ RowsInv /\ OrderInv
  BY DEF ReadInv
<1>3. /\ dg_cur.type # "none" => dg_cur \in Interval
      /\ dg_cur.type # "none" => dg_cur.begin_lba \in Int /\ dg_cur.end_lba \in Int
  BY <1>2, OpenInterval DEF Interval
<1>4. \A i \in DOMAIN dg_intervals :
        /\ dg_intervals[i].begin_lba \in Int /\ dg_intervals[i].end_lba \in Int
        /\ dg_intervals[i].type # "none"
  <2>1. \A i \in DOMAIN dg_intervals : dg_intervals[i] \in Interval
    BY <1>2 DEF TypeOK
  <2> QED
    BY <2>1 DEF Interval, DefectTypes
<1> DEFINE opened == IF DefectType(r) = "none" THEN NoInterval
                     ELSE [type |-> DefectType(r), begin_lba |-> r.lba, end_lba |-> BlockEnd(r)]
<1>5. /\ opened.type = DefectType(r)
      /\ opened.type # "none" => opened.begin_lba = current_lba
  BY <1>1 DEF NoInterval
<1>6. CASE Extends(DefectType(r), r.lba) /\ dg_cur' = [dg_cur EXCEPT !.end_lba = BlockEnd(r)]
             /\ UNCHANGED dg_intervals
  <2>1. dg_cur.type # "none"
    BY <1>6 DEF Extends
  <2>2. /\ dg_cur'.type = dg_cur.type
        /\ dg_cur'.begin_lba = dg_cur.begin_lba /\ dg_cur'.end_lba = BlockEnd(r)
    BY <1>3, <1>6, <2>1 DEF Interval
  <2> QED
    BY <1>1, <1>2, <1>4, <1>6, <2>1, <2>2 DEF RowsInv, OrderInv
<1>7. CASE dg_cur.type = "none" /\ dg_cur' = opened /\ UNCHANGED dg_intervals
  <2> HIDE DEF opened
  <2>1. \A i \in DOMAIN dg_intervals : dg_intervals[i].end_lba + 1 < current_lba
    BY <1>1, <1>2, <1>7 DEF RowsInv
  <2> QED
    BY <1>1, <1>2, <1>4, <1>5, <1>7, <2>1 DEF RowsInv, OrderInv
<1>8. CASE Flushed(DefectType(r), r.lba, BlockEnd(r)) /\ dg_cur.type # "none"
             /\ ~Extends(DefectType(r), r.lba)
  <2>1. dg_intervals' = Append(dg_intervals, dg_cur) /\ dg_cur' = opened
    BY <1>8 DEF Flushed
  <2> HIDE DEF opened
  <2>2. dg_intervals \in Seq(Interval) /\ dg_cur \in Interval
    BY <1>2, <1>3, <1>8 DEF TypeOK
  <2>3. /\ Len(dg_intervals) \in Nat /\ DOMAIN dg_intervals = 1 .. Len(dg_intervals)
        /\ Len(dg_intervals') = Len(dg_intervals) + 1
        /\ DOMAIN dg_intervals' = 1 .. Len(dg_intervals) + 1
        /\ \A i \in 1 .. Len(dg_intervals) : dg_intervals'[i] = dg_intervals[i]
        /\ dg_intervals'[Len(dg_intervals) + 1] = dg_cur
    BY <2>1, <2>2, AppendFacts
  <2>4. /\ dg_cur.begin_lba \in Int /\ dg_cur.end_lba \in Int
        /\ dg_cur.begin_lba <= dg_cur.end_lba /\ dg_cur.end_lba < current_lba
    BY <1>2, <1>3, <1>8 DEF OpenInv
  <2>5. dg_cur.type = DefectType(r) => dg_cur.end_lba + 1 < current_lba
    BY <1>1, <1>8, <2>4 DEF Extends
  <2>7. /\ OrderInv'
        /\ \A i \in DOMAIN dg_intervals' :
             /\ i \in 1 .. Len(dg_intervals) \/ i = Len(dg_intervals) + 1
             /\ dg_intervals'[i].begin_lba \in Int /\ dg_intervals'[i].end_lba \in Int
             /\ dg_intervals'[i].begin_lba <= dg_intervals'[i].end_lba
             /\ dg_intervals'[i].end_lba < current_lba
             /\ i <= Len(dg_intervals) => dg_intervals'[i].end_lba < dg_cur.begin_lba
    BY <1>2, <1>8, <2>1, RowAdded
  <2>8. RowsInv'
    <3>1. ASSUME NEW i \in DOMAIN dg_intervals'
          PROVE  /\ dg_intervals'[i].begin_lba <= dg_intervals'[i].end_lba
                 /\ dg_intervals'[i].end_lba < current_lba'
                 /\ dg_cur'.type # "none" => dg_intervals'[i].end_lba < dg_cur'.begin_lba
                 /\ i = Len(dg_intervals') /\ dg_cur'.type = dg_intervals'[i].type =>
                      dg_intervals'[i].end_lba + 1 < dg_cur'.begin_lba
                 /\ dg_intervals'[i].end_lba + 1 < current_lba'
      <4>1. dg_cur.type # "none"
        BY <1>8
      <4>2. i = Len(dg_intervals') => dg_intervals'[i] = dg_cur
        BY <2>3
      <4> QED
        BY <1>1, <1>5, <2>1, <2>4, <2>5, <2>7, <4>1, <4>2
    <3> QED
      BY <3>1 DEF RowsInv
  <2> QED
    BY <2>7, <2>8
<1>9. CASE UNCHANGED <<dg_intervals, dg_cur>> /\ dg_cur.type # "none"
  <2>1. \A i \in DOMAIN dg_intervals : dg_intervals[i].end_lba < current_lba
    BY <1>2 DEF RowsInv
  <2> QED
    BY <1>1, <1>2, <1>4, <1>9, <2>1 DEF RowsInv, OrderInv
<1> QED
  BY <1>1, <1>6, <1>7, <1>8, <1>9 DEF DgIntervalUpdate, Flushed
-----------------------------------------------------------------------------
(* The position of read(), and the types.                                  *)

LEMMA FdStep ==
  ASSUME ReadInv, NEW status, NEW tier, NEW reach,
         NEW r, Processed(r), r.blk_status = status,
         Perform(status, tier, reach)
  PROVE  FdInv' /\ fd_lba' \in 0 .. kernel_end'
<1>1. /\ fd_lba \in 0 .. kernel_end /\ kernel_end \in Nat
      /\ current_lba \in Int /\ current_lba' \in Int
      /\ SectorsToRead \in Nat \ {0} /\ current_lba' = current_lba + SectorsToRead
      /\ (api = "posix" /\ SeekAccepts(start_lba) /\ AllOk) => fd_lba = current_lba
      /\ api' = api /\ start_lba' = start_lba /\ kernel_end' = kernel_end
  BY DEF ReadInv, TypeOK, FdInv, Processed, options
<1>2. AllOk' => AllOk /\ r.blk_status = "eOk"
  <2>1. seen \in Seq(Report) /\ r \in Report /\ seen' = Append(seen, r)
    BY DEF ReadInv, TypeOK, Processed
  <2>2. /\ DOMAIN seen = 1 .. Len(seen) /\ DOMAIN seen' = 1 .. Len(seen) + 1
        /\ \A i \in 1 .. Len(seen) : seen'[i] = seen[i]
        /\ seen'[Len(seen) + 1] = r /\ Len(seen) \in Nat
    BY <2>1, AppendFacts
  <2>3. \A i \in DOMAIN seen : i \in DOMAIN seen' /\ seen'[i] = seen[i]
    BY <2>2
  <2>4. Len(seen) + 1 \in DOMAIN seen'
    BY <2>2
  <2> QED
    BY <2>2, <2>3, <2>4 DEF AllOk
<1>3. CASE VerifyBlock(status, reach)
  <2>1. fd_lba' = fd_lba /\ api = "ata"
    BY <1>3 DEF VerifyBlock
  <2> QED
    BY <1>1, <2>1 DEF FdInv
<1>4. CASE ReadBlock(status)
  <2>1. PICK k \in 0 .. SectorsToRead :
          /\ k > 0 => fd_lba + k <= kernel_end
          /\ status = IF k = SectorsToRead THEN "eOk" ELSE "eError"
          /\ fd_lba' = IF status # "eOk" /\ SeekAccepts(current_lba) THEN current_lba
                       ELSE fd_lba + k
    BY <1>4 DEF ReadBlock
  <2>2. fd_lba' \in 0 .. kernel_end'
    <3>1. CASE status # "eOk" /\ SeekAccepts(current_lba)
      BY <1>1, <2>1, <3>1 DEF SeekAccepts
    <3>2. CASE ~(status # "eOk" /\ SeekAccepts(current_lba))
      BY <1>1, <2>1, <3>2
    <3> QED
      BY <3>1, <3>2
  <2>3. status = "eOk" => fd_lba' = fd_lba + SectorsToRead
    BY <1>1, <2>1
  <2>4. (api' = "posix" /\ SeekAccepts(start_lba)' /\ AllOk') => fd_lba' = current_lba'
    BY <1>1, <1>2, <2>3 DEF SeekAccepts
  <2> QED
    BY <2>2, <2>4 DEF FdInv
<1> QED
  BY <1>3, <1>4 DEF Perform

LEMMA ListTypes ==
  ASSUME TypeOK, NEW type \in DefectTypes \cup {"none"}, NEW b \in Int, NEW e \in Int,
         DgIntervalUpdate(type, b, e)
  PROVE  /\ dg_intervals' \in Seq(Interval) /\ dg_cur' \in Interval \cup {NoInterval}
         /\ lost' \in BOOLEAN
<1>1. /\ dg_intervals \in Seq(Interval) /\ dg_cur \in Interval \cup {NoInterval}
      /\ lost \in BOOLEAN /\ (dg_cur.type # "none" => dg_cur \in Interval)
  BY OpenInterval DEF TypeOK
<1> DEFINE opened == IF type = "none" THEN NoInterval
                     ELSE [type |-> type, begin_lba |-> b, end_lba |-> e]
<1>2. opened \in Interval \cup {NoInterval}
  BY DEF Interval
<1>3. CASE Extends(type, b) /\ dg_cur' = [dg_cur EXCEPT !.end_lba = e]
             /\ UNCHANGED <<dg_intervals, lost>>
  <2>1. dg_cur \in Interval
    BY <1>1, <1>3 DEF Extends
  <2> QED
    BY <1>1, <1>3, <2>1 DEF Interval
<1>4. CASE dg_cur' = opened /\ UNCHANGED <<dg_intervals, lost>>
  BY <1>1, <1>2, <1>4
<1>5. CASE Flushed(type, b, e) /\ dg_cur.type # "none"
  <2>1. dg_intervals' = Append(dg_intervals, dg_cur) /\ dg_cur' = opened /\ lost' = lost
    BY <1>5 DEF Flushed
  <2> HIDE DEF opened
  <2> QED
    BY <1>1, <1>2, <1>5, <2>1, AppendFacts
<1>6. CASE lost' = (lost \/ type # "none") /\ UNCHANGED <<dg_intervals, dg_cur>>
  BY <1>1, <1>6
<1> QED
  BY <1>3, <1>4, <1>5, <1>6 DEF DgIntervalUpdate

LEMMA TypeStep ==
  ASSUME ReadInv, NEW r, Processed(r), fd_lba' \in 0 .. kernel_end'
  PROVE  TypeOK'
<1>1. TypeOK
  BY DEF ReadInv
<1>2. /\ r \in Report /\ report' = r /\ perform_ret' \in {0, 1} /\ pc' = "callback"
      /\ num' = num + 1 /\ stats' = Accumulated(r) /\ seen' = Append(seen, r)
      /\ DgIntervalUpdate(DefectType(r), r.lba, BlockEnd(r))
      /\ UNCHANGED <<result, options, kernel_end, den, saved>>
      /\ current_lba' = current_lba + SectorsToRead
      /\ lba_to_process' = lba_to_process - SectorsToRead
      /\ SectorsToRead \in Nat /\ SectorsToRead <= lba_to_process
  BY DEF Processed
<1>3. current_lba' \in Int /\ lba_to_process' \in Nat
  BY <1>1, <1>2 DEF TypeOK
<1>4. stats' \in Stats
  <2>1. stats \in Stats
    BY <1>1 DEF TypeOK
  <2> QED
    BY <1>2, <2>1, AccumulatedFields
<1>5. seen' \in Seq(Report)
  <2>1. seen \in Seq(Report)
    BY <1>1 DEF TypeOK
  <2> QED
    BY <1>2, <2>1, AppendFacts
<1>6. /\ dg_intervals' \in Seq(Interval) /\ dg_cur' \in Interval \cup {NoInterval}
      /\ lost' \in BOOLEAN
  <2>1. r.lba \in Int /\ BlockEnd(r) \in Int
    BY <1>2 DEF Report, BlockEnd
  <2> QED
    BY <1>1, <1>2, <2>1, BlockType, ListTypes
<1>7. num' \in Nat
  BY <1>1, <1>2 DEF TypeOK
<1> QED
  BY <1>1, <1>2, <1>3, <1>4, <1>5, <1>6, <1>7 DEF TypeOK, options

(* A block preserves the invariant.                                        *)
LEMMA PerformPreserves ==
  ASSUME ReadInv, NEW status \in {"eOk"} \cup Failures, NEW tier \in Tiers,
         NEW reach \in Reaches, status # "eOk" => tier = 0,
         Perform(status, tier, reach)
  PROVE  ReadInv'
<1> DEFINE r == [lba |-> current_lba, sectors_processed |-> SectorsToRead,
                 blk_status |-> status, tier |-> tier]
<1>1. Processed(r) /\ r.blk_status = status
  BY PerformedBlock
<1> HIDE DEF r
<1>2. RangeInv' /\ SeenInv'
  BY <1>1, RangeStep
<1>3. FdInv' /\ fd_lba' \in 0 .. kernel_end'
  BY <1>1, FdStep
<1>4. TypeOK'
  BY <1>1, <1>3, TypeStep
<1>5. ListedInv' /\ OpenInv' /\ RowsInv' /\ OrderInv'
  BY <1>1, ListedStep, OpenStep, RowsStep
<1>6. StatsOfSeen(stats)'
  BY <1>1, SummaryStep
<1>7. SavedInv'
  <2>1. SavedInv /\ pc = "loop" /\ pc' = "callback" /\ saved' = saved
    BY <1>1 DEF ReadInv, Processed
  <2>2. saved.report = {} /\ saved.defects = {}
    BY <2>1 DEF SavedInv
  <2> QED
    BY <2>1, <2>2 DEF SavedInv
<1> QED
  BY <1>2, <1>3, <1>4, <1>5, <1>6, <1>7 DEF ReadInv
-----------------------------------------------------------------------------
(* The other steps.                                                        *)

(* Before the first block: of no test, or of the test just opened.         *)
Fresh ==
  /\ \/ api = "none" /\ pc = "closed" /\ start_lba = 0 /\ end_lba = 0 /\ sectors_at_once = 0
     \/ /\ api \in {"ata", "posix"} /\ pc = "loop" /\ start_lba \in Int /\ end_lba \in Int
        /\ sectors_at_once \in BlockSizes
        /\ Accepts(start_lba, end_lba, sectors_at_once)
        /\ den = Blocks(end_lba - start_lba, sectors_at_once)
  /\ result = "none" /\ den \in Nat /\ num = 0
  /\ current_lba = start_lba /\ lba_to_process = end_lba - start_lba
  /\ kernel_end \in Nat /\ fd_lba = IF SeekAccepts(start_lba) THEN start_lba ELSE 0
  /\ report = EmptyReport /\ perform_ret = 0
  /\ stats = ZeroStats /\ dg_intervals = <<>> /\ dg_cur = NoInterval
  /\ seen = <<>> /\ lost = FALSE
  /\ saved = [report |-> {}, defects |-> {}]

LEMMA FreshIsFine == Fresh => ReadInv
<1> SUFFICES ASSUME Fresh PROVE ReadInv
  OBVIOUS
<1>1. /\ start_lba \in Int /\ end_lba \in Int /\ end_lba <= Capacity
      /\ end_lba - start_lba \in Nat /\ sectors_at_once \in Nat
  <2>1. CASE api = "none"
    BY <2>1, CapacityAssumption DEF Fresh
  <2>2. CASE api # "none"
    <3>1. /\ start_lba \in Int /\ end_lba \in Int /\ sectors_at_once \in Int
          /\ sectors_at_once > 0 /\ end_lba > start_lba /\ end_lba <= Capacity
      BY <2>2, BlockSizesAssumption DEF Fresh, Accepts
    <3> QED
      BY <3>1, CapacityAssumption
  <2> QED
    BY <2>1, <2>2
<1>2. ZeroStats \in Stats
  BY DEF ZeroStats, Stats
<1>3. DOMAIN seen = {} /\ Len(seen) = 0 /\ DOMAIN dg_intervals = {} /\ Len(dg_intervals) = 0
  BY DEF Fresh
<1>4. /\ <<>> \in Seq(Report) /\ <<>> \in Seq(Interval)
  OBVIOUS
<1>5. TypeOK
  <2>1. fd_lba \in 0 .. kernel_end
    BY <1>1 DEF Fresh, SeekAccepts
  <2> QED
    BY <1>1, <1>2, <1>4, <2>1 DEF Fresh, TypeOK
<1>6. RangeInv
  <2>1. num * sectors_at_once = 0 /\ start_lba \in Int /\ end_lba \in Int
    BY <1>1 DEF Fresh
  <2>2. api # "none" => start_lba < end_lba /\ sectors_at_once > 0 /\ sectors_at_once \in BlockSizes
    BY <2>1, BlockSizesAssumption DEF Fresh, Accepts
  <2>3. api = "none" => start_lba = 0 /\ end_lba = 0 /\ pc = "closed"
    BY DEF Fresh
  <2>4. api # "none" => den = Blocks(end_lba - start_lba, sectors_at_once)
    BY DEF Fresh
  <2>5. /\ num = 0 /\ current_lba = start_lba /\ lba_to_process = end_lba - start_lba
        /\ result = "none"
    BY DEF Fresh
  <2> QED
    BY <1>3, <2>1, <2>2, <2>3, <2>4, <2>5 DEF RangeInv
<1>7. SeenInv
  <2>1. Covered(seen) = {}
    BY <1>3 DEF Covered
  <2>2. start_lba .. current_lba - 1 = {}
    BY <1>1 DEF Fresh
  <2> QED
    BY <1>3, <2>1, <2>2 DEF SeenInv
<1>8. FdInv
  BY <1>1 DEF Fresh, FdInv
<1>9. ListedInv
  <2>1. ASSUME NEW t \in DefectTypes
        PROVE  SectorsListed(Append(dg_intervals, dg_cur), t) = {} /\ SectorsSeen(t) = {}
    <3>1. dg_intervals \in Seq(AnyInterval) /\ dg_cur \in AnyInterval
      BY DEF Fresh, AnyInterval
    <3>2. SectorsListed(dg_intervals, t) = {} /\ SectorsSeen(t) = {}
      BY <1>3 DEF SectorsListed, SectorsSeen
    <3>3. dg_cur.type # t
      BY DEF Fresh, NoInterval, DefectTypes
    <3> QED
      BY <3>1, <3>2, <3>3, ListedGrows
  <2>2. dg_cur.type = "none"
    BY DEF Fresh, NoInterval
  <2> QED
    BY <2>1, <2>2 DEF ListedInv
<1>10. OpenInv /\ RowsInv /\ OrderInv
  BY <1>3 DEF OpenInv, RowsInv, OrderInv, Fresh, NoInterval
<1>11. SavedInv
  BY DEF SavedInv, Fresh
<1>12. StatsOfSeen(stats)
  <2>1. seen \in Seq(Report) /\ seen = <<>> /\ stats = ZeroStats
    BY DEF Fresh
  <2>2. StatsByCount
    <3>1. \A i \in DOMAIN seen : seen[i] \notin FailedBlocks
      BY <1>3
    <3>2. ErrorRange
      BY <2>1, <3>1 DEF ErrorRange, ZeroStats
    <3> QED
      BY <1>3, <2>1, <3>2, CountEmpty DEF StatsByCount, ZeroStats
  <2> QED
    BY <2>1, <2>2, SeenCounts
<1> QED
  BY <1>5, <1>6, <1>7, <1>8, <1>9, <1>10, <1>11, <1>12 DEF ReadInv

LEMMA InitFresh == Init => ReadInv
<1>1. Init => Fresh
  BY CapacityAssumption DEF Init, Fresh, SeekAccepts
<1> QED
  BY <1>1, FreshIsFine

LEMMA OpenPreserves == Open => ReadInv'
<1>1. ASSUME Open PROVE Fresh'
  <2>1. PICK a \in Apis, s \in Starts, e \in Ends, n \in BlockSizes :
          /\ Accepts(s, e, n)
          /\ api' = a /\ start_lba' = s /\ end_lba' = e /\ sectors_at_once' = n
          /\ current_lba' = s /\ lba_to_process' = e - s
          /\ num' = 0 /\ den' = Blocks(e - s, n)
          /\ kernel_end' \in KernelEnds
          /\ fd_lba' = IF SeekAccepts(s)' THEN s ELSE 0
    BY <1>1 DEF Open
  <2>2. s \in Int /\ e \in Int /\ a \in {"ata", "posix"} /\ n \in Int
    BY RangeAssumption, ApisAssumption, BlockSizesAssumption
  <2>3. e - s \in Nat \ {0} /\ n \in Nat \ {0}
    BY <2>1, <2>2 DEF Accepts
  <2>4. den' \in Nat
    BY <2>1, <2>3, BlocksBound
  <2>5. /\ report' = EmptyReport /\ perform_ret' = 0
        /\ stats' = ZeroStats /\ dg_intervals' = <<>> /\ dg_cur' = NoInterval
        /\ seen' = <<>> /\ lost' = FALSE
        /\ saved' = [report |-> {}, defects |-> {}]
        /\ pc' = "loop" /\ result' = "none"
    BY <1>1 DEF Open
  <2>6. /\ api' \in {"ata", "posix"} /\ start_lba' \in Int /\ end_lba' \in Int
        /\ sectors_at_once' \in BlockSizes
        /\ Accepts(start_lba', end_lba', sectors_at_once')
        /\ den' = Blocks(end_lba' - start_lba', sectors_at_once')
        /\ num' = 0 /\ current_lba' = start_lba' /\ lba_to_process' = end_lba' - start_lba'
    BY <2>1, <2>2
  <2>7. kernel_end' \in Nat /\ fd_lba' = IF SeekAccepts(start_lba)' THEN start_lba' ELSE 0
    BY <2>1, KernelAssumption DEF SeekAccepts
  <2> QED
    BY <2>4, <2>5, <2>6, <2>7 DEF Fresh, Accepts, Blocks, SeekAccepts
<1>2. Fresh' => ReadInv'
  BY FreshIsFine, PTL
<1> QED
  BY <1>1, <1>2

(* The parts of the invariant that do not change with what they are about. *)
LEMMA SameLists ==
  ASSUME ReadInv, UNCHANGED <<options, cursor, accumulators>>
  PROVE  /\ SeenInv' /\ FdInv' /\ OpenInv' /\ OrderInv' /\ StatsOfSeen(stats)'
         /\ \A t \in DefectTypes :
              /\ SectorsListed(Append(dg_intervals, dg_cur), t)' \subseteq SectorsSeen(t)'
              /\ ~lost => SectorsSeen(t)'
                            \subseteq SectorsListed(Append(dg_intervals, dg_cur), t)'
<1>1. SeenInv' /\ FdInv' /\ OpenInv' /\ OrderInv'
  BY DEF ReadInv, SeenInv, Covered, FdInv, AllOk, OpenInv, OrderInv, BlockSectors, BlockEnd,
         SeekAccepts, options, cursor, accumulators
<1>2. StatsOfSeen(stats)'
  <2>1. seen \in Seq(Report) /\ StatsByCount
    BY SeenCounts DEF ReadInv, TypeOK
  <2>2. seen' = seen /\ stats' = stats /\ start_lba' = start_lba
    BY DEF accumulators, options
  <2>3. seen' \in Seq(Report) /\ StatsByCount'
    BY <2>1, <2>2 DEF StatsByCount, ErrorRange, CountIn, FailedBlocks, BlocksOk, BlocksWith, BlockEnd
  <2>4. (seen \in Seq(Report) => (StatsOfSeen(stats) <=> StatsByCount))'
    BY SeenCounts, PTL
  <2> QED
    BY <2>3, <2>4
<1>3. ASSUME NEW t \in DefectTypes
      PROVE  /\ SectorsListed(Append(dg_intervals, dg_cur), t)'
                  = SectorsListed(Append(dg_intervals, dg_cur), t)
             /\ SectorsSeen(t)' = SectorsSeen(t)
  BY DEF SectorsListed, SectorsSeen, DefectType, BlockSectors, BlockEnd, accumulators
<1> QED
  BY <1>1, <1>2, <1>3 DEF ReadInv, ListedInv

(* The loop moves on, or ends.                                             *)
LEMMA LoopMoves ==
  ASSUME ReadInv, UNCHANGED <<options, cursor, block, accumulators, saved>>,
         pc \in {"loop", "callback"}, pc' \in {"loop", "callback", "closing"},
         result' \in {"finished", "interrupted", "stopped", result},
         result' = "finished" => lba_to_process = 0 /\ pc' = "closing"
  PROVE  ReadInv'
<1>1. SeenInv' /\ FdInv' /\ OpenInv' /\ OrderInv' /\ StatsOfSeen(stats)'
  BY SameLists
<1>2. TypeOK'
  BY DEF ReadInv, TypeOK, options, cursor, block, accumulators
<1>3. RangeInv'
  BY DEF ReadInv, RangeInv, Blocks, options, cursor, accumulators
<1>4. ListedInv'
  BY SameLists DEF ListedInv, accumulators
<1>5. RowsInv'
  BY DEF ReadInv, RowsInv, cursor, accumulators
<1>6. SavedInv'
  BY DEF ReadInv, SavedInv, accumulators
<1> QED
  BY <1>1, <1>2, <1>3, <1>4, <1>5, <1>6 DEF ReadInv

LEMMA LoopPreserves ==
  ASSUME ReadInv, Callback \/ LoopFinished \/ LoopInterrupted
  PROVE  ReadInv'
<1>1. CASE Callback
  <2>1. result # "finished"
    BY <1>1 DEF Callback, ReadInv, RangeInv
  <2> QED
    BY <1>1, <2>1, LoopMoves DEF Callback
<1>2. CASE LoopFinished
  <2>1. api # "none" /\ pc = "loop" /\ num >= den
    BY <1>2 DEF LoopFinished, ReadInv, RangeInv
  <2>2. num \in Nat /\ den \in Nat
    BY DEF ReadInv, TypeOK
  <2>3. lba_to_process = 0
    BY <2>1, <2>2, LoopCounts DEF ReadInv
  <2> QED
    BY <1>2, <2>3, LoopMoves DEF LoopFinished
<1>3. CASE LoopInterrupted
  BY <1>3, LoopMoves DEF LoopInterrupted
<1> QED
  BY <1>1, <1>2, <1>3

LEMMA WriteReportPreserves == ASSUME ReadInv, WriteReport PROVE ReadInv'
<1>1. /\ UNCHANGED <<options, cursor, block, accumulators>> /\ result' = result
      /\ pc = "closing" /\ pc' = "defects"
  BY DEF WriteReport
<1>2. SeenInv' /\ FdInv' /\ OpenInv' /\ OrderInv' /\ StatsOfSeen(stats)'
  BY <1>1, SameLists
<1>3. SavedInv' /\ saved'.report \subseteq Stats /\ saved'.defects \subseteq Seq(Interval)
  <2>1. stats \in Stats /\ SavedInv
    BY DEF ReadInv, TypeOK
  <2>2. saved \in [report : SUBSET Stats, defects : SUBSET Seq(Interval)] /\ saved.defects = {}
    BY <1>1, <2>1 DEF SavedInv
  <2>3. saved' = [saved EXCEPT !.report = {stats}] \/ saved' = saved
    BY DEF WriteReport
  <2>4. /\ saved' \in [report : SUBSET Stats, defects : SUBSET Seq(Interval)]
        /\ saved'.defects = {} /\ saved'.report \subseteq {stats}
    <3>1. CASE saved' = saved
      BY <2>1, <2>2, <3>1 DEF SavedInv
    <3>2. CASE saved' = [saved EXCEPT !.report = {stats}]
      <4>1. saved' = [report |-> {stats}, defects |-> {}]
        BY <2>2, <3>2
      <4> QED
        BY <2>1, <4>1
    <3> QED
      BY <2>3, <3>1, <3>2
  <2>5. stats' = stats
    BY <1>1 DEF accumulators
  <2> QED
    BY <1>1, <2>4, <2>5 DEF SavedInv
<1>4. TypeOK'
  BY <1>1, <1>3 DEF ReadInv, TypeOK, options, cursor, block, accumulators
<1>5. RangeInv'
  BY <1>1 DEF ReadInv, RangeInv, Blocks, options, cursor, accumulators
<1>6. ListedInv'
  BY <1>1, SameLists DEF ListedInv, accumulators
<1>7. RowsInv'
  BY <1>1 DEF ReadInv, RowsInv, cursor, accumulators
<1> QED
  BY <1>2, <1>3, <1>4, <1>5, <1>6, <1>7 DEF ReadInv
(* Close flushes the open interval, which is the update of the list for a  *)
(* block without a defect, but for what a failed realloc() costs.          *)
LEMMA FlushStep ==
  ASSUME ReadInv, FlushOpenInterval, pc' = "closed", seen' = seen, cursor' = cursor
  PROVE  /\ ListedInv' /\ OpenInv' /\ RowsInv' /\ OrderInv'
         /\ dg_intervals' \in Seq(Interval) /\ dg_cur' \in Interval \cup {NoInterval}
         /\ lost' \in BOOLEAN
<1>1. TypeOK /\ OpenInv /\ RowsInv /\ OrderInv /\ current_lba' = current_lba
  BY DEF ReadInv, cursor
<1>2. \A t \in DefectTypes :
        /\ SectorsSeen(t)' = SectorsSeen(t)
        /\ SectorsListed(Append(dg_intervals, dg_cur), t) \subseteq SectorsSeen(t)
        /\ ~lost => SectorsSeen(t) \subseteq SectorsListed(Append(dg_intervals, dg_cur), t)
  BY DEF ReadInv, ListedInv, SectorsSeen, DefectType, BlockSectors, BlockEnd
<1>3. /\ dg_intervals \in Seq(Interval) /\ dg_cur \in Interval \cup {NoInterval}
      /\ lost \in BOOLEAN
      /\ dg_cur.type = "none" => dg_cur = NoInterval
      /\ dg_cur.type # "none" => dg_cur \in Interval
  BY <1>1, OpenInterval DEF TypeOK
<1>4. CASE UNCHANGED <<dg_intervals, dg_cur>>
             /\ (lost' = TRUE \/ (lost' = lost /\ dg_cur.type = "none"))
  <2>1. \A t \in DefectTypes :
          SectorsListed(Append(dg_intervals, dg_cur), t)' = SectorsListed(Append(dg_intervals, dg_cur), t)
    BY <1>4 DEF SectorsListed
  <2>2. ListedInv'
    BY <1>2, <1>4, <2>1 DEF ListedInv
  <2>3. OpenInv' /\ RowsInv' /\ OrderInv'
    BY <1>1, <1>4 DEF OpenInv, RowsInv, OrderInv
  <2> QED
    BY <1>3, <1>4, <2>2, <2>3
<1>5. CASE dg_cur.type # "none" /\ Flushed("none", 0, -1)
  <2>1. dg_intervals' = Append(dg_intervals, dg_cur) /\ dg_cur' = NoInterval /\ lost' = lost
    BY <1>5 DEF Flushed
  <2>2. DgIntervalUpdate("none", 0, 0)
    BY <1>5 DEF DgIntervalUpdate, Flushed, Extends
  <2>3. /\ OrderInv' /\ dg_intervals' \in Seq(Interval)
        /\ \A i \in DOMAIN dg_intervals' :
             /\ dg_intervals'[i].begin_lba <= dg_intervals'[i].end_lba
             /\ dg_intervals'[i].end_lba < current_lba
    BY <1>1, <1>5, <2>1, RowAdded
  <2>4. ListedInv'
    <3>1. ASSUME NEW t \in DefectTypes
          PROVE  /\ SectorsListed(Append(dg_intervals', dg_cur'), t) \subseteq SectorsSeen(t)'
                 /\ ~lost' => SectorsSeen(t)'
                                \subseteq SectorsListed(Append(dg_intervals', dg_cur'), t)
      <4> DEFINE old == SectorsListed(Append(dg_intervals, dg_cur), t)
                 new == SectorsListed(Append(dg_intervals', dg_cur'), t)
                 block_t == IF "none" = t THEN 0 .. 0 ELSE {}
      <4>1. old \subseteq new /\ new \subseteq old \cup block_t
        <5> HIDE DEF old, new, block_t
        <5> QED
          BY <1>1, <2>2, ListedUpdate DEF old, new, block_t
      <4>2. block_t = {}
        BY DEF DefectTypes
      <4> QED
        BY <1>2, <2>1, <4>1, <4>2
    <3>2. dg_cur'.type = "none"
      BY <2>1 DEF NoInterval
    <3> QED
      BY <3>1, <3>2 DEF ListedInv, SectorsListed
  <2>5. OpenInv' /\ RowsInv'
    <3>1. dg_cur'.type = "none" /\ \A i \in DOMAIN dg_intervals' : dg_intervals'[i].type # "none"
      <4>1. \A i \in DOMAIN dg_intervals' : dg_intervals'[i] \in Interval
        BY <2>3
      <4> QED
        BY <2>1, <4>1 DEF NoInterval, Interval, DefectTypes
    <3> QED
      BY <1>1, <2>3, <3>1 DEF OpenInv, RowsInv
  <2> QED
    BY <1>3, <2>1, <2>3, <2>4, <2>5
<1> QED
  BY <1>4, <1>5 DEF FlushOpenInterval

LEMMA WriteDgReportPreserves == ASSUME ReadInv, WriteDgReport PROVE ReadInv'
<1>1. /\ UNCHANGED <<result, options, cursor, block, stats, seen>>
      /\ pc = "defects" /\ pc' = "closed" /\ FlushOpenInterval
  BY DEF WriteDgReport
<1>2. /\ ListedInv' /\ OpenInv' /\ RowsInv' /\ OrderInv'
      /\ dg_intervals' \in Seq(Interval) /\ dg_cur' \in Interval \cup {NoInterval}
      /\ lost' \in BOOLEAN
  BY <1>1, FlushStep
<1>3. SeenInv' /\ FdInv'
  BY <1>1 DEF ReadInv, SeenInv, Covered, FdInv, AllOk, BlockSectors, BlockEnd, SeekAccepts,
              options, cursor
<1>4. StatsOfSeen(stats)'
  <2>1. seen \in Seq(Report) /\ StatsByCount
    BY SeenCounts DEF ReadInv, TypeOK
  <2>2. seen' \in Seq(Report) /\ StatsByCount'
    BY <1>1, <2>1 DEF StatsByCount, ErrorRange, CountIn, FailedBlocks, BlocksOk, BlocksWith,
                      BlockEnd, options
  <2>3. (seen \in Seq(Report) => (StatsOfSeen(stats) <=> StatsByCount))'
    BY SeenCounts, PTL
  <2> QED
    BY <2>2, <2>3
<1>5. SavedInv' /\ saved'.report \subseteq Stats /\ saved'.defects \subseteq Seq(Interval)
  <2>1. /\ SavedInv /\ saved \in [report : SUBSET Stats, defects : SUBSET Seq(Interval)]
        /\ saved.report \subseteq {stats} /\ saved.defects = {}
    BY <1>1 DEF ReadInv, SavedInv
  <2>2. saved' = [saved EXCEPT !.defects = {dg_intervals'}] \/ saved' = saved
    BY DEF WriteDgReport
  <2>3. /\ saved' \in [report : SUBSET Stats, defects : SUBSET Seq(Interval)]
        /\ saved'.defects \subseteq {dg_intervals'} /\ saved'.report = saved.report
    <3>1. CASE saved' = saved
      BY <2>1, <3>1
    <3>2. CASE saved' = [saved EXCEPT !.defects = {dg_intervals'}]
      <4>1. saved' = [report |-> saved.report, defects |-> {dg_intervals'}]
        BY <2>1, <3>2
      <4> QED
        BY <1>2, <2>1, <4>1
    <3> QED
      BY <2>2, <3>1, <3>2
  <2> QED
    BY <1>1, <2>1, <2>3 DEF SavedInv
<1>6. TypeOK'
  BY <1>1, <1>2, <1>5 DEF ReadInv, TypeOK, options, cursor, block
<1>7. RangeInv'
  BY <1>1 DEF ReadInv, RangeInv, Blocks, options, cursor
<1> QED
  BY <1>2, <1>3, <1>4, <1>5, <1>6, <1>7 DEF ReadInv

(* Nothing but the result changes: a refused Open, or no step at all.      *)
LEMMA IdlePreserves ==
  ASSUME ReadInv, UNCHANGED <<pc, options, cursor, block, accumulators, saved>>,
         result' = "open_failed" \/ result' = result
  PROVE  ReadInv'
<1>1. SeenInv' /\ FdInv' /\ OpenInv' /\ OrderInv' /\ StatsOfSeen(stats)'
  BY SameLists
<1>2. TypeOK'
  BY DEF ReadInv, TypeOK, options, cursor, block, accumulators
<1>3. RangeInv'
  BY DEF ReadInv, RangeInv, Blocks, options, cursor, accumulators
<1>4. ListedInv'
  <2>1. pc' = pc /\ dg_cur' = dg_cur /\ lost' = lost
    BY DEF accumulators
  <2>2. pc = "closed" /\ ~lost => dg_cur.type = "none"
    BY DEF ReadInv, ListedInv
  <2> QED
    BY <2>1, <2>2, SameLists DEF ListedInv
<1>5. RowsInv'
  BY DEF ReadInv, RowsInv, cursor, accumulators
<1>6. SavedInv'
  BY DEF ReadInv, SavedInv, accumulators
<1> QED
  BY <1>1, <1>2, <1>3, <1>4, <1>5, <1>6 DEF ReadInv

-----------------------------------------------------------------------------
(* The theorems.                                                           *)

LEMMA StepPreserves == ReadInv /\ [Next]_vars => ReadInv'
<1> SUFFICES ASSUME ReadInv, [Next]_vars PROVE ReadInv'
  OBVIOUS
<1>1. CASE Open
  BY <1>1, OpenPreserves
<1>2. CASE OpenFails
  BY <1>2, IdlePreserves DEF OpenFails
<1>3. CASE PerformStep
  BY <1>3, PerformPreserves DEF PerformStep
<1>4. CASE Callback \/ LoopFinished \/ LoopInterrupted
  BY <1>4, LoopPreserves
<1>5. CASE WriteReport
  BY <1>5, WriteReportPreserves
<1>6. CASE WriteDgReport
  BY <1>6, WriteDgReportPreserves
<1>7. CASE UNCHANGED vars
  BY <1>7, IdlePreserves DEF vars
<1> QED
  BY <1>1, <1>2, <1>3, <1>4, <1>5, <1>6, <1>7 DEF Next, SessionStep

(* The inductive invariant of the read test.                               *)
THEOREM ReadInvariant == Spec => []ReadInv
BY InitFresh, StepPreserves, PTL DEF Spec

(* Every variable stays within its type: the descriptor within the device, *)
(* what is left to read and the counters never negative.                   *)
THEOREM ReadTypes == Spec => []TypeOK
<1>1. ReadInv => TypeOK
  BY DEF ReadInv
<1> QED
  BY <1>1, ReadInvariant, PTL

(* The blocks tile the range from its first sector, and a test that ends   *)
(* as finished has been through all of it: Open rounds the number of       *)
(* blocks as Perform cuts the last one.                                    *)
THEOREM FinishedScanIsWhole == Spec => []ScanTilesRange
<1>1. ReadInv => ScanTilesRange
  <2> SUFFICES ASSUME ReadInv PROVE ScanTilesRange
    OBVIOUS
  <2>1. /\ start_lba \in Int /\ end_lba \in Int /\ current_lba \in Int /\ lba_to_process \in Nat
        /\ lba_to_process = end_lba - current_lba /\ seen \in Seq(Report)
    BY DEF ReadInv, TypeOK, RangeInv
  <2>2. ASSUME NEW i \in DOMAIN seen
        PROVE  /\ seen[i].lba = start_lba + (i - 1) * sectors_at_once
               /\ BlockEnd(seen[i]) < end_lba
               /\ i < Len(seen) => seen[i].sectors_processed = sectors_at_once
    <3>1. /\ seen[i].lba = start_lba + (i - 1) * sectors_at_once
          /\ BlockEnd(seen[i]) < current_lba
          /\ i < Len(seen) => seen[i].sectors_processed = sectors_at_once
      BY DEF ReadInv, SeenInv
    <3>2. seen[i] \in Report
      BY <2>1
    <3>3. BlockEnd(seen[i]) \in Int
      BY <3>2 DEF Report, BlockEnd
    <3> QED
      BY <2>1, <3>1, <3>3
  <2>3. pc = "loop" => (num = den <=> lba_to_process = 0)
    <3>1. pc = "loop" => api # "none"
      BY DEF ReadInv, RangeInv
    <3> QED
      BY <3>1, LoopCounts DEF ReadInv
  <2>4. result = "finished" => Covered(seen) = start_lba .. end_lba - 1
    <3>1. result = "finished" => current_lba = end_lba
      BY <2>1 DEF ReadInv, RangeInv
    <3> QED
      BY <3>1 DEF ReadInv, SeenInv
  <2> QED
    BY <2>2, <2>3, <2>4 DEF ScanTilesRange
<1> QED
  BY <1>1, ReadInvariant, PTL

(* The defect list never has a sector that is not of a block of its type,  *)
(* and its rows ascend, whatever allocations fail.                         *)
THEOREM ListIsHonest == Spec => []NothingInvented
<1>1. ReadInv => NothingInvented
  BY DEF ReadInv, ListedInv, OrderInv, NothingInvented
<1> QED
  BY <1>1, ReadInvariant, PTL

(* The defect list Close writes is that of the blocks seen, unless an      *)
(* allocation has failed.                                                  *)
THEOREM DefectFileIsExact == Spec => []SavedDefectsAreExact
<1>1. ReadInv => SavedDefectsAreExact
  <2> SUFFICES ASSUME ReadInv, pc = "closed", ~lost, NEW list \in saved.defects
               PROVE  DefectsOfSeen(list)
    BY DEF SavedDefectsAreExact
  <2>1. list = dg_intervals
    BY DEF ReadInv, SavedInv
  <2>2. ASSUME NEW t \in DefectTypes
        PROVE  SectorsListed(dg_intervals, t) = SectorsSeen(t)
    <3>1. dg_cur.type = "none" /\ TypeOK
      BY DEF ReadInv, ListedInv
    <3>2. dg_intervals \in Seq(AnyInterval) /\ dg_cur \in AnyInterval
      BY <3>1, OpenInterval
    <3>3. SectorsListed(Append(dg_intervals, dg_cur), t) = SectorsListed(dg_intervals, t)
      <4>1. dg_cur.type # t
        BY <3>1 DEF DefectTypes
      <4>2. SectorsListed(Append(dg_intervals, dg_cur), t)
              = SectorsListed(dg_intervals, t)
                  \cup (IF dg_cur.type = t THEN dg_cur.begin_lba .. dg_cur.end_lba ELSE {})
        BY <3>2, ListedGrows
      <4> QED
        BY <4>1, <4>2
    <3> QED
      BY <3>3 DEF ReadInv, ListedInv
  <2> QED
    BY <2>1, <2>2 DEF DefectsOfSeen, ReadInv, OrderInv
<1> QED
  BY <1>1, ReadInvariant, PTL

(* The summary Close writes is that of the blocks seen, in whatever way    *)
(* the test ended.                                                         *)
THEOREM SummaryFileIsExact == Spec => []SavedSummaryIsExact
<1>1. ReadInv => SavedSummaryIsExact
  BY DEF ReadInv, SavedInv, SavedSummaryIsExact
<1> QED
  BY <1>1, ReadInvariant, PTL

(* What a command of the drive works on is what the report says, and so is *)
(* what read() reads until it fails if the seek to the start was accepted, *)
(* for all block sizes that the count field can hold: those the user may   *)
(* pick are 256, 1024 and 4096 (read_test.c:488).                          *)
THEOREM ReportsVerifiedSectors ==
  ASSUME \A n \in BlockSizes : n <= CountModulus
  PROVE  Spec => []VerifiesReportedBlock
<1>1. ASSUME ReadInv, [Next]_vars, VerifiesReportedBlock
      PROVE  VerifiesReportedBlock'
  <2>1. CASE PerformStep
    <3>1. PICK status \in {"eOk"} \cup Failures, tier \in Tiers, reach \in Reaches :
            (status # "eOk" => tier = 0) /\ Perform(status, tier, reach)
      BY <2>1 DEF PerformStep
    <3> DEFINE r == [lba |-> current_lba, sectors_processed |-> SectorsToRead,
                     blk_status |-> status, tier |-> tier]
    <3>2. Processed(r) /\ r.lba = current_lba /\ r.sectors_processed = SectorsToRead
      BY <1>1, <3>1, PerformedBlock
    <3> HIDE DEF r
    <3>3. /\ current_lba \in Int /\ SectorsToRead \in 1 .. sectors_at_once
          /\ sectors_at_once \in BlockSizes /\ sectors_at_once \in Nat /\ api' = api
          /\ report' = r /\ start_lba' = start_lba /\ kernel_end' = kernel_end
      BY <1>1, <3>2 DEF Processed, ReadInv, RangeInv, TypeOK, options
    <3>4. BlockSectors(report') = current_lba .. current_lba + SectorsToRead - 1
      BY <3>2, <3>3 DEF BlockSectors, BlockEnd
    <3>5. CASE VerifyBlock(status, reach)
      <4>0. start_lba >= 0 => AddressField(current_lba) = current_lba
        <5>1. /\ start_lba \in Int /\ start_lba <= current_lba
              /\ end_lba \in Int /\ end_lba <= Capacity
              /\ end_lba - current_lba > 0
          BY <1>1, <3>2 DEF Processed, ReadInv, RangeInv, TypeOK
        <5> QED
          BY <3>3, <5>1, CapacityAssumption, AddressAssumption DEF AddressField
      <4>1. SectorsToRead \in Nat /\ SectorsToRead > 0 /\ SectorsToRead <= CountModulus
        BY <3>3, CountModulusAssumption
      <4>2. (IF CountField(SectorsToRead) = 0 THEN CountModulus ELSE CountField(SectorsToRead))
              = SectorsToRead
        BY <4>1, CountModulusAssumption DEF CountField
      <4>3. start_lba >= 0 =>
              VerifiedSectors(current_lba, SectorsToRead) = BlockSectors(report')
        BY <3>4, <4>0, <4>2 DEF VerifiedSectors
      <4>4. probed' # {} => probed' = VerifiedSectors(current_lba, SectorsToRead)
        BY <3>5 DEF VerifyBlock
      <4> QED
        BY <3>3, <3>5, <4>3, <4>4 DEF VerifyBlock, VerifiesReportedBlock, BlockSectors, BlockEnd
    <3>6. CASE ReadBlock(status)
      <4>1. probed' = fd_lba .. fd_lba + SectorsToRead - 1 /\ api' = "posix"
        BY <3>3, <3>6 DEF ReadBlock
      <4>2. NoEarlierError' => AllOk
        <5>1. seen \in Seq(Report) /\ r \in Report /\ seen' = Append(seen, r)
          BY <1>1, <3>2 DEF ReadInv, TypeOK, Processed
        <5>2. /\ DOMAIN seen = 1 .. Len(seen) /\ Len(seen') - 1 = Len(seen)
              /\ \A i \in 1 .. Len(seen) : seen'[i] = seen[i]
          BY <5>1, AppendFacts
        <5> QED
          BY <5>2 DEF NoEarlierError, AllOk
      <4>3. NoEarlierError' /\ SeekAccepts(start_lba)' => probed' = BlockSectors(report')
        BY <1>1, <3>3, <3>4, <4>1, <4>2 DEF ReadInv, FdInv, SeekAccepts
      <4> QED
        BY <4>1, <4>3 DEF VerifiesReportedBlock, BlockSectors, BlockEnd
    <3> QED
      BY <3>1, <3>5, <3>6 DEF Perform
  <2>2. CASE Open \/ Callback \/ LoopFinished \/ LoopInterrupted \/ WriteReport \/ WriteDgReport
    <3>1. pc' # "callback"
      BY <2>2 DEF Open, Callback, LoopFinished, LoopInterrupted, WriteReport, WriteDgReport
    <3> QED
      BY <3>1 DEF VerifiesReportedBlock
  <2>3. CASE OpenFails \/ UNCHANGED vars
    <3>1. UNCHANGED <<pc, probed, api, start_lba, kernel_end, seen, report>>
      BY <2>3 DEF OpenFails, vars, options, cursor, block, accumulators
    <3> QED
      BY <1>1, <3>1 DEF VerifiesReportedBlock, NoEarlierError, SeekAccepts, BlockSectors, BlockEnd
  <2> QED
    BY <1>1, <2>1, <2>2, <2>3 DEF Next, SessionStep
<1>2. Init => VerifiesReportedBlock
  BY DEF Init, VerifiesReportedBlock
<1>3. ReadInv /\ [Next]_vars /\ VerifiesReportedBlock => VerifiesReportedBlock'
  BY <1>1
<1> QED
  BY <1>2, <1>3, ReadInvariant, PTL DEF Spec
=============================================================================
