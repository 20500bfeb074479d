--------------------------- MODULE CopyZonesProofs ---------------------------
(***************************************************************************)
(* Facts about lists of unread zones that hold for every value of the      *)
(* constants: a block lies inside its zone, and the removal, the trimming  *)
(* and the splitting of a zone keep a list well-formed.                    *)
(***************************************************************************)
EXTENDS CopyZones, SequenceTheorems, TLAPS

WellFormed(z, last) ==
  ZonesNonEmpty(z) /\ ZonesInside(z, last) /\ ZonesAscending(z)

(* A sector is unread when some zone of the list spans it.                 *)
LEMMA UnreadSectorsMember ==
  ASSUME NEW z \in Seq(Zone), NEW l
  PROVE  l \in UnreadSectors(z)
           <=> \E i \in DOMAIN z : l \in ZoneSectors(z[i])
BY DEF UnreadSectors

(* The elements of a list of zones, and what well-formedness says of them  *)
(* one by one.                                                             *)
LEMMA ZoneElements ==
  ASSUME NEW z \in Seq(Zone)
  PROVE  /\ Len(z) \in Nat /\ DOMAIN z = 1 .. Len(z)
         /\ \A i \in 1 .. Len(z) :
              /\ z[i] \in Zone
              /\ z[i].begin_lba \in Nat /\ z[i].end_lba \in Nat
<1>1. Len(z) \in Nat /\ DOMAIN z = 1 .. Len(z)
  BY LenProperties
<1>2. \A i \in 1 .. Len(z) : z[i] \in Zone
  BY ElementOfSeq
<1> QED
  BY <1>1, <1>2 DEF Zone

LEMMA WellFormedElements ==
  ASSUME NEW z \in Seq(Zone), NEW last
  PROVE  WellFormed(z, last)
           <=> /\ \A i \in 1 .. Len(z) : z[i].begin_lba < z[i].end_lba
               /\ \A i \in 1 .. Len(z) : z[i].end_lba <= last
               /\ \A i, j \in 1 .. Len(z) :
                    i < j => z[i].end_lba <= z[j].begin_lba
<1>1. DOMAIN z = 1 .. Len(z)
  BY ZoneElements
<1> QED
  BY <1>1, Zenon DEF WellFormed, ZonesNonEmpty, ZonesInside, ZonesAscending

(* No sector is in two zones of a well-formed list.                        *)
LEMMA ZonesDisjoint ==
  ASSUME NEW z \in Seq(Zone), NEW last, WellFormed(z, last),
         NEW i \in 1 .. Len(z), NEW j \in 1 .. Len(z), NEW l \in Int,
         l \in ZoneSectors(z[i]), l \in ZoneSectors(z[j])
  PROVE  i = j
<1>1. /\ z[i].begin_lba <= l /\ l < z[i].end_lba
      /\ z[j].begin_lba <= l /\ l < z[j].end_lba
  BY ZoneElements DEF ZoneSectors
<1>2. /\ i < j => z[i].end_lba <= z[j].begin_lba
      /\ j < i => z[j].end_lba <= z[i].begin_lba
  BY WellFormedElements
<1>3. /\ z[i].begin_lba \in Nat /\ z[i].end_lba \in Nat
      /\ z[j].begin_lba \in Nat /\ z[j].end_lba \in Nat
  BY ZoneElements
<1>4. i \in Int /\ j \in Int
  OBVIOUS
<1> QED
  BY <1>1, <1>2, <1>3, <1>4

(* A block that give_task_proceeding_current_zone picks is not empty, no   *)
(* longer than SECTORS_AT_ONCE, and lies inside the zone.                  *)
LEMMA BlockInsideZone ==
  ASSUME NEW zone \in Zone, NEW rev \in BOOLEAN,
         zone.begin_lba < zone.end_lba
  PROVE  /\ BlockSize(zone) \in 1 .. SectorsAtOnce
         /\ BlockStart(zone, rev) \in Nat
         /\ zone.begin_lba <= BlockStart(zone, rev)
         /\ BlockStart(zone, rev) + BlockSize(zone) <= zone.end_lba
BY SectorsAtOnceAssumption DEF Zone, BlockSize, BlockStart, ZoneLength

(* Removing an element: the ones before it stay, the ones after it move    *)
(* down by one.                                                            *)
LEMMA RemoveAtElements ==
  ASSUME NEW S, NEW z \in Seq(S), NEW i \in 1 .. Len(z)
  PROVE  /\ RemoveAt(z, i) \in Seq(S)
         /\ Len(RemoveAt(z, i)) = Len(z) - 1
         /\ \A j \in 1 .. Len(z) - 1 :
              RemoveAt(z, i)[j] = IF j < i THEN z[j] ELSE z[j + 1]
<1> DEFINE a == SubSeq(z, 1, i - 1)
           b == SubSeq(z, i + 1, Len(z))
<1>1. /\ a \in Seq(S) /\ Len(a) = i - 1
      /\ \A j \in 1 .. i - 1 : a[j] = z[j]
  BY SubSeqProperties, LenProperties
<1>2. /\ b \in Seq(S) /\ Len(b) = Len(z) - i
      /\ \A j \in 1 .. Len(z) - i : b[j] = z[j + i]
  BY SubSeqProperties, LenProperties
<1>3. RemoveAt(z, i) = a \o b
  BY DEF RemoveAt
<1> HIDE DEF a, b
<1>4. /\ RemoveAt(z, i) \in Seq(S)
      /\ Len(RemoveAt(z, i)) = Len(a) + Len(b)
      /\ \A j \in 1 .. Len(a) + Len(b) :
           RemoveAt(z, i)[j] = IF j <= Len(a) THEN a[j] ELSE b[j - Len(a)]
  <2>1. /\ a \o b \in Seq(S)
        /\ Len(a \o b) = Len(a) + Len(b)
        /\ \A j \in 1 .. Len(a) + Len(b) :
             (a \o b)[j] = IF j <= Len(a) THEN a[j] ELSE b[j - Len(a)]
    BY <1>1, <1>2, ConcatProperties, Zenon
  <2> QED
    BY <1>3, <2>1, Zenon
<1>5. Len(a) + Len(b) = Len(z) - 1
  BY <1>1, <1>2, LenProperties
<1>6. ASSUME NEW j \in 1 .. Len(z) - 1
      PROVE  RemoveAt(z, i)[j] = IF j < i THEN z[j] ELSE z[j + 1]
  <2>1. j \in 1 .. Len(a) + Len(b)
    BY <1>5
  <2>2. Len(z) \in Nat
    BY LenProperties
  <2>3. CASE j < i
    <3>1. j \in 1 .. i - 1 /\ j <= Len(a)
      BY <1>1, <2>3
    <3>2. RemoveAt(z, i)[j] = a[j]
      BY <1>4, <2>1, <3>1
    <3> QED
      BY <1>1, <2>3, <3>1, <3>2
  <2>4. CASE ~(j < i)
    <3>1. /\ j - Len(a) \in 1 .. Len(z) - i /\ (j - Len(a)) + i = j + 1
          /\ ~(j <= Len(a))
      BY <1>1, <2>2, <2>4
    <3>2. RemoveAt(z, i)[j] = b[j - Len(a)]
      BY <1>4, <2>1, <3>1
    <3>3. b[j - Len(a)] = z[(j - Len(a)) + i]
      BY <1>2, <3>1
    <3> QED
      BY <2>4, <3>1, <3>2, <3>3
  <2> QED
    BY <2>3, <2>4
<1> QED
  BY <1>4, <1>5, <1>6

(* Inserting an element: the ones before the place stay, the ones from it  *)
(* on move up by one.                                                      *)
LEMMA InsertAtElements ==
  ASSUME NEW S, NEW z \in Seq(S), NEW i \in 1 .. Len(z) + 1, NEW e \in S
  PROVE  /\ InsertAt(z, i, e) \in Seq(S)
         /\ Len(InsertAt(z, i, e)) = Len(z) + 1
         /\ \A j \in 1 .. i - 1 : InsertAt(z, i, e)[j] = z[j]
         /\ InsertAt(z, i, e)[i] = e
         /\ \A j \in i + 1 .. Len(z) + 1 : InsertAt(z, i, e)[j] = z[j - 1]
<1> DEFINE a == SubSeq(z, 1, i - 1)
           b == SubSeq(z, i, Len(z))
<1>1. /\ a \in Seq(S) /\ Len(a) = i - 1
      /\ \A j \in 1 .. i - 1 : a[j] = z[j]
  BY SubSeqProperties, LenProperties
<1>2. /\ b \in Seq(S) /\ Len(b) = Len(z) - i + 1
      /\ \A j \in 1 .. Len(z) - i + 1 : b[j] = z[j + i - 1]
  BY SubSeqProperties, LenProperties
<1>3. InsertAt(z, i, e) = a \o <<e>> \o b
  BY DEF InsertAt
<1> HIDE DEF a, b
<1>4. /\ a \o <<e>> \in Seq(S) /\ Len(a \o <<e>>) = i
      /\ \A j \in 1 .. i : (a \o <<e>>)[j] = IF j < i THEN z[j] ELSE e
  BY <1>1, ConcatProperties, LenProperties
<1> DEFINE c == a \o <<e>>
<1>5. c \in Seq(S) /\ Len(c) = i /\ InsertAt(z, i, e) = c \o b
  BY <1>3, <1>4
<1>6. \A j \in 1 .. i : c[j] = IF j < i THEN z[j] ELSE e
  BY <1>4
<1> HIDE DEF c
<1>7. /\ InsertAt(z, i, e) \in Seq(S)
      /\ Len(InsertAt(z, i, e)) = Len(c) + Len(b)
      /\ \A j \in 1 .. Len(c) + Len(b) :
           InsertAt(z, i, e)[j] = IF j <= Len(c) THEN c[j] ELSE b[j - Len(c)]
  <2>1. /\ c \o b \in Seq(S)
        /\ Len(c \o b) = Len(c) + Len(b)
        /\ \A j \in 1 .. Len(c) + Len(b) :
             (c \o b)[j] = IF j <= Len(c) THEN c[j] ELSE b[j - Len(c)]
    BY <1>2, <1>5, ConcatProperties, Zenon
  <2> QED
    BY <1>5, <2>1, Zenon
<1>8. Len(z) \in Nat /\ Len(c) + Len(b) = Len(z) + 1
  BY <1>2, <1>5, LenProperties
<1>9. ASSUME NEW j \in 1 .. Len(z) + 1
      PROVE  /\ j < i => InsertAt(z, i, e)[j] = z[j]
             /\ j = i => InsertAt(z, i, e)[j] = e
             /\ j > i => InsertAt(z, i, e)[j] = z[j - 1]
  <2>1. InsertAt(z, i, e)[j] = IF j <= i THEN c[j] ELSE b[j - i]
    BY <1>5, <1>7, <1>8
  <2>2. CASE j <= i
    BY <1>6, <1>8, <2>1, <2>2
  <2>3. CASE j > i
    <3>1. j - i \in 1 .. Len(z) - i + 1 /\ (j - i) + i - 1 = j - 1
      BY <1>8, <2>3
    <3> QED
      BY <1>2, <1>8, <2>1, <2>3, <3>1
  <2> QED
    BY <1>8, <2>2, <2>3
<1>10. ASSUME NEW j \in 1 .. i - 1
       PROVE  InsertAt(z, i, e)[j] = z[j]
  <2>1. j \in 1 .. Len(z) + 1 /\ j < i
    BY <1>8
  <2> QED
    BY <1>9, <2>1
<1>11. InsertAt(z, i, e)[i] = e
  BY <1>9
<1>12. ASSUME NEW j \in i + 1 .. Len(z) + 1
       PROVE  InsertAt(z, i, e)[j] = z[j - 1]
  <2>1. j \in 1 .. Len(z) + 1 /\ j > i
    BY <1>8
  <2> QED
    BY <1>9, <2>1
<1>13. Len(InsertAt(z, i, e)) = Len(z) + 1
  BY <1>7, <1>8
<1> QED
  BY <1>7, <1>10, <1>11, <1>12, <1>13

-----------------------------------------------------------------------------
(* The zone that is left when a block has been processed at its edge is a  *)
(* zone, possibly empty, inside the old one, and holds exactly the sectors *)
(* of the old one that are not in the block.                               *)
LEMMA TrimmedZone ==
  ASSUME NEW zone \in Zone, NEW rev \in BOOLEAN, NEW failed \in BOOLEAN,
         zone.begin_lba < zone.end_lba
  PROVE  LET n == BlockSize(zone)
             lba == BlockStart(zone, rev)
             left == Trim(zone, rev, n, failed)
         IN /\ left \in Zone
            /\ zone.begin_lba <= left.begin_lba
            /\ left.begin_lba <= left.end_lba
            /\ left.end_lba <= zone.end_lba
            /\ \A l \in Int : l \in ZoneSectors(left)
                 <=> l \in ZoneSectors(zone) /\ l \notin lba .. lba + n - 1
<1> DEFINE n == BlockSize(zone)
           lba == BlockStart(zone, rev)
           left == Trim(zone, rev, n, failed)
<1>1. /\ n \in 1 .. SectorsAtOnce /\ lba \in Nat
      /\ zone.begin_lba <= lba /\ lba + n <= zone.end_lba
  BY BlockInsideZone
<1>2. zone.begin_lba \in Nat /\ zone.end_lba \in Nat /\ SectorsAtOnce \in Nat
  BY SectorsAtOnceAssumption DEF Zone
<1>3. CASE rev
  <2>1. lba = zone.end_lba - n
    BY <1>3 DEF BlockStart
  <2>2. left = [zone EXCEPT !.end_lba = @ - n, !.end_lba_defective = failed]
    BY <1>3 DEF Trim
  <2>3. /\ left \in Zone /\ left.begin_lba = zone.begin_lba
        /\ left.end_lba = zone.end_lba - n
    BY <1>1, <1>2, <2>1, <2>2 DEF Zone
  <2> HIDE DEF n, lba, left
  <2> QED
    BY <1>1, <1>2, <2>1, <2>3 DEF ZoneSectors, n, lba, left
<1>4. CASE ~rev
  <2>1. lba = zone.begin_lba
    BY <1>4 DEF BlockStart
  <2>2. left = [zone EXCEPT !.begin_lba = @ + n, !.begin_lba_defective = failed]
    BY <1>4 DEF Trim
  <2>3. /\ left \in Zone /\ left.end_lba = zone.end_lba
        /\ left.begin_lba = zone.begin_lba + n
    <3>1. zone.begin_lba + n \in Nat
      BY <1>1, <1>2
    <3> HIDE DEF n, left
    <3> QED
      BY <2>2, <3>1 DEF Zone
  <2> HIDE DEF n, lba, left
  <2> QED
    BY <1>1, <1>2, <2>1, <2>3 DEF ZoneSectors, n, lba, left
<1> QED
  BY <1>3, <1>4

(* A well-formed list stays well-formed when one zone shrinks inside       *)
(* itself without becoming empty, and loses just the sectors that zone     *)
(* loses.                                                                  *)
LEMMA ShrunkList ==
  ASSUME NEW z \in Seq(Zone), NEW last \in Nat, WellFormed(z, last),
         NEW i \in 1 .. Len(z), NEW left \in Zone,
         z[i].begin_lba <= left.begin_lba, left.begin_lba < left.end_lba,
         left.end_lba <= z[i].end_lba
  PROVE  /\ [z EXCEPT ![i] = left] \in Seq(Zone)
         /\ Len([z EXCEPT ![i] = left]) = Len(z)
         /\ WellFormed([z EXCEPT ![i] = left], last)
         /\ \A l \in Int : l \in UnreadSectors([z EXCEPT ![i] = left])
              <=> /\ l \in UnreadSectors(z)
                  /\ l \in ZoneSectors(z[i]) => l \in ZoneSectors(left)
<1> DEFINE w == [z EXCEPT ![i] = left]
<1>1. /\ w \in Seq(Zone) /\ Len(w) = Len(z)
      /\ \A j \in 1 .. Len(z) : w[j] = IF j = i THEN left ELSE z[j]
  BY ExceptSeq
<1>2. Len(z) \in Nat
  BY ZoneElements
<1>3. \A j \in 1 .. Len(z) :
        /\ z[j].begin_lba \in Nat /\ z[j].end_lba \in Nat
        /\ w[j].begin_lba \in Nat /\ w[j].end_lba \in Nat
        /\ z[j].begin_lba <= w[j].begin_lba
        /\ w[j].begin_lba < w[j].end_lba /\ w[j].end_lba <= z[j].end_lba
  <2>1. left.begin_lba \in Nat /\ left.end_lba \in Nat
    BY DEF Zone
  <2>2. ASSUME NEW j \in 1 .. Len(z), j # i
        PROVE  w[j] = z[j]
    BY <1>1, <2>2
  <2>3. w[i] = left
    BY <1>1
  <2>4. \A j \in 1 .. Len(z) :
          /\ z[j].begin_lba \in Nat /\ z[j].end_lba \in Nat
          /\ z[j].begin_lba < z[j].end_lba
    BY ZoneElements, WellFormedElements
  <2> HIDE DEF w
  <2> QED
    BY <2>1, <2>2, <2>3, <2>4
<1> HIDE DEF w
<1>4. WellFormed(w, last)
  <2>1. \A j \in 1 .. Len(w) : w[j].begin_lba < w[j].end_lba
    BY <1>1, <1>3
  <2>2. \A j \in 1 .. Len(w) : w[j].end_lba <= last
    <3>1. \A j \in 1 .. Len(z) : z[j].end_lba <= last
      BY WellFormedElements
    <3> QED
      BY <1>1, <1>3, <3>1
  <2>3. ASSUME NEW j \in 1 .. Len(w), NEW k \in 1 .. Len(w), j < k
        PROVE  w[j].end_lba <= w[k].begin_lba
    <3>1. z[j].end_lba <= z[k].begin_lba
      BY <1>1, <2>3, WellFormedElements
    <3>2. w[j].end_lba <= z[j].end_lba /\ z[k].begin_lba <= w[k].begin_lba
      BY <1>1, <1>3
    <3> QED
      BY <1>1, <1>3, <3>1, <3>2
  <2> QED
    BY <1>1, <2>1, <2>2, <2>3, WellFormedElements
<1>5. ASSUME NEW l \in Int
      PROVE  l \in UnreadSectors(w)
               <=> /\ l \in UnreadSectors(z)
                   /\ l \in ZoneSectors(z[i]) => l \in ZoneSectors(left)
  <2>1. l \in UnreadSectors(w) <=> \E j \in 1 .. Len(z) : l \in ZoneSectors(w[j])
    BY <1>1, UnreadSectorsMember, ZoneElements
  <2>2. l \in UnreadSectors(z) <=> \E j \in 1 .. Len(z) : l \in ZoneSectors(z[j])
    BY UnreadSectorsMember, ZoneElements
  <2>3. l \in ZoneSectors(left) => l \in ZoneSectors(z[i])
    BY <1>1, <1>3 DEF ZoneSectors
  <2>4. \A j \in 1 .. Len(z) :
          l \in ZoneSectors(z[j]) /\ l \in ZoneSectors(z[i]) => j = i
    BY ZonesDisjoint
  <2> QED
    BY <1>1, <2>1, <2>2, <2>3, <2>4
<1> QED
  BY <1>1, <1>4, <1>5 DEF w

(* A well-formed list without one of its zones is well-formed, and the     *)
(* sectors of that zone are no longer in it.                               *)
LEMMA RemovedZone ==
  ASSUME NEW z \in Seq(Zone), NEW last \in Nat, WellFormed(z, last),
         NEW i \in 1 .. Len(z)
  PROVE  /\ RemoveAt(z, i) \in Seq(Zone)
         /\ WellFormed(RemoveAt(z, i), last)
         /\ \A l \in Int : l \in UnreadSectors(RemoveAt(z, i))
              <=> l \in UnreadSectors(z) /\ l \notin ZoneSectors(z[i])
<1> DEFINE w == RemoveAt(z, i)
<1>1. /\ w \in Seq(Zone) /\ Len(w) = Len(z) - 1
      /\ \A j \in 1 .. Len(z) - 1 : w[j] = IF j < i THEN z[j] ELSE z[j + 1]
  BY RemoveAtElements
<1>2. Len(z) \in Nat
  BY ZoneElements
<1>3. \A j \in 1 .. Len(w) : \E k \in 1 .. Len(z) :
        k # i /\ w[j] = z[k] /\ k = IF j < i THEN j ELSE j + 1
  BY <1>1, <1>2
<1> HIDE DEF w
<1>4. WellFormed(w, last)
  <2>1. ASSUME NEW j \in 1 .. Len(w)
        PROVE  w[j].begin_lba < w[j].end_lba /\ w[j].end_lba <= last
    BY <1>3, WellFormedElements
  <2>2. ASSUME NEW j \in 1 .. Len(w), NEW k \in 1 .. Len(w), j < k
        PROVE  w[j].end_lba <= w[k].begin_lba
    <3>1. PICK a \in 1 .. Len(z) : w[j] = z[a] /\ a = IF j < i THEN j ELSE j + 1
      BY <1>3
    <3>2. PICK b \in 1 .. Len(z) : w[k] = z[b] /\ b = IF k < i THEN k ELSE k + 1
      BY <1>3
    <3>3. a < b
      BY <1>1, <1>2, <2>2, <3>1, <3>2
    <3> QED
      BY <3>1, <3>2, <3>3, WellFormedElements
  <2> QED
    BY <1>1, <2>1, <2>2, WellFormedElements
<1>5. ASSUME NEW l \in Int
      PROVE  l \in UnreadSectors(w)
               <=> l \in UnreadSectors(z) /\ l \notin ZoneSectors(z[i])
  <2>1. l \in UnreadSectors(w) <=> \E j \in 1 .. Len(w) : l \in ZoneSectors(w[j])
    BY <1>1, UnreadSectorsMember, ZoneElements
  <2>2. l \in UnreadSectors(z) <=> \E j \in 1 .. Len(z) : l \in ZoneSectors(z[j])
    BY UnreadSectorsMember, ZoneElements
  <2>3. \A j \in 1 .. Len(z) :
          l \in ZoneSectors(z[j]) /\ l \in ZoneSectors(z[i]) => j = i
    BY ZonesDisjoint
  <2>4. ASSUME NEW k \in 1 .. Len(z), k # i, l \in ZoneSectors(z[k])
        PROVE  \E j \in 1 .. Len(w) : l \in ZoneSectors(w[j])
    <3>1. CASE k < i
      <4>1. k \in 1 .. Len(w) /\ w[k] = z[k]
        BY <1>1, <1>2, <3>1
      <4> QED
        BY <2>4, <4>1
    <3>2. CASE k > i
      <4>1. k - 1 \in 1 .. Len(w) /\ ~(k - 1 < i) /\ (k - 1) + 1 = k
        BY <1>1, <1>2, <3>2
      <4>2. w[k - 1] = z[k]
        BY <1>1, <4>1
      <4> QED
        BY <2>4, <4>1, <4>2
    <3> QED
      BY <2>4, <3>1, <3>2
  <2> QED
    BY <1>3, <2>1, <2>2, <2>3, <2>4
<1> QED
  BY <1>1, <1>4, <1>5 DEF w

(* A zone cut at a sector inside it gives a well-formed list of one more   *)
(* zone over the same sectors; the elements around the cut keep their      *)
(* order.                                                                  *)
LEMMA SplitList ==
  ASSUME NEW z \in Seq(Zone), NEW last \in Nat, WellFormed(z, last),
         NEW i \in 1 .. Len(z), NEW at \in Int, SplitsInside(z[i], at)
  PROVE  /\ Split(z, i, at) \in Seq(Zone)
         /\ Len(Split(z, i, at)) = Len(z) + 1
         /\ WellFormed(Split(z, i, at), last)
         /\ \A l \in Int :
              l \in UnreadSectors(Split(z, i, at)) <=> l \in UnreadSectors(z)
         /\ Split(z, i, at)[i].end_lba_defective = FALSE
         /\ Split(z, i, at)[i + 1].begin_lba_defective = FALSE
<1> DEFINE head == [z[i] EXCEPT !.end_lba = at, !.end_lba_defective = FALSE]
           tail == [z[i] EXCEPT !.begin_lba = at, !.begin_lba_defective = FALSE]
           y == [z EXCEPT ![i] = head]
           w == Split(z, i, at)
<1>1. /\ z[i] \in Zone /\ z[i].begin_lba \in Nat /\ z[i].end_lba \in Nat
      /\ z[i].begin_lba < at /\ at < z[i].end_lba /\ at \in Nat
      /\ Len(z) \in Nat /\ i \in Nat
  BY ZoneElements DEF SplitsInside
<1>2. /\ head \in Zone /\ tail \in Zone
      /\ head.begin_lba = z[i].begin_lba /\ head.end_lba = at
      /\ tail.begin_lba = at /\ tail.end_lba = z[i].end_lba
      /\ head.end_lba_defective = FALSE /\ tail.begin_lba_defective = FALSE
  BY <1>1 DEF Zone
<1>3. /\ y \in Seq(Zone) /\ Len(y) = Len(z)
      /\ \A j \in 1 .. Len(z) : y[j] = IF j = i THEN head ELSE z[j]
  BY <1>2, ExceptSeq
<1>4. w = InsertAt(y, i + 1, tail)
  BY DEF Split
<1>5. i + 1 \in 1 .. Len(y) + 1
  BY <1>1, <1>3
<1> HIDE DEF head, tail, y, w
<1>6. /\ w \in Seq(Zone) /\ Len(w) = Len(y) + 1
      /\ \A j \in 1 .. (i + 1) - 1 : w[j] = y[j]
      /\ w[i + 1] = tail
      /\ \A j \in (i + 1) + 1 .. Len(y) + 1 : w[j] = y[j - 1]
  <2> DEFINE k == i + 1
  <2>1. y \in Seq(Zone) /\ tail \in Zone /\ k \in 1 .. Len(y) + 1
    BY <1>2, <1>3, <1>5
  <2> HIDE DEF k
  <2>2. InsertAt(y, k, tail) \in Seq(Zone)
    BY <2>1, InsertAtElements
  <2>3. Len(InsertAt(y, k, tail)) = Len(y) + 1
    BY <2>1, InsertAtElements
  <2>4. \A j \in 1 .. k - 1 : InsertAt(y, k, tail)[j] = y[j]
    BY <2>1, InsertAtElements
  <2>5. InsertAt(y, k, tail)[k] = tail
    BY <2>1, InsertAtElements
  <2>6. \A j \in k + 1 .. Len(y) + 1 : InsertAt(y, k, tail)[j] = y[j - 1]
    BY <2>1, InsertAtElements
  <2> QED
    BY <1>4, <2>2, <2>3, <2>4, <2>5, <2>6, Zenon DEF k
<1>7. /\ Len(w) = Len(z) + 1
      /\ \A j \in 1 .. Len(z) + 1 : j < i => w[j] = z[j] /\ j \in 1 .. Len(z)
      /\ w[i] = head /\ w[i + 1] = tail
      /\ \A j \in 1 .. Len(z) + 1 :
           j > i + 1 => w[j] = z[j - 1] /\ j - 1 \in 1 .. Len(z)
  <2>1. ASSUME NEW j \in 1 .. Len(z) + 1, j < i
        PROVE  w[j] = z[j] /\ j \in 1 .. Len(z)
    <3>1. j \in 1 .. Len(z) /\ j # i /\ j \in 1 .. (i + 1) - 1
      BY <1>1, <2>1
    <3> QED
      BY <1>3, <1>6, <3>1
  <2>2. w[i] = head
    BY <1>1, <1>3, <1>6
  <2>3. ASSUME NEW j \in 1 .. Len(z) + 1, j > i + 1
        PROVE  w[j] = z[j - 1] /\ j - 1 \in 1 .. Len(z)
    <3>1. j - 1 \in 1 .. Len(z) /\ j - 1 # i
      BY <1>1, <2>3
    <3>2. w[j] = y[j - 1]
      BY <1>1, <1>3, <1>6, <2>3
    <3> QED
      BY <1>3, <3>1, <3>2
  <2> QED
    BY <1>3, <1>6, <2>1, <2>2, <2>3
<1> DEFINE origin(j) == IF j <= i THEN j ELSE j - 1
<1>8. ASSUME NEW j \in 1 .. Len(w)
      PROVE  /\ origin(j) \in 1 .. Len(z)
             /\ z[origin(j)].begin_lba <= w[j].begin_lba
             /\ w[j].begin_lba < w[j].end_lba
             /\ w[j].end_lba <= z[origin(j)].end_lba
             /\ w[j].begin_lba \in Nat /\ w[j].end_lba \in Nat
             /\ z[origin(j)].begin_lba \in Nat /\ z[origin(j)].end_lba \in Nat
  <2>1. j < i \/ j = i \/ j = i + 1 \/ j > i + 1
    BY <1>1, <1>7
  <2>2. \A k \in 1 .. Len(z) :
          /\ z[k].begin_lba \in Nat /\ z[k].end_lba \in Nat
          /\ z[k].begin_lba < z[k].end_lba
    BY ZoneElements, WellFormedElements
  <2>3. CASE j < i
    <3>1. w[j] = z[j] /\ j \in 1 .. Len(z) /\ origin(j) = j
      BY <1>1, <1>6, <1>7, <2>3
    <3> QED
      BY <2>2, <3>1
  <2>4. CASE j = i
    <3>1. w[j] = head /\ origin(j) = i
      BY <1>1, <1>7, <2>4
    <3> QED
      BY <1>1, <1>2, <3>1
  <2>5. CASE j = i + 1
    <3>1. w[j] = tail /\ origin(j) = i
      BY <1>1, <1>7, <2>5
    <3> QED
      BY <1>1, <1>2, <3>1
  <2>6. CASE j > i + 1
    <3>1. /\ w[j] = z[j - 1] /\ j - 1 \in 1 .. Len(z)
          /\ origin(j) = j - 1
      BY <1>1, <1>6, <1>7, <2>6
    <3> QED
      BY <2>2, <3>1
  <2> QED
    BY <2>1, <2>3, <2>4, <2>5, <2>6
<1>9. WellFormed(w, last)
  <2>1. ASSUME NEW j \in 1 .. Len(w)
        PROVE  w[j].begin_lba < w[j].end_lba /\ w[j].end_lba <= last
    <3>1. z[origin(j)].end_lba <= last
      BY <1>8, WellFormedElements
    <3> HIDE DEF origin
    <3> QED
      BY <1>8, <3>1
  <2>2. ASSUME NEW j \in 1 .. Len(w), NEW k \in 1 .. Len(w), j < k
        PROVE  w[j].end_lba <= w[k].begin_lba
    <3>1. CASE j = i /\ k = i + 1
      BY <1>1, <1>2, <1>7, <3>1
    <3>2. CASE ~(j = i /\ k = i + 1)
      <4>1. origin(j) < origin(k)
        BY <1>1, <1>7, <2>2, <3>2
      <4> HIDE DEF origin
      <4>2. z[origin(j)].end_lba <= z[origin(k)].begin_lba
        BY <1>8, <4>1, WellFormedElements
      <4>3. /\ w[j].end_lba <= z[origin(j)].end_lba
            /\ w[j].end_lba \in Nat /\ z[origin(j)].end_lba \in Nat
        BY <1>8
      <4>4. /\ z[origin(k)].begin_lba <= w[k].begin_lba
            /\ w[k].begin_lba \in Nat /\ z[origin(k)].begin_lba \in Nat
        BY <1>8
      <4>5. \A p, q, r, t \in Nat : p <= q /\ q <= r /\ r <= t => p <= t
        OBVIOUS
      <4> QED
        BY <4>2, <4>3, <4>4, <4>5, Zenon
    <3> QED
      BY <3>1, <3>2
  <2> QED
    BY <1>6, <2>1, <2>2, WellFormedElements
<1>10. ASSUME NEW l \in Int
       PROVE  l \in UnreadSectors(w) <=> l \in UnreadSectors(z)
  <2>1. l \in UnreadSectors(w) <=> \E j \in 1 .. Len(w) : l \in ZoneSectors(w[j])
    BY <1>6, <1>7, UnreadSectorsMember, ZoneElements
  <2>2. l \in UnreadSectors(z) <=> \E j \in 1 .. Len(z) : l \in ZoneSectors(z[j])
    BY UnreadSectorsMember, ZoneElements
  <2>3. ASSUME NEW j \in 1 .. Len(w), l \in ZoneSectors(w[j])
        PROVE  \E k \in 1 .. Len(z) : l \in ZoneSectors(z[k])
    <3> HIDE DEF origin
    <3>1. l \in ZoneSectors(z[origin(j)])
      <4>1. w[j].begin_lba <= l /\ l <= w[j].end_lba - 1
        BY <1>8, <2>3 DEF ZoneSectors
      <4>2. z[origin(j)].begin_lba <= l /\ l <= z[origin(j)].end_lba - 1
        <5> DEFINE a == z[origin(j)].begin_lba
                   b == w[j].begin_lba
                   c == w[j].end_lba
                   d == z[origin(j)].end_lba
        <5>1. a \in Nat /\ b \in Nat /\ c \in Nat /\ d \in Nat
          BY <1>8, Zenon
        <5>2. a <= b /\ c <= d
          BY <1>8, Zenon
        <5>3. b <= l /\ l <= c - 1
          BY <4>1, Zenon
        <5> HIDE DEF a, b, c, d
        <5>4. a <= l /\ l <= d - 1
          BY <1>10, <5>1, <5>2, <5>3
        <5> QED
          BY <5>4, Zenon DEF a, d
      <4>3. z[origin(j)].begin_lba \in Nat /\ z[origin(j)].end_lba \in Nat
        BY <1>8, Zenon
      <4> QED
        BY <4>2, <4>3 DEF ZoneSectors
    <3> QED
      BY <1>8, <3>1
  <2>4. ASSUME NEW k \in 1 .. Len(z), l \in ZoneSectors(z[k])
        PROVE  \E j \in 1 .. Len(w) : l \in ZoneSectors(w[j])
    <3>1. k < i \/ k = i \/ k > i
      BY <1>1
    <3>2. CASE k < i
      <4>1. k \in 1 .. Len(w)
        BY <1>1, <1>7
      <4>2. w[k] = z[k]
        BY <1>7, <3>2, <4>1
      <4> QED
        BY <2>4, <4>1, <4>2
    <3>3. CASE k > i
      <4>1. k + 1 \in 1 .. Len(w) /\ k + 1 > i + 1 /\ (k + 1) - 1 = k
        BY <1>1, <1>7, <3>3
      <4>2. w[k + 1] = z[k]
        BY <1>7, <4>1
      <4> QED
        BY <2>4, <4>1, <4>2
    <3>4. CASE k = i
      <4>1. i \in 1 .. Len(w) /\ i + 1 \in 1 .. Len(w)
        BY <1>1, <1>7
      <4>2. l \in ZoneSectors(head) \/ l \in ZoneSectors(tail)
        BY <1>1, <1>2, <2>4, <3>4 DEF ZoneSectors
      <4> QED
        BY <1>7, <4>1, <4>2
    <3> QED
      BY <3>1, <3>2, <3>3, <3>4
  <2> QED
    BY <2>1, <2>2, <2>3, <2>4
<1> QED
  BY <1>2, <1>6, <1>7, <1>9, <1>10 DEF w

(* The middle of a zone that may be split is inside it, the alignment to a *)
(* block notwithstanding: the assertion at copy_read_strategies.c:113.     *)
LEMMA HalfJumpInside ==
  ASSUME NEW zone \in Zone, ZoneLength(zone) > IndivisibleZone
  PROVE  LET at == JumpTarget(zone, ZoneLength(zone) \div 2)
         IN at \in Int /\ SplitsInside(zone, at)
<1> DEFINE b == zone.begin_lba
           half == ZoneLength(zone) \div 2
<1>1. b \in Nat /\ zone.end_lba \in Nat
  BY DEF Zone
<1>2. SectorsAtOnce \in Nat /\ SectorsAtOnce > 0
  BY SectorsAtOnceAssumption
<1>3. ZoneLength(zone) \in Nat /\ ZoneLength(zone) > 2 * SectorsAtOnce
  BY <1>1, <1>2, IndivisibleZoneAssumption DEF ZoneLength
<1>4. half \in Nat /\ half >= SectorsAtOnce /\ half < ZoneLength(zone)
  BY <1>2, <1>3
<1> HIDE DEF half
<1>5. /\ (b + half) % SectorsAtOnce \in Nat
      /\ (b + half) % SectorsAtOnce < SectorsAtOnce
  BY <1>1, <1>2, <1>4
<1> DEFINE rest == (b + half) % SectorsAtOnce
<1> HIDE DEF rest
<1>6. /\ rest \in Nat /\ rest < SectorsAtOnce
      /\ JumpTarget(zone, half) = (b + half) - rest
  BY <1>5 DEF rest, JumpTarget
<1>7. ZoneLength(zone) = zone.end_lba - b
  BY DEF ZoneLength
<1>8. JumpTarget(zone, half) \in Int /\ SplitsInside(zone, JumpTarget(zone, half))
  BY <1>1, <1>2, <1>3, <1>4, <1>6, <1>7 DEF SplitsInside
<1> QED
  BY <1>8 DEF half

(* Appending a zone beyond the last one.                                   *)
LEMMA AppendedZone ==
  ASSUME NEW z \in Seq(Zone), NEW bound \in Nat, WellFormed(z, bound),
         NEW zone \in Zone, bound <= zone.begin_lba,
         zone.begin_lba < zone.end_lba
  PROVE  /\ Append(z, zone) \in Seq(Zone)
         /\ WellFormed(Append(z, zone), zone.end_lba)
         /\ \A l \in Int : l \in UnreadSectors(Append(z, zone))
              <=> l \in UnreadSectors(z) \/ l \in ZoneSectors(zone)
<1> DEFINE w == Append(z, zone)
<1>1. Len(z) \in Nat
  BY ZoneElements
<1>2. /\ w \in Seq(Zone) /\ Len(w) = Len(z) + 1
      /\ \A j \in 1 .. Len(z) : w[j] = z[j]
      /\ w[Len(z) + 1] = zone
  BY <1>1
<1>3. zone.begin_lba \in Nat /\ zone.end_lba \in Nat
  BY DEF Zone
<1> HIDE DEF w
<1>4. \A j \in 1 .. Len(w) : j \in 1 .. Len(z) \/ j = Len(z) + 1
  BY <1>1, <1>2
<1>5. \A j \in 1 .. Len(z) :
        /\ z[j].begin_lba \in Nat /\ z[j].end_lba \in Nat
        /\ z[j].begin_lba < z[j].end_lba /\ z[j].end_lba <= bound
  BY ZoneElements, WellFormedElements
<1>6. WellFormed(w, zone.end_lba)
  <2>1. \A j \in 1 .. Len(w) :
          w[j].begin_lba < w[j].end_lba /\ w[j].end_lba <= zone.end_lba
    BY <1>2, <1>3, <1>4, <1>5
  <2>2. ASSUME NEW j \in 1 .. Len(w), NEW k \in 1 .. Len(w), j < k
        PROVE  w[j].end_lba <= w[k].begin_lba
    <3>1. j \in 1 .. Len(z)
      BY <1>1, <1>2, <2>2
    <3>2. CASE k = Len(z) + 1
      BY <1>2, <1>3, <1>5, <3>1, <3>2
    <3>3. CASE k \in 1 .. Len(z)
      BY <1>2, <2>2, <3>1, <3>3, WellFormedElements
    <3> QED
      BY <1>4, <3>2, <3>3
  <2> QED
    BY <1>2, <2>1, <2>2, WellFormedElements
<1>7. ASSUME NEW l \in Int
      PROVE  l \in UnreadSectors(w)
               <=> l \in UnreadSectors(z) \/ l \in ZoneSectors(zone)
  <2>1. l \in UnreadSectors(w) <=> \E j \in 1 .. Len(w) : l \in ZoneSectors(w[j])
    BY <1>2, UnreadSectorsMember, ZoneElements
  <2>2. l \in UnreadSectors(z) <=> \E j \in 1 .. Len(z) : l \in ZoneSectors(z[j])
    BY UnreadSectorsMember, ZoneElements
  <2>3. Len(z) + 1 \in 1 .. Len(w) /\ 1 .. Len(z) \subseteq 1 .. Len(w)
    BY <1>1, <1>2
  <2> QED
    BY <1>2, <1>4, <2>1, <2>2, <2>3
<1> QED
  BY <1>2, <1>6, <1>7 DEF w
=============================================================================
