------------------------------ MODULE CopyProofs ------------------------------
(***************************************************************************)
(* The invariants of the copy procedure, for every size of device, of      *)
(* block, of zone table and of destination, every strategy, every fault    *)
(* and every crash the module Copy allows.                                 *)
(***************************************************************************)
EXTENDS CopyProps, CopyZonesProofs, FiniteSetTheorems, WellFoundedInduction

(* The sectors of a well-formed list lie inside the device, so that there  *)
(* are finitely many.                                                      *)
LEMMA UnreadFinite ==
  ASSUME NEW z \in Seq(Zone), NEW last \in Nat, WellFormed(z, last)
  PROVE  /\ UnreadSectors(z) \subseteq 0 .. last - 1
         /\ IsFiniteSet(UnreadSectors(z))
         /\ Cardinality(UnreadSectors(z)) \in Nat
<1>1. ASSUME NEW l \in UnreadSectors(z)
      PROVE  l \in 0 .. last - 1
  <2>1. PICK i \in 1 .. Len(z) : l \in ZoneSectors(z[i])
    BY UnreadSectorsMember, ZoneElements
  <2>2. /\ z[i].begin_lba \in Nat /\ z[i].end_lba \in Nat
        /\ z[i].end_lba <= last
    BY ZoneElements, WellFormedElements
  <2> QED
    BY <2>1, <2>2 DEF ZoneSectors
<1>2. IsFiniteSet(0 .. last - 1)
  BY FS_Interval
<1>3. UnreadSectors(z) \in SUBSET (0 .. last - 1)
  BY <1>1
<1> QED
  BY <1>2, <1>3, FS_Subset, FS_CardinalityType

(* A list without unread sectors is empty, and the other way round.        *)
LEMMA UnreadEmpty ==
  ASSUME NEW z \in Seq(Zone), NEW last \in Nat, WellFormed(z, last)
  PROVE  Len(z) = 0 <=> UnreadSectors(z) = {}
<1>1. CASE Len(z) = 0
  <2>1. DOMAIN z = {}
    BY <1>1, ZoneElements
  <2>2. \A l : l \notin UnreadSectors(z)
    BY <2>1, UnreadSectorsMember
  <2> QED
    BY <1>1, <2>2
<1>2. CASE Len(z) # 0
  <2>1. 1 \in 1 .. Len(z)
    BY <1>2, ZoneElements
  <2>2. /\ z[1].begin_lba \in Nat /\ z[1].end_lba \in Nat
        /\ z[1].begin_lba < z[1].end_lba
    BY <2>1, ZoneElements, WellFormedElements
  <2>3. z[1].begin_lba \in ZoneSectors(z[1])
    BY <2>2 DEF ZoneSectors
  <2>4. z[1].begin_lba \in UnreadSectors(z)
    BY <2>1, <2>3, UnreadSectorsMember, ZoneElements
  <2> QED
    BY <1>2, <2>4
<1> QED
  BY <1>1, <1>2

(* The whole device as one zone.                                           *)
LEMMA WholeDevice ==
  LET z == <<FreshZone(0, EndLba)>>
  IN /\ z \in Seq(Zone) /\ WellFormed(z, EndLba)
     /\ UnreadSectors(z) = Lbas
     /\ Cardinality(UnreadSectors(z)) = EndLba
<1> DEFINE zone == FreshZone(0, EndLba)
           z == <<zone>>
<1>1. EndLba \in Nat /\ EndLba > 0
  BY EndLbaAssumption
<1>2. /\ zone \in Zone /\ zone.begin_lba = 0 /\ zone.end_lba = EndLba
  BY <1>1 DEF FreshZone, Zone
<1> HIDE DEF zone
<1>3. z \in Seq(Zone) /\ Len(z) = 1 /\ z[1] = zone
  BY <1>2
<1> HIDE DEF z
<1>4. WellFormed(z, EndLba)
  BY <1>1, <1>2, <1>3, WellFormedElements
<1>5. ASSUME NEW l
      PROVE  l \in UnreadSectors(z) <=> l \in Lbas
  <2>1. l \in UnreadSectors(z) <=> \E i \in 1 .. Len(z) : l \in ZoneSectors(z[i])
    BY <1>3, UnreadSectorsMember, ZoneElements
  <2>2. ZoneSectors(zone) = Lbas
    BY <1>2 DEF ZoneSectors, Lbas
  <2> QED
    BY <1>3, <2>1, <2>2
<1>6. Cardinality(Lbas) = EndLba
  BY <1>1, FS_Interval DEF Lbas
<1> QED
  BY <1>3, <1>4, <1>5, <1>6 DEF z, zone

-----------------------------------------------------------------------------
(* Steps that leave the work alone.                                        *)

LEMMA InitInv == Init => IndInv
<1> SUFFICES ASSUME Init PROVE IndInv
  OBVIOUS
<1> USE DEF Init, NoSession
<1>1. unread_zones \in Seq(Zone) /\ Len(unread_zones) = 0
  OBVIOUS
<1>2. TypeOK
  <2>1. dst_len \in Nat
    BY DstAssumption
  <2>2. /\ journal \in [Lbas -> SectorStatus]
        /\ dst \in [Lbas -> {"none", "good", "bad"}]
    BY DEF SectorStatus
  <2>3. report \in Report
    BY DEF Report, EmptyReport
  <2>4. /\ scan_lba \in 0 .. EndLba /\ scan_begin \in -1 .. EndLba - 1
        /\ journal_len \in -1 .. EndLba
        /\ current_zone \in 0 .. Len(unread_zones)
    BY <1>1, EndLbaAssumption
  <2> QED
    BY <1>1, <2>1, <2>2, <2>3, <2>4 DEF TypeOK, ControlStates, Results
<1>3. ZonesWellFormed
  BY <1>1 DEF ZonesWellFormed, ZonesNonEmpty, ZonesInside, ZonesAscending
<1>4. TaskAtZoneEdge /\ ScanInv /\ JournalMatchesZones /\ ProgressAccounts
  BY DEF TaskAtZoneEdge, InTask, ScanInv, JournalMatchesZones,
         ProgressAccounts, InSession
<1>5. PhaseInv /\ JournalFilled
  BY DEF PhaseInv, JournalFilled, Lbas
<1> QED
  BY <1>2, <1>3, <1>4, <1>5 DEF IndInv

LEMMA EndSessionStep ==
  ASSUME IndInv, NEW how \in Results, EndSession(how)
  PROVE  IndInv'
<1> USE DEF EndSession
<1>1. unread_zones' \in Seq(Zone) /\ Len(unread_zones') = 0
  OBVIOUS
<1>2. TypeOK'
  BY <1>1, EndLbaAssumption
  DEF IndInv, TypeOK, ControlStates, Report, EmptyReport, persistent, Lbas
<1>3. ZonesWellFormed'
  BY <1>1 DEF ZonesWellFormed, ZonesNonEmpty, ZonesInside, ZonesAscending
<1>4. TaskAtZoneEdge' /\ ScanInv' /\ JournalMatchesZones' /\ ProgressAccounts'
  BY DEF TaskAtZoneEdge, InTask, ScanInv, JournalMatchesZones,
         ProgressAccounts, InSession
<1>5. PhaseInv'
  BY DEF PhaseInv, NoSession
<1>6. JournalFilled'
  BY DEF IndInv, JournalFilled, persistent
<1> QED
  BY <1>2, <1>3, <1>4, <1>5, <1>6 DEF IndInv

(* A step within a session that changes neither the journal nor the zones  *)
(* nor the progress, and leaves the task alone while it is in use.         *)
LEMMA QuietStep ==
  ASSUME IndInv, TypeOK',
         pc \notin {"closed", "create", "scan"},
         pc' \notin {"closed", "create", "scan"},
         pc = "update" => pc' = "update",
         use_journal => pc' # "update" \/ pc = "update",
         pc' = "journal" => use_journal,
         InTask' => InTask /\ UNCHANGED task,
         UNCHANGED <<journal, journal_len, config, zoneVars, progress, scanVars>>
  PROVE  IndInv'
<1> USE DEF config, zoneVars, progress, scanVars, task
<1>1. ZonesWellFormed'
  BY DEF IndInv, ZonesWellFormed, ZonesNonEmpty, ZonesInside, ZonesAscending
<1>2. TaskAtZoneEdge'
  BY DEF IndInv, TaskAtZoneEdge
<1>3. PhaseInv'
  BY DEF IndInv, PhaseInv
<1>4. JournalFilled'
  BY DEF IndInv, JournalFilled
<1>5. ScanInv'
  BY DEF ScanInv
<1>6. JournalMatchesZones'
  <2> SUFFICES ASSUME use_journal', NEW l \in Lbas
               PROVE  (journal[l] = "Unread")' <=>
                        (l \in UnreadSectors(unread_zones)
                           /\ ~(pc = "update" /\ l \in Block))'
    BY DEF JournalMatchesZones, Lbas
  <2>1. (journal[l] = "Unread") <=>
          (l \in UnreadSectors(unread_zones) /\ ~(pc = "update" /\ l \in Block))
    BY DEF IndInv, JournalMatchesZones, InSession
  <2>2. (pc = "update" <=> pc' = "update") /\ (pc = "update" => Block' = Block)
    BY DEF InTask, Block
  <2> QED
    BY <2>1, <2>2 DEF UnreadSectors
<1>7. ProgressAccounts'
  BY DEF IndInv, ProgressAccounts, InSession, UnreadSectors
<1> QED
  BY <1>1, <1>2, <1>3, <1>4, <1>5, <1>6, <1>7 DEF IndInv

-----------------------------------------------------------------------------
(* Choosing a task.                                                        *)

(* What IndInv says of the list, in the form the lemmas on lists want.     *)
LEMMA ListFacts ==
  ASSUME IndInv
  PROVE  /\ unread_zones \in Seq(Zone) /\ WellFormed(unread_zones, EndLba)
         /\ EndLba \in Nat /\ EndLba > 0
BY EndLbaAssumption DEF IndInv, TypeOK, ZonesWellFormed, WellFormed

(* Two well-formed lists with the same integers have the same sectors.     *)
LEMMA SameSectors ==
  ASSUME NEW y \in Seq(Zone), NEW z \in Seq(Zone), NEW last \in Nat,
         WellFormed(y, last), WellFormed(z, last),
         \A l \in Int : l \in UnreadSectors(y) <=> l \in UnreadSectors(z)
  PROVE  UnreadSectors(y) = UnreadSectors(z)
<1>1. UnreadSectors(y) \subseteq 0 .. last - 1
  BY UnreadFinite
<1>2. UnreadSectors(z) \subseteq 0 .. last - 1
  BY UnreadFinite
<1>3. 0 .. last - 1 \subseteq Int
  OBVIOUS
<1> QED
  BY <1>1, <1>2, <1>3

(* While the loop finds num < den, there is a zone to choose.              *)
LEMMA PendingZone ==
  ASSUME IndInv, MorePending
  PROVE  Len(unread_zones) \in Nat /\ Len(unread_zones) >= 1
<1>1. /\ unread_zones \in Seq(Zone) /\ WellFormed(unread_zones, EndLba)
      /\ EndLba \in Nat
  BY ListFacts
<1>2. Len(unread_zones) \in Nat
  BY <1>1, ZoneElements
<1>3. UnreadSectors(unread_zones) # {}
  <2>1. num + Cardinality(UnreadSectors(unread_zones)) = den
    BY DEF IndInv, ProgressAccounts, InSession, MorePending
  <2>2. num < den /\ num \in Nat /\ den \in Nat
    BY DEF MorePending, IndInv, TypeOK
  <2>3. Cardinality(UnreadSectors(unread_zones)) # 0
    <3>1. Cardinality(UnreadSectors(unread_zones)) \in Nat
      BY <1>1, UnreadFinite
    <3> QED
      BY <2>1, <2>2, <3>1
  <2> QED
    BY <2>3, FS_EmptySet
<1>4. Len(unread_zones) # 0
  BY <1>1, <1>3, UnreadEmpty
<1> QED
  BY <1>2, <1>4

(* Whatever list over the same sectors a strategy settles on, and whatever *)
(* zone and direction, the task is a block at the edge of that zone.       *)
LEMMA GiveTaskStep ==
  ASSUME IndInv, pc = "loop",
         NEW z \in Seq(Zone), WellFormed(z, EndLba),
         \A l \in Int : l \in UnreadSectors(z) <=> l \in UnreadSectors(unread_zones),
         NEW i \in 1 .. Len(z), NEW rev \in BOOLEAN, GiveTask(z, i, rev),
         read_strategy = "plain" => ~rev,
         stage' \in {0, 1}, pc' = "read",
         UNCHANGED <<persistent, result, config, progress, scanVars, outcome,
                     handled>>
  PROVE  IndInv'
<1> USE DEF persistent, config, progress, scanVars, outcome
<1>1. /\ unread_zones' = z /\ current_zone' = i /\ reversive' = rev
      /\ lba_to_read' = BlockStart(z[i], rev)
      /\ sectors_to_read' = BlockSize(z[i])
  BY DEF GiveTask
<1>2. /\ z[i] \in Zone /\ z[i].begin_lba < z[i].end_lba /\ Len(z) \in Nat
  BY ZoneElements, WellFormedElements, EndLbaAssumption
<1>3. /\ BlockStart(z[i], rev) \in Nat /\ BlockSize(z[i]) \in 1 .. SectorsAtOnce
  BY <1>2, BlockInsideZone
<1>4. UnreadSectors(unread_zones') = UnreadSectors(unread_zones)
  BY <1>1, ListFacts, SameSectors
<1>5. TypeOK'
  <2>1. current_zone' \in 0 .. Len(unread_zones')
    BY <1>1, <1>2
  <2>2. lba_to_read' \in Nat /\ sectors_to_read' \in Nat
    BY <1>1, <1>3, SectorsAtOnceAssumption
  <2> QED
    BY <1>1, <2>1, <2>2 DEF IndInv, TypeOK, ControlStates, Lbas
<1>6. ZonesWellFormed'
  BY <1>1 DEF ZonesWellFormed, WellFormed
<1>7. TaskAtZoneEdge'
  BY <1>1, <1>2 DEF TaskAtZoneEdge
<1>8. PhaseInv'
  BY <1>1 DEF IndInv, PhaseInv
<1>9. JournalFilled'
  BY DEF IndInv, JournalFilled, Lbas
<1>10. ScanInv'
  BY DEF ScanInv
<1>11. JournalMatchesZones'
  BY <1>4 DEF IndInv, JournalMatchesZones, InSession, Lbas
<1>12. ProgressAccounts'
  BY <1>4 DEF IndInv, ProgressAccounts, InSession
<1> QED
  BY <1>5, <1>6, <1>7, <1>8, <1>9, <1>10, <1>11, <1>12 DEF IndInv

(* The case of a zone of the list as it is.                                *)
LEMMA GiveTaskOfList ==
  ASSUME IndInv, pc = "loop",
         NEW i \in 1 .. Len(unread_zones), NEW rev \in BOOLEAN,
         GiveTask(unread_zones, i, rev),
         read_strategy = "plain" => ~rev,
         stage' \in {0, 1}, pc' = "read",
         UNCHANGED <<persistent, result, config, progress, scanVars, outcome,
                     handled>>
  PROVE  IndInv'
BY ListFacts, GiveTaskStep

(* The case of a list with one zone split.                                 *)
LEMMA GiveTaskOfSplit ==
  ASSUME IndInv, pc = "loop",
         NEW i \in 1 .. Len(unread_zones), NEW at \in Int,
         SplitsInside(unread_zones[i], at),
         NEW k \in 1 .. Len(unread_zones) + 1, NEW rev \in BOOLEAN,
         GiveTask(Split(unread_zones, i, at), k, rev),
         read_strategy # "plain",
         stage' \in {0, 1}, pc' = "read",
         UNCHANGED <<persistent, result, config, progress, scanVars, outcome,
                     handled>>
  PROVE  IndInv'
<1> DEFINE w == Split(unread_zones, i, at)
<1>1. /\ unread_zones \in Seq(Zone) /\ WellFormed(unread_zones, EndLba)
      /\ EndLba \in Nat
  BY ListFacts
<1>2. /\ w \in Seq(Zone) /\ WellFormed(w, EndLba)
      /\ Len(w) = Len(unread_zones) + 1
      /\ \A l \in Int : l \in UnreadSectors(w) <=> l \in UnreadSectors(unread_zones)
  BY <1>1, SplitList
<1>3. GiveTask(w, k, rev) /\ k \in 1 .. Len(w)
  BY <1>2
<1> HIDE DEF w
<1> QED
  BY <1>2, <1>3, GiveTaskStep

LEMMA PlainStep == ASSUME IndInv, GetTask, PlainGetTask PROVE IndInv'
<1>1. /\ pc = "loop" /\ pc' = "read" /\ stage' = stage /\ stage \in {0, 1}
      /\ UNCHANGED <<persistent, result, config, progress, scanVars, outcome,
                     handled>>
      /\ MorePending /\ GiveTask(unread_zones, 1, reversive)
  BY DEF GetTask, MorePending, PlainGetTask, IndInv, TypeOK
<1>2. 1 \in 1 .. Len(unread_zones)
  BY <1>1, PendingZone
<1>3. reversive \in BOOLEAN /\ (read_strategy = "plain" => ~reversive)
  BY DEF IndInv, TypeOK, PhaseInv
<1> QED
  BY <1>1, <1>2, <1>3, GiveTaskOfList

(* The current zone, when there is one, is in the list.                    *)
LEMMA ProceedStep ==
  ASSUME IndInv, GetTask, current_zone # 0, ProceedCurrent, stage' = stage
  PROVE  IndInv'
<1>1. /\ pc = "loop" /\ pc' = "read" /\ stage \in {0, 1}
      /\ UNCHANGED <<persistent, result, config, progress, scanVars, outcome,
                     handled>>
      /\ GiveTask(unread_zones, current_zone, reversive)
  BY DEF GetTask, MorePending, ProceedCurrent, IndInv, TypeOK
<1>2. current_zone \in 1 .. Len(unread_zones)
  BY ListFacts, ZoneElements DEF IndInv, TypeOK
<1>3. reversive \in BOOLEAN /\ (read_strategy = "plain" => ~reversive)
  BY DEF IndInv, TypeOK, PhaseInv
<1> QED
  BY <1>1, <1>2, <1>3, GiveTaskOfList

LEMMA SmartStep == ASSUME IndInv, GetTask, SmartGetTask PROVE IndInv'
<1>1. /\ pc = "loop" /\ pc' = "read" /\ stage \in {0, 1} /\ MorePending
      /\ UNCHANGED <<persistent, result, config, progress, scanVars, outcome,
                     handled>>
  BY DEF GetTask, MorePending, IndInv, TypeOK
<1>2. read_strategy # "plain"
  BY DEF SmartGetTask, SmartStrategies
<1>3. DOMAIN unread_zones = 1 .. Len(unread_zones)
  BY ListFacts, ZoneElements
<1>4. 1 \in 1 .. Len(unread_zones)
  BY <1>1, PendingZone
<1>5. CASE current_zone # 0 /\ ProceedCurrent /\ UNCHANGED stage
  BY <1>5, ProceedStep
<1>6. CASE GiveTask(unread_zones, 1, FALSE) /\ UNCHANGED stage
  BY <1>1, <1>4, <1>6, GiveTaskOfList
<1>7. CASE /\ \E i \in DOMAIN unread_zones, rev \in BOOLEAN :
                /\ FirstProcessable(read_strategy, unread_zones, i, rev)
                /\ GiveTask(unread_zones, i, rev)
           /\ UNCHANGED stage
  <2>1. PICK i \in 1 .. Len(unread_zones), rev \in BOOLEAN :
          GiveTask(unread_zones, i, rev)
    BY <1>3, <1>7
  <2> QED
    BY <1>1, <1>2, <1>7, <2>1, GiveTaskOfList
<1>8. CASE SmartSplit
  <2> DEFINE at(i) == JumpTarget(unread_zones[i],
                                 ZoneLength(unread_zones[i]) \div 2)
  <2>1. PICK i \in 1 .. Len(unread_zones) :
          /\ MaySplit(unread_zones[i])
          /\ \E k \in DOMAIN Split(unread_zones, i, at(i)), rev \in BOOLEAN :
               GiveTask(Split(unread_zones, i, at(i)), k, rev)
          /\ UNCHANGED stage
    BY <1>3, <1>8 DEF SmartSplit
  <2>2. at(i) \in Int /\ SplitsInside(unread_zones[i], at(i))
    <3>1. unread_zones[i] \in Zone
      BY ListFacts, ZoneElements
    <3>2. ZoneLength(unread_zones[i]) > IndivisibleZone
      BY <2>1 DEF MaySplit
    <3> QED
      BY <3>1, <3>2, HalfJumpInside
  <2> HIDE DEF at
  <2>3. DOMAIN Split(unread_zones, i, at(i)) = 1 .. Len(unread_zones) + 1
    <3> DEFINE w == Split(unread_zones, i, at(i))
    <3>1. w \in Seq(Zone) /\ Len(w) = Len(unread_zones) + 1
      BY <2>2, ListFacts, SplitList
    <3> HIDE DEF w
    <3>2. DOMAIN w = 1 .. Len(unread_zones) + 1
      BY <3>1, ZoneElements
    <3> QED
      BY <3>2 DEF w
  <2>4. PICK k \in 1 .. Len(unread_zones) + 1, rev \in BOOLEAN :
          GiveTask(Split(unread_zones, i, at(i)), k, rev)
    BY <2>1, <2>3
  <2> QED
    BY <1>1, <1>2, <2>1, <2>2, <2>4, GiveTaskOfSplit
<1>9. CASE SmartGoSequential
  <2>1. stage' = 1 /\ GiveTask(unread_zones, 1, FALSE)
    BY <1>9 DEF SmartGoSequential
  <2> QED
    BY <1>1, <1>4, <2>1, GiveTaskOfList
<1> QED
  BY <1>5, <1>6, <1>7, <1>8, <1>9 DEF SmartGetTask

LEMMA SkipfailStep == ASSUME IndInv, GetTask, SkipfailGetTask PROVE IndInv'
<1>1. /\ pc = "loop" /\ pc' = "read" /\ stage \in {0, 1} /\ stage' = stage
      /\ UNCHANGED <<persistent, result, config, progress, scanVars, outcome,
                     handled>>
  BY DEF GetTask, MorePending, SkipfailGetTask, IndInv, TypeOK
<1>2. read_strategy # "plain"
  BY DEF SkipfailGetTask, SkipfailStrategies
<1>3. /\ unread_zones \in Seq(Zone)
      /\ DOMAIN unread_zones = 1 .. Len(unread_zones)
      /\ Len(unread_zones) \in Nat
  BY ListFacts, ZoneElements
<1>4. CASE current_zone # 0 /\ ProceedCurrent
  BY <1>1, <1>4, ProceedStep
<1>5. CASE current_zone = 0
  <2> DEFINE at(i) == JumpTarget(unread_zones[i], SkipSectors)
  <2>1. PICK i \in 1 .. Len(unread_zones) :
          \/ GiveTask(unread_zones, i, FALSE)
          \/ GiveTask(unread_zones, i, TRUE)
          \/ /\ SplitsInside(unread_zones[i], at(i))
             /\ \/ GiveTask(Split(unread_zones, i, at(i)), i + 1, FALSE)
                \/ GiveTask(Split(unread_zones, i, at(i)), i, TRUE)
    BY <1>3, <1>5 DEF SkipfailGetTask
  <2>2. CASE GiveTask(unread_zones, i, FALSE) \/ GiveTask(unread_zones, i, TRUE)
    BY <1>1, <1>2, <2>2, GiveTaskOfList
  <2>3. at(i) \in Int
    <3>1. unread_zones[i].begin_lba \in Nat
      BY <1>3, ZoneElements
    <3>2. SkipSectors \in Nat
      <4>1. skip_blocks \in Nat /\ SectorsAtOnce \in Nat
        BY SectorsAtOnceAssumption DEF IndInv, TypeOK
      <4> QED
        BY <4>1 DEF SkipSectors
    <3> QED
      BY <3>1, <3>2, SectorsAtOnceAssumption DEF JumpTarget
  <2> HIDE DEF at
  <2>4. i \in 1 .. Len(unread_zones) + 1 /\ i + 1 \in 1 .. Len(unread_zones) + 1
    BY <1>3
  <2>5. ASSUME SplitsInside(unread_zones[i], at(i)),
               NEW k \in 1 .. Len(unread_zones) + 1, NEW rev \in BOOLEAN,
               GiveTask(Split(unread_zones, i, at(i)), k, rev)
        PROVE  IndInv'
    BY <1>1, <1>2, <2>3, <2>5, GiveTaskOfSplit
  <2> QED
    BY <2>1, <2>2, <2>4, <2>5
<1> QED
  BY <1>4, <1>5 DEF SkipfailGetTask

-----------------------------------------------------------------------------
(* Transferring the block, and the loop around Perform.                    *)

LEMMA TypeParts ==
  ASSUME TypeOK
  PROVE  /\ lba_to_read + sectors_to_read \in Nat
         /\ report.sectors_processed \in Nat
BY DEF TypeOK, Report

LEMMA ReturnStep ==
  ASSUME IndInv, NEW r \in {0, 1}, Return(r),
         pc \in {"loop", "read"},
         UNCHANGED <<persistent, result, config, zoneVars, progress, scanVars,
                     report, handled>>
  PROVE  IndInv'
<1> USE DEF Return, persistent, config, zoneVars, progress, scanVars
<1>1. TypeOK'
  BY DEF IndInv, TypeOK, ControlStates, Lbas
<1> QED
  BY <1>1, QuietStep DEF InTask

LEMMA ReadStep ==
  ASSUME IndInv, NEW how \in ReadResults, Read(how)
  PROVE  IndInv'
<1> USE DEF Read, persistent, config, zoneVars, progress, scanVars
<1>1. report' \in Report
  BY DEF ReportOf, Report, IndInv, TypeOK
<1>2. pc' \in {"write", "journal", "update"}
  BY DEF RecordNext
<1>3. TypeOK'
  BY <1>1, <1>2 DEF IndInv, TypeOK, ControlStates, Lbas, task
<1>4. (pc' = "journal" => use_journal) /\ (use_journal => pc' # "update")
  BY DEF RecordNext
<1> QED
  <2>1. InTask /\ UNCHANGED task
    BY DEF InTask
  <2>2. UNCHANGED <<journal, journal_len, config, zoneVars, progress, scanVars>>
    OBVIOUS
  <2>3. pc = "read"
    OBVIOUS
  <2> HIDE DEF Read, config, zoneVars, progress, scanVars
  <2> QED
    BY <1>2, <1>3, <1>4, <2>1, <2>2, <2>3, QuietStep

LEMMA WriteStep ==
  ASSUME IndInv, Write
  PROVE  IndInv'
<1> USE DEF config, zoneVars, progress, scanVars
<1>1. PICK n \in 0 .. sectors_to_read : PutSectors(n)
  <2>1. sectors_to_read \in Nat
    BY DEF IndInv, TypeOK
  <2> QED
    BY <2>1 DEF Write
<1>2. /\ dst' \in [Lbas -> {"none", "good", "bad"}] /\ dst_len' \in Nat
      /\ UNCHANGED <<journal, journal_len>>
  <2>1. dst' \in [Lbas -> {"none", "good", "bad"}]
    BY <1>1 DEF PutSectors, IndInv, TypeOK
  <2>2. dst_len' \in Nat
    <3>1. lba_to_read + n \in Nat /\ dst_len \in Nat
      BY DEF IndInv, TypeOK
    <3> QED
      BY <1>1, <3>1 DEF PutSectors
  <2> QED
    BY <1>1, <2>1, <2>2 DEF PutSectors
<1>3. report' \in Report
  <2>1. report \in Report
    BY DEF IndInv, TypeOK
  <2> QED
    BY <2>1 DEF Write, Report
<1>4. pc' \in {"journal", "update"} /\ (pc' = "journal" <=> use_journal)
  BY DEF Write, RecordNext, IndInv, TypeOK
<1>5. TypeOK'
  BY <1>2, <1>3, <1>4 DEF Write, IndInv, TypeOK, ControlStates, Lbas, task
<1> QED
  BY <1>2, <1>4, <1>5, QuietStep DEF InTask, Write

LEMMA LoopTurnStep ==
  ASSUME IndInv, Callback \/ LoopFinished \/ LoopInterrupted
  PROVE  IndInv'
<1> USE DEF Callback, LoopFinished, LoopInterrupted, persistent, config,
            zoneVars, progress, scanVars, task, outcome
<1>1. handled' \in Nat
  <2>1. handled \in Nat /\ report.sectors_processed \in Nat
    BY TypeParts DEF IndInv, TypeOK
  <2>2. handled' = handled \/ handled' = handled + report.sectors_processed
    OBVIOUS
  <2> QED
    BY <2>1, <2>2
<1>2. pc' \in {"loop", "closing"} /\ result' \in Results
  BY DEF Results, IndInv, TypeOK
<1>3. TypeOK'
  BY <1>1, <1>2 DEF IndInv, TypeOK, ControlStates, Lbas
<1>4. pc \in {"loop", "callback"}
  OBVIOUS
<1> QED
  BY <1>2, <1>3, <1>4, QuietStep DEF InTask

-----------------------------------------------------------------------------
(* Opening a session.                                                      *)

LEMMA OpenRefusedStep == ASSUME IndInv, OpenRefused PROVE IndInv'
<1> USE DEF OpenRefused, persistent, config, zoneVars, progress, scanVars, task,
            outcome
<1>1. TypeOK'
  BY DEF IndInv, TypeOK, Results, Lbas
<1>2. ZonesWellFormed'
  BY DEF IndInv, ZonesWellFormed, ZonesNonEmpty, ZonesInside, ZonesAscending
<1>3. TaskAtZoneEdge' /\ ScanInv' /\ JournalMatchesZones' /\ ProgressAccounts'
  BY DEF TaskAtZoneEdge, InTask, ScanInv, JournalMatchesZones,
         ProgressAccounts, InSession
<1>4. PhaseInv' /\ JournalFilled'
  BY DEF IndInv, PhaseInv, NoSession, JournalFilled, Lbas
<1> QED
  BY <1>1, <1>2, <1>3, <1>4 DEF IndInv

(* What every opened session starts from.                                  *)
LEMMA OpenedContext ==
  ASSUME IndInv, NEW s \in Strategies, NEW uj \in BOOLEAN, OpenContext(s, uj)
  PROVE  /\ pc = "closed" /\ use_journal' = uj /\ journal' = journal
         /\ num' = 0 /\ current_zone' = 0 /\ reversive' = FALSE
         /\ scan_lba' = 0 /\ scan_begin' = -1
         /\ (/\ unread_zones' \in Seq(Zone) /\ den' \in Nat
             /\ journal_len' \in -1 .. EndLba
             /\ pc' \in ControlStates) => TypeOK'
<1> USE DEF OpenContext, persistent, scanVars, task, outcome
<1>1. NoSession
  BY DEF IndInv, PhaseInv
<1>2. /\ num' = 0 /\ current_zone' = 0 /\ reversive' = FALSE
      /\ scan_lba' = 0 /\ scan_begin' = -1
  BY <1>1 DEF NoSession
<1>3. ASSUME unread_zones' \in Seq(Zone), den' \in Nat,
             journal_len' \in -1 .. EndLba, pc' \in ControlStates
      PROVE  TypeOK'
  <2>1. read_strategy' \in ReadStrategies
    BY StrategiesAssumption
  <2>2. skip_blocks' \in Nat
    <3>1. CASE s \in SkipfailStrategies
      BY <3>1, SkipChoicesAssumption
    <3>2. CASE s \notin SkipfailStrategies
      BY <3>2
    <3> QED
      BY <3>1, <3>2
  <2>3. current_zone' \in 0 .. Len(unread_zones')
    BY <1>2, <1>3, ZoneElements
  <2>4. dst_file_end_lba' \in Nat /\ result' \in Results
    BY DEF IndInv, TypeOK, Results
  <2> QED
    BY <1>3, <2>1, <2>2, <2>3, <2>4 DEF IndInv, TypeOK, Lbas
<1> QED
  BY <1>2, <1>3

LEMMA OpenWithoutJournalStep ==
  ASSUME IndInv, NEW s \in Strategies, OpenWithoutJournal(s)
  PROVE  IndInv'
<1> DEFINE whole == <<FreshZone(0, EndLba)>>
<1>1. /\ OpenContext(s, FALSE) /\ unread_zones' = whole /\ den' = EndLba
      /\ pc' = "loop" /\ journal_len' = journal_len
  BY DEF OpenWithoutJournal
<1>2. /\ whole \in Seq(Zone) /\ WellFormed(whole, EndLba)
      /\ UnreadSectors(whole) = Lbas
      /\ Cardinality(UnreadSectors(whole)) = EndLba
  BY WholeDevice
<1> HIDE DEF whole
<1>3. /\ pc = "closed" /\ use_journal' = FALSE /\ journal' = journal
      /\ num' = 0 /\ current_zone' = 0 /\ reversive' = FALSE
  BY <1>1, OpenedContext
<1>4. TypeOK'
  <2>1. den' \in Nat /\ journal_len' \in -1 .. EndLba /\ pc' \in ControlStates
    BY <1>1, EndLbaAssumption DEF IndInv, TypeOK, ControlStates
  <2> QED
    BY <1>1, <1>2, <2>1, OpenedContext
<1>5. ZonesWellFormed'
  BY <1>1, <1>2 DEF ZonesWellFormed, WellFormed
<1>6. TaskAtZoneEdge' /\ ScanInv' /\ JournalMatchesZones' /\ PhaseInv'
  BY <1>1, <1>3 DEF TaskAtZoneEdge, InTask, ScanInv, JournalMatchesZones,
                    PhaseInv
<1>7. JournalFilled'
  BY <1>1, <1>3 DEF IndInv, JournalFilled, Lbas
<1>8. ProgressAccounts'
  BY <1>1, <1>2, <1>3, EndLbaAssumption DEF ProgressAccounts
<1> QED
  BY <1>4, <1>5, <1>6, <1>7, <1>8 DEF IndInv

LEMMA OpenNewJournalStep ==
  ASSUME IndInv, NEW s \in Strategies, OpenNewJournal(s)
  PROVE  IndInv'
<1> DEFINE whole == <<FreshZone(0, EndLba)>>
<1>1. /\ OpenContext(s, TRUE) /\ unread_zones' = whole /\ den' = EndLba
      /\ pc' = "create" /\ journal_len' = 0 /\ journal_len = -1
  BY DEF OpenNewJournal
<1>2. /\ whole \in Seq(Zone) /\ WellFormed(whole, EndLba)
  BY WholeDevice
<1>3. /\ pc = "closed" /\ use_journal' = TRUE /\ journal' = journal
      /\ num' = 0 /\ current_zone' = 0 /\ reversive' = FALSE /\ scan_begin' = -1
  BY <1>1, OpenedContext
<1>4. EndLba \in Nat /\ EndLba > 0
  BY EndLbaAssumption
<1>5. TypeOK'
  <2>1. den' \in Nat /\ journal_len' \in -1 .. EndLba /\ pc' \in ControlStates
    BY <1>1, <1>4 DEF ControlStates
  <2> QED
    BY <1>1, <1>2, <2>1, OpenedContext
<1>6. ZonesWellFormed'
  BY <1>1, <1>2 DEF ZonesWellFormed, WellFormed
<1>7. /\ TaskAtZoneEdge' /\ ScanInv' /\ JournalMatchesZones'
      /\ ProgressAccounts'
  BY <1>1 DEF TaskAtZoneEdge, InTask, ScanInv, JournalMatchesZones,
              ProgressAccounts, InSession
<1>8. PhaseInv'
  BY <1>1, <1>3, <1>4 DEF PhaseInv
<1>9. JournalFilled'
  <2>1. \A l \in Lbas : journal[l] = "Unread"
    BY <1>1, <1>4 DEF IndInv, JournalFilled
  <2> QED
    BY <1>1, <1>3, <2>1 DEF JournalFilled, Lbas
<1> QED
  BY <1>5, <1>6, <1>7, <1>8, <1>9 DEF IndInv

LEMMA OpenJournalStep ==
  ASSUME IndInv, NEW s \in Strategies, OpenJournal(s)
  PROVE  IndInv'
<1>1. /\ OpenContext(s, TRUE) /\ unread_zones' = <<>> /\ den' = 0
      /\ pc' = "scan" /\ journal_len' = EndLba
  BY DEF OpenJournal
<1>2. unread_zones' \in Seq(Zone) /\ Len(unread_zones') = 0
  BY <1>1
<1>3. /\ pc = "closed" /\ use_journal' = TRUE /\ journal' = journal
      /\ num' = 0 /\ current_zone' = 0 /\ reversive' = FALSE
      /\ scan_lba' = 0 /\ scan_begin' = -1
  BY <1>1, OpenedContext
<1>4. TypeOK'
  <2>1. den' \in Nat /\ journal_len' \in -1 .. EndLba /\ pc' \in ControlStates
    BY <1>1, EndLbaAssumption DEF ControlStates
  <2> QED
    BY <1>1, <1>2, <2>1, OpenedContext
<1>5. DOMAIN unread_zones' = {}
  BY <1>2, ZoneElements
<1>6. ZonesWellFormed' /\ \A n : ZonesInside(unread_zones', n)
  BY <1>5 DEF ZonesWellFormed, ZonesNonEmpty, ZonesInside, ZonesAscending
<1>7. /\ TaskAtZoneEdge' /\ JournalMatchesZones' /\ ProgressAccounts'
      /\ PhaseInv'
  BY <1>1, <1>3 DEF TaskAtZoneEdge, InTask, JournalMatchesZones,
                    ProgressAccounts, InSession, PhaseInv
<1>8. JournalFilled'
  BY <1>1, <1>3 DEF JournalFilled
<1>9. ScanInv'
  <2>1. UnreadSectors(unread_zones') = {}
    BY <1>5 DEF UnreadSectors
  <2>2. Cardinality(UnreadSectors(unread_zones)') = 0
    BY <2>1, FS_EmptySet DEF UnreadSectors
  <2>3. ZonesInside(unread_zones, ScanFront)'
    BY <1>6 DEF ZonesInside
  <2> QED
    BY <1>1, <1>3, <2>2, <2>3 DEF ScanInv
<1> QED
  BY <1>4, <1>6, <1>7, <1>8, <1>9 DEF IndInv

LEMMA FillJournalStep == ASSUME IndInv, FillJournal PROVE IndInv'
<1> USE DEF config, zoneVars, progress, scanVars, task, outcome
<1>1. /\ pc = "create" /\ pc' \in {"create", "loop"}
      /\ pc' = "loop" <=> journal_len' = EndLba
      /\ UNCHANGED <<journal, dst, dst_len, result, config, zoneVars, progress,
                     scanVars, task, outcome, handled>>
  BY DEF FillJournal
<1>2. /\ unread_zones = <<FreshZone(0, EndLba)>> /\ den = EndLba
      /\ num = 0 /\ current_zone = 0 /\ use_journal /\ ~reversive
      /\ scan_begin = -1 /\ journal_len < EndLba
  BY <1>1 DEF IndInv, PhaseInv
<1>3. /\ UnreadSectors(unread_zones) = Lbas
      /\ Cardinality(UnreadSectors(unread_zones)) = EndLba
  BY <1>2, WholeDevice
<1>4. journal_len \in -1 .. EndLba /\ EndLba \in Nat /\ EndLba > 0
  BY EndLbaAssumption DEF IndInv, TypeOK
<1>5. /\ journal_len' \in -1 .. EndLba
      /\ pc' = "create" => journal_len' < EndLba
  BY <1>1, <1>4, JournalChunkAssumption DEF FillJournal
<1>6. \A l \in Lbas : journal[l] = "Unread"
  BY <1>2, <1>4 DEF IndInv, JournalFilled
<1>7. TypeOK'
  BY <1>1, <1>5 DEF IndInv, TypeOK, ControlStates, Lbas
<1>8. ZonesWellFormed'
  BY <1>1 DEF IndInv, ZonesWellFormed, ZonesNonEmpty, ZonesInside, ZonesAscending
<1>9. TaskAtZoneEdge' /\ ScanInv'
  BY <1>1 DEF TaskAtZoneEdge, InTask, ScanInv
<1>10. PhaseInv'
  BY <1>1, <1>2, <1>5 DEF PhaseInv, FreshZone
<1>11. JournalFilled'
  BY <1>1, <1>6 DEF JournalFilled, Lbas
<1>12. JournalMatchesZones'
  BY <1>1, <1>3, <1>6 DEF JournalMatchesZones, UnreadSectors, Lbas
<1>13. ProgressAccounts'
  BY <1>1, <1>2, <1>3, <1>4 DEF ProgressAccounts, UnreadSectors
<1> QED
  BY <1>7, <1>8, <1>9, <1>10, <1>11, <1>12, <1>13 DEF IndInv

-----------------------------------------------------------------------------
(* Parsing the journal.                                                    *)

(* A list inside a bound is inside a larger one.                           *)
LEMMA WellFormedWithin ==
  ASSUME NEW z \in Seq(Zone), NEW m \in Nat, NEW n \in Nat, m <= n,
         WellFormed(z, m)
  PROVE  WellFormed(z, n)
<1>1. \A i \in 1 .. Len(z) : z[i].end_lba \in Nat /\ z[i].end_lba <= m
  BY ZoneElements, WellFormedElements
<1>2. \A i \in 1 .. Len(z) : z[i].end_lba <= n
  BY <1>1
<1> QED
  BY <1>2, WellFormedElements

(* Adding the sectors of an interval beyond those of a set.                *)
LEMMA AddInterval ==
  ASSUME NEW S, NEW b \in Nat, NEW e \in Nat, b <= e, S \subseteq 0 .. b - 1
  PROVE  Cardinality(S \cup (b .. e - 1)) = Cardinality(S) + (e - b)
<1>1. IsFiniteSet(S) /\ Cardinality(S) \in Nat
  <2>1. IsFiniteSet(0 .. b - 1)
    BY FS_Interval
  <2>2. S \in SUBSET (0 .. b - 1)
    OBVIOUS
  <2> QED
    BY <2>1, <2>2, FS_Subset, FS_CardinalityType
<1>2. IsFiniteSet(b .. e - 1) /\ Cardinality(b .. e - 1) = e - b
  <2>1. b \in Int /\ e - 1 \in Int
    OBVIOUS
  <2>2. /\ IsFiniteSet(b .. e - 1)
        /\ Cardinality(b .. e - 1) = IF b > e - 1 THEN 0 ELSE (e - 1) - b + 1
    BY <2>1, FS_Interval
  <2> QED
    BY <2>2
<1>3. S \cap (b .. e - 1) = {}
  OBVIOUS
<1>4. Cardinality(S \cap (b .. e - 1)) = 0
  BY <1>3, FS_EmptySet
<1>5. Cardinality(S \cup (b .. e - 1))
        = Cardinality(S) + Cardinality(b .. e - 1) - Cardinality(S \cap (b .. e - 1))
  BY <1>1, <1>2, FS_Union
<1> QED
  BY <1>1, <1>2, <1>4, <1>5

(* What the invariant says while the journal is parsed.                    *)
LEMMA Scanning ==
  ASSUME IndInv, pc = "scan"
  PROVE  /\ unread_zones \in Seq(Zone) /\ WellFormed(unread_zones, ScanFront)
         /\ UnreadSectors(unread_zones) \subseteq 0 .. ScanFront - 1
         /\ ScanFront \in Nat /\ scan_lba \in Nat /\ scan_lba <= EndLba
         /\ ScanFront <= scan_lba /\ EndLba \in Nat
         /\ scan_begin # -1 => scan_begin \in Nat /\ scan_begin < scan_lba
         /\ den = Cardinality(UnreadSectors(unread_zones)) /\ den \in Nat
         /\ use_journal /\ num = 0 /\ current_zone = 0 /\ ~reversive
         /\ journal_len = EndLba
         /\ \A l \in 0 .. scan_lba - 1 :
              journal[l] = "Unread"
                <=> \/ l \in UnreadSectors(unread_zones)
                    \/ scan_begin # -1 /\ scan_begin <= l
<1>1. /\ unread_zones \in Seq(Zone) /\ EndLba \in Nat
      /\ scan_lba \in 0 .. EndLba /\ scan_begin \in -1 .. EndLba - 1
      /\ den \in Nat
  BY EndLbaAssumption DEF IndInv, TypeOK
<1>2. ScanInv
  BY DEF IndInv
<1>3. /\ ScanFront \in Nat /\ ScanFront <= scan_lba
      /\ scan_begin # -1 => scan_begin \in Nat /\ scan_begin < scan_lba
  BY <1>1, <1>2 DEF ScanInv, ScanFront
<1>4. WellFormed(unread_zones, ScanFront)
  BY <1>2 DEF ScanInv, IndInv, ZonesWellFormed, WellFormed
<1>5. UnreadSectors(unread_zones) \subseteq 0 .. ScanFront - 1
  BY <1>1, <1>3, <1>4, UnreadFinite
<1>6. /\ use_journal /\ num = 0 /\ current_zone = 0 /\ ~reversive
      /\ journal_len = EndLba
  BY DEF IndInv, PhaseInv, JournalFilled
<1> QED
  BY <1>1, <1>2, <1>3, <1>4, <1>5, <1>6 DEF ScanInv

(* The zone being scanned joins the list.                                  *)
LEMMA ParsedZone ==
  ASSUME IndInv, pc = "scan", scan_begin # -1,
         NEW defective \in BOOLEAN, AppendZone(scan_lba, defective)
  PROVE  /\ unread_zones' \in Seq(Zone) /\ WellFormed(unread_zones', scan_lba)
         /\ UnreadSectors(unread_zones')
              = UnreadSectors(unread_zones) \cup (scan_begin .. scan_lba - 1)
         /\ den' = Cardinality(UnreadSectors(unread_zones'))
         /\ den' \in Nat
<1> DEFINE zone == [begin_lba |-> scan_begin, end_lba |-> scan_lba,
                    begin_lba_defective |-> scan_defective,
                    end_lba_defective |-> defective]
           U == UnreadSectors(unread_zones)
<1>1. /\ unread_zones \in Seq(Zone) /\ WellFormed(unread_zones, scan_begin)
      /\ scan_begin \in Nat /\ scan_lba \in Nat /\ scan_begin < scan_lba
      /\ U \subseteq 0 .. scan_begin - 1
      /\ den = Cardinality(U) /\ den \in Nat
  BY Scanning DEF ScanFront
<1>2. unread_zones' = Append(unread_zones, zone) /\ den' = den + (scan_lba - scan_begin)
  BY DEF AppendZone
<1>3. /\ zone \in Zone /\ zone.begin_lba = scan_begin /\ zone.end_lba = scan_lba
  BY <1>1 DEF Zone, IndInv, TypeOK
<1> HIDE DEF zone
<1>4. /\ unread_zones' \in Seq(Zone) /\ WellFormed(unread_zones', scan_lba)
      /\ \A l \in Int : l \in UnreadSectors(unread_zones')
           <=> l \in U \/ l \in ZoneSectors(zone)
  BY <1>1, <1>2, <1>3, AppendedZone
<1>5. ZoneSectors(zone) = scan_begin .. scan_lba - 1
  BY <1>3 DEF ZoneSectors
<1>6. UnreadSectors(unread_zones') = U \cup (scan_begin .. scan_lba - 1)
  <2>1. UnreadSectors(unread_zones') \subseteq 0 .. scan_lba - 1
    BY <1>1, <1>4, UnreadFinite
  <2>2. \A l \in UnreadSectors(unread_zones') : l \in Int
    BY <2>1
  <2>3. \A l \in U \cup (scan_begin .. scan_lba - 1) : l \in Int
    BY <1>1
  <2> QED
    BY <1>4, <1>5, <2>2, <2>3
<1>7. Cardinality(UnreadSectors(unread_zones')) = Cardinality(U) + (scan_lba - scan_begin)
  <2>1. U \cup (scan_begin .. scan_lba - 1) = UnreadSectors(unread_zones')
    BY <1>6
  <2>2. /\ scan_begin \in Nat /\ scan_lba \in Nat /\ scan_begin <= scan_lba
        /\ U \subseteq 0 .. scan_begin - 1
    BY <1>1
  <2> HIDE DEF U
  <2>3. Cardinality(U \cup (scan_begin .. scan_lba - 1))
          = Cardinality(U) + (scan_lba - scan_begin)
    BY ONLY <2>2, AddInterval, Zenon
  <2> QED
    BY <2>1, <2>3
<1>8. den' \in Nat
  BY <1>1, <1>2
<1> QED
  BY <1>1, <1>2, <1>4, <1>6, <1>7, <1>8

LEMMA ScanSectorStep == ASSUME IndInv, ScanSector PROVE IndInv'
<1> USE DEF persistent, config, task, outcome
<1> DEFINE U == UnreadSectors(unread_zones)
<1>1. /\ pc = "scan" /\ pc' = "scan" /\ scan_lba < EndLba
      /\ scan_lba' = scan_lba + 1
      /\ UNCHANGED <<persistent, config, current_zone, reversive, num>>
  BY DEF ScanSector
<1>2. /\ unread_zones \in Seq(Zone) /\ WellFormed(unread_zones, ScanFront)
      /\ U \subseteq 0 .. ScanFront - 1
      /\ ScanFront \in Nat /\ scan_lba \in Nat /\ scan_lba <= EndLba
      /\ ScanFront <= scan_lba /\ EndLba \in Nat
      /\ scan_begin # -1 => scan_begin \in Nat /\ scan_begin < scan_lba
      /\ den = Cardinality(U) /\ den \in Nat
      /\ use_journal /\ num = 0 /\ current_zone = 0 /\ ~reversive
      /\ journal_len = EndLba
      /\ \A l \in 0 .. scan_lba - 1 :
           journal[l] = "Unread" <=> l \in U \/ (scan_begin # -1 /\ scan_begin <= l)
  BY <1>1, Scanning
<1>3. \A l \in 0 .. scan_lba' - 1 : l = scan_lba \/ l \in 0 .. scan_lba - 1
  BY <1>1, <1>2
<1>4. /\ unread_zones' \in Seq(Zone) /\ WellFormed(unread_zones', ScanFront')
      /\ ScanFront' \in Nat /\ ScanFront' <= EndLba
      /\ scan_begin' \in -1 .. EndLba - 1 /\ scan_begin' < scan_lba'
      /\ scan_defective' \in BOOLEAN
      /\ den' = Cardinality(UnreadSectors(unread_zones')) /\ den' \in Nat
      /\ \A l \in 0 .. scan_lba' - 1 :
           journal[l] = "Unread"
             <=> \/ l \in UnreadSectors(unread_zones')
                 \/ scan_begin' # -1 /\ scan_begin' <= l
  <2>1. CASE /\ journal[scan_lba] = "Unread" /\ scan_begin = -1
             /\ scan_begin' = scan_lba
             /\ scan_defective'
                  = (scan_lba > 0 /\ Defective(journal[scan_lba - 1]))
             /\ UNCHANGED <<unread_zones, den>>
    <3>1. ScanFront' = scan_lba /\ ScanFront = scan_lba
      BY <1>2, <2>1 DEF ScanFront
    <3>2. WellFormed(unread_zones', ScanFront')
      BY <1>2, <2>1, <3>1
    <3>3. \A l \in 0 .. scan_lba' - 1 :
            journal[l] = "Unread"
              <=> \/ l \in UnreadSectors(unread_zones')
                  \/ scan_begin' # -1 /\ scan_begin' <= l
      BY <1>2, <1>3, <2>1
    <3>4. scan_begin' \in -1 .. EndLba - 1 /\ scan_begin' < scan_lba'
      BY <1>1, <1>2, <2>1
    <3>5. scan_defective' \in BOOLEAN
      BY <2>1 DEF Defective
    <3> QED
      BY <1>1, <1>2, <2>1, <3>1, <3>2, <3>3, <3>4, <3>5
  <2>2. CASE /\ journal[scan_lba] # "Unread" /\ scan_begin # -1
             /\ AppendZone(scan_lba, Defective(journal[scan_lba]))
    <3>1. Defective(journal[scan_lba]) \in BOOLEAN
      BY DEF Defective
    <3>2. /\ unread_zones' \in Seq(Zone) /\ WellFormed(unread_zones', scan_lba)
          /\ UnreadSectors(unread_zones') = U \cup (scan_begin .. scan_lba - 1)
          /\ den' = Cardinality(UnreadSectors(unread_zones'))
          /\ den' \in Nat
      BY <1>1, <2>2, <3>1, ParsedZone
    <3>3. scan_begin' = -1 /\ scan_defective' = FALSE /\ ScanFront' = scan_lba + 1
      BY <1>1, <2>2 DEF AppendZone, ScanFront
    <3>4. WellFormed(unread_zones', ScanFront')
      BY <1>2, <3>2, <3>3, WellFormedWithin
    <3>5. ASSUME NEW l \in 0 .. scan_lba' - 1
          PROVE  journal[l] = "Unread" <=> l \in UnreadSectors(unread_zones')
      <4>1. CASE l = scan_lba
        BY <1>2, <2>2, <3>2, <4>1
      <4>2. CASE l \in 0 .. scan_lba - 1
        BY <1>2, <2>2, <3>2, <4>2
      <4> QED
        BY <1>3, <4>1, <4>2
    <3>6. /\ scan_begin' \in -1 .. EndLba - 1 /\ scan_begin' < scan_lba'
          /\ ScanFront' \in Nat /\ ScanFront' <= EndLba
      BY <1>1, <1>2, <3>3
    <3>7. /\ scan_defective' \in BOOLEAN
          /\ \A l \in 0 .. scan_lba' - 1 :
               journal[l] = "Unread"
                 <=> \/ l \in UnreadSectors(unread_zones')
                     \/ scan_begin' # -1 /\ scan_begin' <= l
      BY <3>3, <3>5
    <3> QED
      BY <3>2, <3>4, <3>6, <3>7
  <2>3. CASE /\ (journal[scan_lba] = "Unread") = (scan_begin # -1)
             /\ UNCHANGED <<scan_begin, scan_defective, unread_zones, den>>
    <3>1. ScanFront' \in Nat /\ ScanFront <= ScanFront' /\ ScanFront' <= EndLba
      BY <1>1, <1>2, <2>3 DEF ScanFront
    <3>2. WellFormed(unread_zones', ScanFront')
      BY <1>2, <2>3, <3>1, WellFormedWithin
    <3>3. scan_lba \notin U
      BY <1>2
    <3>4. ASSUME NEW l \in 0 .. scan_lba' - 1
          PROVE  journal[l] = "Unread"
                   <=> \/ l \in UnreadSectors(unread_zones')
                       \/ scan_begin' # -1 /\ scan_begin' <= l
      <4>1. CASE l = scan_lba
        BY <1>2, <2>3, <3>3, <4>1
      <4>2. CASE l \in 0 .. scan_lba - 1
        BY <1>2, <2>3, <4>2
      <4> QED
        BY <1>3, <4>1, <4>2
    <3>5. scan_begin' \in -1 .. EndLba - 1 /\ scan_begin' < scan_lba'
      BY <1>1, <1>2, <2>3 DEF IndInv, TypeOK
    <3>6. scan_defective' \in BOOLEAN
      BY <2>3 DEF IndInv, TypeOK
    <3> QED
      BY <1>2, <2>3, <3>1, <3>2, <3>4, <3>5, <3>6
  <2> QED
    BY <2>1, <2>2, <2>3 DEF ScanSector
<1>5. TypeOK'
  <2>1. scan_lba' \in 0 .. EndLba
    BY <1>1, <1>2
  <2>2. current_zone' \in 0 .. Len(unread_zones')
    BY <1>1, <1>2, <1>4, ZoneElements
  <2> QED
    BY <1>4, <2>1, <2>2 DEF ScanSector, IndInv, TypeOK, Lbas
<1>6. ZonesWellFormed'
  <2>1. WellFormed(unread_zones', EndLba)
    BY <1>2, <1>4, WellFormedWithin
  <2> QED
    BY <2>1 DEF ZonesWellFormed, WellFormed
<1>7. TaskAtZoneEdge' /\ JournalMatchesZones' /\ ProgressAccounts'
  BY <1>1 DEF TaskAtZoneEdge, InTask, JournalMatchesZones, ProgressAccounts,
              InSession
<1>8. PhaseInv'
  BY <1>1, <1>2 DEF PhaseInv
<1>9. JournalFilled'
  BY <1>1 DEF IndInv, JournalFilled, Lbas
<1>10. ScanInv'
  <2>1. ZonesInside(unread_zones, ScanFront)'
    BY <1>4 DEF WellFormed, ZonesInside
  <2> QED
    BY <1>1, <1>4, <2>1 DEF ScanInv, UnreadSectors
<1> QED
  BY <1>5, <1>6, <1>7, <1>8, <1>9, <1>10 DEF IndInv

LEMMA ScanEndStep == ASSUME IndInv, ScanEnd PROVE IndInv'
<1> USE DEF persistent, config, task, outcome
<1> DEFINE U == UnreadSectors(unread_zones)
<1>1. /\ pc = "scan" /\ pc' = "loop" /\ scan_lba = EndLba /\ scan_lba' = 0
      /\ UNCHANGED <<persistent, config, current_zone, reversive, num>>
  BY DEF ScanEnd
<1>2. /\ unread_zones \in Seq(Zone) /\ WellFormed(unread_zones, ScanFront)
      /\ U \subseteq 0 .. ScanFront - 1
      /\ ScanFront \in Nat /\ EndLba \in Nat
      /\ scan_begin # -1 => scan_begin \in Nat /\ scan_begin < scan_lba
      /\ den = Cardinality(U) /\ den \in Nat
      /\ use_journal /\ num = 0 /\ current_zone = 0 /\ ~reversive
      /\ \A l \in 0 .. scan_lba - 1 :
           journal[l] = "Unread" <=> l \in U \/ (scan_begin # -1 /\ scan_begin <= l)
  BY <1>1, Scanning
<1>3. /\ unread_zones' \in Seq(Zone) /\ WellFormed(unread_zones', EndLba)
      /\ den' = Cardinality(UnreadSectors(unread_zones')) /\ den' \in Nat
      /\ scan_begin' = -1 /\ scan_defective' \in BOOLEAN
      /\ \A l \in Lbas :
           journal[l] = "Unread" <=> l \in UnreadSectors(unread_zones')
  <2>1. CASE scan_begin # -1
    <3>1. AppendZone(scan_lba, FALSE)
      BY <1>1, <2>1 DEF ScanEnd
    <3>2. /\ unread_zones' \in Seq(Zone) /\ WellFormed(unread_zones', scan_lba)
          /\ UnreadSectors(unread_zones') = U \cup (scan_begin .. scan_lba - 1)
          /\ den' = Cardinality(UnreadSectors(unread_zones'))
          /\ den' \in Nat
      BY <1>1, <2>1, <3>1, ParsedZone
    <3>3. scan_begin' = -1 /\ scan_defective' = FALSE
      BY <3>1 DEF AppendZone
    <3>4. \A l \in Lbas :
            journal[l] = "Unread" <=> l \in UnreadSectors(unread_zones')
      BY <1>1, <1>2, <2>1, <3>2 DEF Lbas
    <3> QED
      BY <1>1, <3>2, <3>3, <3>4
  <2>2. CASE scan_begin = -1
    <3>1. UNCHANGED <<scan_begin, scan_defective, unread_zones, den>>
      BY <2>2 DEF ScanEnd
    <3>2. ScanFront = EndLba
      BY <1>1, <2>2 DEF ScanFront
    <3>3. scan_defective' \in BOOLEAN
      BY <3>1 DEF IndInv, TypeOK
    <3> QED
      BY <1>1, <1>2, <2>2, <3>1, <3>2, <3>3 DEF Lbas
  <2> QED
    BY <2>1, <2>2
<1>4. TypeOK'
  <2>1. scan_lba' \in 0 .. EndLba /\ scan_begin' \in -1 .. EndLba - 1
    BY <1>1, <1>2, <1>3
  <2>2. current_zone' \in 0 .. Len(unread_zones')
    BY <1>1, <1>2, <1>3, ZoneElements
  <2> QED
    BY <1>1, <1>3, <2>1, <2>2 DEF ScanEnd, IndInv, TypeOK, Lbas, ControlStates
<1>5. ZonesWellFormed'
  BY <1>3 DEF ZonesWellFormed, WellFormed
<1>6. TaskAtZoneEdge' /\ ScanInv'
  BY <1>1 DEF TaskAtZoneEdge, InTask, ScanInv
<1>7. PhaseInv'
  BY <1>1, <1>2 DEF PhaseInv
<1>8. JournalFilled'
  BY <1>1 DEF IndInv, JournalFilled, Lbas
<1>9. JournalMatchesZones'
  BY <1>1, <1>3 DEF JournalMatchesZones, UnreadSectors, Lbas
<1>10. ProgressAccounts'
  BY <1>1, <1>2, <1>3 DEF ProgressAccounts, UnreadSectors
<1> QED
  BY <1>4, <1>5, <1>6, <1>7, <1>8, <1>9, <1>10 DEF IndInv

-----------------------------------------------------------------------------
(* Recording the block and taking it off the list.                         *)

(* A block in flight is a non-empty part of the current zone.              *)
LEMMA CurrentBlock ==
  ASSUME IndInv, InTask
  PROVE  LET zone == unread_zones[current_zone]
         IN /\ current_zone \in 1 .. Len(unread_zones)
            /\ zone \in Zone /\ zone.begin_lba < zone.end_lba
            /\ sectors_to_read = BlockSize(zone)
            /\ lba_to_read = BlockStart(zone, reversive)
            /\ sectors_to_read \in Nat /\ sectors_to_read > 0
            /\ Block \subseteq ZoneSectors(zone)
            /\ Block \subseteq UnreadSectors(unread_zones)
            /\ Cardinality(Block) = sectors_to_read
<1> DEFINE zone == unread_zones[current_zone]
<1>1. /\ unread_zones \in Seq(Zone) /\ WellFormed(unread_zones, EndLba)
  BY ListFacts
<1>2. current_zone # 0 /\ sectors_to_read = BlockSize(zone)
      /\ lba_to_read = BlockStart(zone, reversive)
  BY DEF IndInv, TaskAtZoneEdge
<1>3. current_zone \in 1 .. Len(unread_zones)
  BY <1>1, <1>2, ZoneElements DEF IndInv, TypeOK
<1>4. zone \in Zone /\ zone.begin_lba < zone.end_lba
      /\ zone.begin_lba \in Nat /\ zone.end_lba \in Nat
  BY <1>1, <1>3, ZoneElements, WellFormedElements
<1>5. reversive \in BOOLEAN
  BY DEF IndInv, TypeOK
<1> HIDE DEF zone
<1>6. /\ BlockSize(zone) \in 1 .. SectorsAtOnce
      /\ BlockStart(zone, reversive) \in Nat
      /\ zone.begin_lba <= BlockStart(zone, reversive)
      /\ BlockStart(zone, reversive) + BlockSize(zone) <= zone.end_lba
  BY <1>4, <1>5, BlockInsideZone
<1>7. /\ lba_to_read \in Nat /\ sectors_to_read \in Nat /\ sectors_to_read > 0
      /\ zone.begin_lba <= lba_to_read
      /\ lba_to_read + sectors_to_read <= zone.end_lba
  BY <1>2, <1>6, SectorsAtOnceAssumption
<1>8. Block \subseteq ZoneSectors(zone)
  BY <1>4, <1>7 DEF Block, ZoneSectors
<1>9. Block \subseteq UnreadSectors(unread_zones)
  BY <1>1, <1>3, <1>8, UnreadSectorsMember, ZoneElements DEF zone
<1>10. Cardinality(Block) = sectors_to_read
  <2>1. lba_to_read \in Int /\ lba_to_read + sectors_to_read - 1 \in Int
    BY <1>7
  <2>2. Cardinality(Block)
          = IF lba_to_read > lba_to_read + sectors_to_read - 1 THEN 0
            ELSE (lba_to_read + sectors_to_read - 1) - lba_to_read + 1
    BY <2>1, FS_Interval DEF Block
  <2> QED
    BY <1>7, <2>2
<1> QED
  BY <1>2, <1>3, <1>4, <1>7, <1>8, <1>9, <1>10 DEF zone

LEMMA WriteJournalStep == ASSUME IndInv, WriteJournal PROVE IndInv'
<1> USE DEF config, zoneVars, progress, scanVars, task, outcome
<1>1. /\ pc = "journal" /\ pc' = "update"
      /\ journal' = [l \in Lbas |-> IF l \in Block THEN RecordedStatus
                                    ELSE journal[l]]
      /\ UNCHANGED <<journal_len, dst, dst_len, result, config, zoneVars, progress,
                     scanVars, task, outcome, handled>>
  BY DEF WriteJournal
<1>2. RecordedStatus \in SectorStatus /\ RecordedStatus # "Unread"
  BY DEF RecordedStatus, SectorStatus
<1>3. use_journal /\ journal_len = EndLba
  BY <1>1 DEF IndInv, PhaseInv, JournalFilled
<1>4. TypeOK'
  <2>1. journal' \in [Lbas -> SectorStatus]
    BY <1>1, <1>2 DEF IndInv, TypeOK
  <2> QED
    BY <1>1, <2>1 DEF IndInv, TypeOK, ControlStates, Lbas
<1>5. ZonesWellFormed'
  BY <1>1 DEF IndInv, ZonesWellFormed, ZonesNonEmpty, ZonesInside, ZonesAscending
<1>6. TaskAtZoneEdge'
  BY <1>1 DEF IndInv, TaskAtZoneEdge, InTask
<1>7. PhaseInv' /\ ScanInv'
  BY <1>1 DEF IndInv, PhaseInv, ScanInv
<1>8. JournalFilled'
  BY <1>1, <1>3 DEF JournalFilled
<1>9. JournalMatchesZones'
  <2>1. \A l \in Lbas :
          (journal[l] = "Unread") <=> l \in UnreadSectors(unread_zones)
    BY <1>1, <1>3 DEF IndInv, JournalMatchesZones, InSession
  <2>2. \A l \in Lbas :
          (journal'[l] = "Unread") <=> l \notin Block /\ journal[l] = "Unread"
    BY <1>1, <1>2
  <2>3. Block' = Block /\ unread_zones' = unread_zones
    BY <1>1 DEF Block
  <2> QED
    BY <1>1, <2>1, <2>2, <2>3 DEF JournalMatchesZones, UnreadSectors, Lbas
<1>10. ProgressAccounts'
  BY <1>1 DEF IndInv, ProgressAccounts, InSession, UnreadSectors
<1> QED
  BY <1>4, <1>5, <1>6, <1>7, <1>8, <1>9, <1>10 DEF IndInv

(* The list without the block: the current zone is trimmed, or removed     *)
(* when nothing is left of it.                                             *)
LEMMA BlockTakenOff ==
  ASSUME IndInv, UseResults
  PROVE  /\ unread_zones' \in Seq(Zone) /\ WellFormed(unread_zones', EndLba)
         /\ UnreadSectors(unread_zones') = UnreadSectors(unread_zones) \ Block
         /\ current_zone' \in 0 .. Len(unread_zones')
<1> DEFINE zone == unread_zones[current_zone]
           left == Trim(zone, reversive, sectors_to_read, Failed)
           z == unread_zones
           U == UnreadSectors(unread_zones)
<1>1. pc = "update" /\ InTask
  BY DEF UseResults, InTask
<1>2. /\ z \in Seq(Zone) /\ WellFormed(z, EndLba) /\ EndLba \in Nat
      /\ Len(z) \in Nat
  BY ListFacts, ZoneElements
<1>3. /\ current_zone \in 1 .. Len(z)
      /\ zone \in Zone /\ zone.begin_lba < zone.end_lba
      /\ sectors_to_read = BlockSize(zone)
      /\ lba_to_read = BlockStart(zone, reversive)
      /\ Block \subseteq ZoneSectors(zone)
  BY <1>1, CurrentBlock
<1>4. Failed \in BOOLEAN /\ reversive \in BOOLEAN
  BY DEF Failed, IndInv, TypeOK
<1>5. /\ unread_zones' = IF Empty(left) THEN RemoveAt(z, current_zone)
                         ELSE [z EXCEPT ![current_zone] = left]
      /\ current_zone' = NextCurrent(left)
  BY DEF UseResults
<1>6. /\ left \in Zone /\ zone.begin_lba <= left.begin_lba
      /\ left.begin_lba <= left.end_lba /\ left.end_lba <= zone.end_lba
      /\ \A l \in Int : l \in ZoneSectors(left) <=> l \in ZoneSectors(zone) /\ l \notin Block
  <2> HIDE DEF zone
  <2> DEFINE n == BlockSize(zone)
             lba == BlockStart(zone, reversive)
             rest == Trim(zone, reversive, n, Failed)
  <2>1. /\ rest \in Zone /\ zone.begin_lba <= rest.begin_lba
        /\ rest.begin_lba <= rest.end_lba /\ rest.end_lba <= zone.end_lba
        /\ \A l \in Int : l \in ZoneSectors(rest)
             <=> l \in ZoneSectors(zone) /\ l \notin lba .. lba + n - 1
    BY <1>3, <1>4, TrimmedZone
  <2>2. rest = left /\ Block = lba .. lba + n - 1
    BY <1>3 DEF Block
  <2> QED
    BY <2>1, <2>2
<1>7. left.begin_lba \in Nat /\ left.end_lba \in Nat
  BY <1>6 DEF Zone
<1> HIDE DEF left
<1>8. CASE Empty(left)
  <2> DEFINE w == RemoveAt(z, current_zone)
  <2>1. /\ w \in Seq(Zone) /\ WellFormed(w, EndLba)
        /\ \A l \in Int : l \in UnreadSectors(w)
             <=> l \in U /\ l \notin ZoneSectors(zone)
    BY <1>2, <1>3, RemovedZone
  <2>2. unread_zones' = w /\ current_zone' = 0
    BY <1>5, <1>8 DEF NextCurrent
  <2>3. \A l \in Int : l \in ZoneSectors(zone) <=> l \in Block
    <3>1. ZoneSectors(left) = {}
      BY <1>7, <1>8 DEF Empty, ZoneSectors
    <3> QED
      BY <1>3, <1>6, <3>1
  <2> HIDE DEF w
  <2>4. UnreadSectors(w) \subseteq 0 .. EndLba - 1 /\ U \subseteq 0 .. EndLba - 1
    BY <1>2, <2>1, UnreadFinite
  <2>5. \A l \in UnreadSectors(w) : l \in Int
    BY <2>4
  <2>6. \A l \in U : l \in Int
    BY <2>4
  <2> HIDE DEF U, zone
  <2>7. UnreadSectors(w) = U \ Block
    BY <2>1, <2>3, <2>5, <2>6
  <2>8. Len(w) \in Nat
    BY <2>1, ZoneElements
  <2>9. 0 \in 0 .. Len(w)
    BY <2>8
  <2> QED
    BY <2>1, <2>2, <2>7, <2>9 DEF U
<1>9. CASE ~Empty(left)
  <2> DEFINE w == [z EXCEPT ![current_zone] = left]
  <2>1. left.begin_lba < left.end_lba
    BY <1>6, <1>7, <1>9 DEF Empty
  <2>2. /\ w \in Seq(Zone) /\ WellFormed(w, EndLba) /\ Len(w) = Len(z)
        /\ \A l \in Int : l \in UnreadSectors(w)
             <=> /\ l \in U
                 /\ l \in ZoneSectors(zone) => l \in ZoneSectors(left)
    BY <1>2, <1>3, <1>6, <2>1, ShrunkList
  <2>3. unread_zones' = w /\ current_zone' \in {0, current_zone}
    BY <1>5, <1>9 DEF NextCurrent
  <2> HIDE DEF w
  <2>4. UnreadSectors(w) \subseteq 0 .. EndLba - 1 /\ U \subseteq 0 .. EndLba - 1
    BY <1>2, <2>2, UnreadFinite
  <2>5. \A l \in UnreadSectors(w) : l \in Int
    BY <2>4
  <2>6. \A l \in U : l \in Int
    BY <2>4
  <2> HIDE DEF U, zone
  <2>7. UnreadSectors(w) = U \ Block
    BY <1>3, <1>6, <2>2, <2>5, <2>6
  <2>8. current_zone' \in 0 .. Len(w)
    BY <1>2, <1>3, <2>2, <2>3
  <2> QED
    BY <2>2, <2>3, <2>7, <2>8 DEF U
<1> QED
  BY <1>8, <1>9

LEMMA UseResultsStep == ASSUME IndInv, UseResults PROVE IndInv'
<1> USE DEF persistent, config, scanVars
<1> DEFINE U == UnreadSectors(unread_zones)
<1>1. /\ pc = "update" /\ pc' = "callback" /\ num' = num + sectors_to_read
      /\ UNCHANGED <<persistent, result, config, reversive, stage, den, scanVars,
                     report, handled>>
  BY DEF UseResults, Return
<1>2. /\ unread_zones' \in Seq(Zone) /\ WellFormed(unread_zones', EndLba)
      /\ UnreadSectors(unread_zones') = U \ Block
      /\ current_zone' \in 0 .. Len(unread_zones')
  BY BlockTakenOff
<1>3. /\ sectors_to_read \in Nat /\ Cardinality(Block) = sectors_to_read
      /\ Block \subseteq U
  BY <1>1, CurrentBlock DEF InTask
<1>4. Cardinality(U \ Block) = Cardinality(U) - sectors_to_read
      /\ Cardinality(U) \in Nat
  <2>1. IsFiniteSet(U) /\ Cardinality(U) \in Nat
    BY ListFacts, UnreadFinite
  <2>2. U \cap Block = Block
    BY <1>3
  <2> HIDE DEF U
  <2>3. Cardinality(U \ Block) = Cardinality(U) - Cardinality(U \cap Block)
    BY <2>1, FS_Difference
  <2> QED
    BY <1>3, <2>1, <2>2, <2>3
<1>5. TypeOK'
  <2>1. num \in Nat /\ num' \in Nat
    BY <1>1, <1>3 DEF IndInv, TypeOK
  <2>2. perform_ret' \in {0, 1} /\ error_flag' = FALSE /\ buf_fresh' = FALSE
        /\ lba_to_read' = 0 /\ sectors_to_read' = 0
    BY DEF UseResults, Return, IndInv, TypeOK
  <2> QED
    BY <1>1, <1>2, <2>1, <2>2 DEF IndInv, TypeOK, ControlStates, Lbas
<1>6. ZonesWellFormed'
  BY <1>2 DEF ZonesWellFormed, WellFormed
<1>7. TaskAtZoneEdge' /\ ScanInv'
  BY <1>1 DEF TaskAtZoneEdge, InTask, ScanInv
<1>8. PhaseInv' /\ JournalFilled'
  BY <1>1 DEF IndInv, PhaseInv, JournalFilled, Lbas
<1>9. JournalMatchesZones'
  <2>1. use_journal => \A l \in Lbas :
          (journal[l] = "Unread") <=> l \in U \ Block
    BY <1>1 DEF IndInv, JournalMatchesZones, InSession
  <2> QED
    BY <1>1, <1>2, <2>1 DEF JournalMatchesZones, UnreadSectors, Lbas
<1>10. ProgressAccounts'
  <2>1. num + Cardinality(U) = den /\ num \in Nat /\ den \in Nat
    BY <1>1 DEF IndInv, ProgressAccounts, InSession, TypeOK
  <2>2. Cardinality(UnreadSectors(unread_zones')) = Cardinality(U) - sectors_to_read
    BY <1>2, <1>4
  <2> HIDE DEF U
  <2>3. num' + Cardinality(UnreadSectors(unread_zones')) = den'
    BY <1>1, <1>3, <1>4, <2>1, <2>2
  <2> QED
    BY <2>3 DEF ProgressAccounts, UnreadSectors
<1> QED
  BY <1>5, <1>6, <1>7, <1>8, <1>9, <1>10 DEF IndInv

-----------------------------------------------------------------------------
(* The theorems.                                                           *)

LEMMA StutterStep == ASSUME IndInv, UNCHANGED vars PROVE IndInv'
<1> USE DEF vars, persistent, config, zoneVars, progress, scanVars, task, outcome
<1>1. TypeOK'
  BY DEF IndInv, TypeOK, Lbas
<1>2. ZonesWellFormed' /\ TaskAtZoneEdge'
  BY DEF IndInv, ZonesWellFormed, ZonesNonEmpty, ZonesInside, ZonesAscending,
         TaskAtZoneEdge, InTask
<1>3. PhaseInv' /\ JournalFilled'
  BY DEF IndInv, PhaseInv, NoSession, JournalFilled, Lbas
<1>4. ScanInv'
  BY DEF IndInv, ScanInv, ScanFront, ZonesInside, UnreadSectors
<1>5. JournalMatchesZones' /\ ProgressAccounts'
  BY DEF IndInv, JournalMatchesZones, ProgressAccounts, InSession,
         UnreadSectors, Block, Lbas
<1> QED
  BY <1>1, <1>2, <1>3, <1>4, <1>5 DEF IndInv

LEMMA PerformStep == ASSUME IndInv, Perform PROVE IndInv'
<1>1. CASE GetTask
  BY <1>1, PlainStep, SmartStep, SkipfailStep DEF GetTask
<1>2. CASE NoTask
  <2>1. Return(1) /\ pc = "loop"
        /\ UNCHANGED <<persistent, result, config, zoneVars, progress, scanVars,
                       report, handled>>
    BY <1>2 DEF NoTask, MorePending
  <2> QED
    BY <2>1, ReturnStep
<1>3. CASE JumpAssertionFails
  <2>1. EndSession("aborted") /\ "aborted" \in Results
    BY <1>3 DEF JumpAssertionFails, Results
  <2> QED
    BY <2>1, EndSessionStep
<1>4. CASE RefuseBlock
  BY <1>4, ReturnStep DEF RefuseBlock
<1>5. CASE \E how \in ReadResults : Read(how)
  BY <1>5, ReadStep
<1>6. CASE Write
  BY <1>6, WriteStep
<1>7. CASE WriteJournal
  BY <1>7, WriteJournalStep
<1>8. CASE UseResults
  BY <1>8, UseResultsStep
<1> QED
  BY <1>1, <1>2, <1>3, <1>4, <1>5, <1>6, <1>7, <1>8 DEF Perform

LEMMA NextInv == IndInv /\ [Next]_vars => IndInv'
<1> SUFFICES ASSUME IndInv, [Next]_vars PROVE IndInv'
  OBVIOUS
<1>1. CASE Open
  BY <1>1, OpenRefusedStep, OpenWithoutJournalStep, OpenNewJournalStep,
     OpenJournalStep DEF Open
<1>2. CASE FillJournal
  BY <1>2, FillJournalStep
<1>3. CASE ScanSector
  BY <1>3, ScanSectorStep
<1>4. CASE ScanEnd
  BY <1>4, ScanEndStep
<1>5. CASE Perform
  BY <1>5, PerformStep
<1>6. CASE Callback \/ LoopFinished \/ LoopInterrupted
  BY <1>6, LoopTurnStep
<1>7. CASE Close
  <2>1. EndSession(result) /\ result \in Results
    BY <1>7 DEF Close, IndInv, TypeOK
  <2> QED
    BY <2>1, EndSessionStep
<1>8. CASE Crash
  <2>1. EndSession("crashed") /\ "crashed" \in Results
    BY <1>8 DEF Crash, Results
  <2> QED
    BY <2>1, EndSessionStep
<1>9. CASE UNCHANGED vars
  BY <1>9, StutterStep
<1> QED
  BY <1>1, <1>2, <1>3, <1>4, <1>5, <1>6, <1>7, <1>8, <1>9
  DEF Next, SessionStep

(* Zones, task, journal and progress stay consistent in every session of   *)
(* every run, with any strategy, any fault and any crash: the invariant    *)
(* the other safety theorems follow from.                                  *)
THEOREM Invariant == Spec => []IndInv
<1>1. Init => IndInv
  BY InitInv
<1>2. IndInv /\ [Next]_vars => IndInv'
  BY NextInv
<1> QED
  BY <1>1, <1>2, PTL DEF Spec

(* Every variable keeps the values its C type and the code give it.        *)
THEOREM TypeCorrect == Spec => []TypeOK
<1>1. IndInv => TypeOK
  BY DEF IndInv
<1> QED
  BY <1>1, Invariant, PTL

(* The unread zones are always non-empty, inside the device, ascending and *)
(* disjoint, however often they are trimmed, split, removed and parsed     *)
(* back from a journal (copy.h:8-15, copy_read_strategies.c).              *)
THEOREM ZonesStayWellFormed == Spec => []ZonesWellFormed
<1>1. IndInv => ZonesWellFormed
  BY DEF IndInv
<1> QED
  BY <1>1, Invariant, PTL

(* The assertions of common_update_zones hold: the block being processed   *)
(* is at the edge of the current zone that the direction reads from        *)
(* (copy_read_strategies.c:140-152).                                       *)
THEOREM TaskStaysAtZoneEdge == Spec => []TaskAtZoneEdge
<1>1. IndInv => TaskAtZoneEdge
  BY DEF IndInv
<1> QED
  BY <1>1, Invariant, PTL

(* In every session with a journal, the zones in memory and the journal    *)
(* agree on what is left to do (copy.c:175-221, 345-364).                  *)
THEOREM JournalAgreesWithZones == Spec => []JournalMatchesZones
<1>1. IndInv => JournalMatchesZones
  BY DEF IndInv
<1> QED
  BY <1>1, Invariant, PTL

(* progress.num and progress.den account for the zones (copy.c:139, 187,   *)
(* 220, 365): the loop never stops early, nor asks an empty list for a     *)
(* task.                                                                   *)
THEOREM ProgressIsAccounted == Spec => []ProgressAccounts
<1>1. IndInv => ProgressAccounts
  BY DEF IndInv
<1> QED
  BY <1>1, Invariant, PTL

(* A sector with a verdict in the journal is never read again, in this     *)
(* session or a later one (copy.c:409).                                    *)
THEOREM NothingRecordedIsReread == Spec => []RecordedNeverReread
<1>1. IndInv => RecordedNeverReread
  <2> SUFFICES ASSUME IndInv, pc = "read", use_journal, NEW l \in Block
               PROVE  journal[l] = "Unread"
    BY DEF RecordedNeverReread
  <2>1. l \in UnreadSectors(unread_zones)
    BY CurrentBlock DEF InTask
  <2>2. l \in Lbas
    <3>1. UnreadSectors(unread_zones) \subseteq 0 .. EndLba - 1
      BY ListFacts, UnreadFinite
    <3> QED
      BY <2>1, <3>1 DEF Lbas
  <2> QED
    BY <2>1, <2>2 DEF IndInv, JournalMatchesZones, InSession
<1> QED
  BY <1>1, Invariant, PTL

(* A session ends as "finished" only by the count of the loop.             *)
FinishedByCount == (pc = "closing" /\ result = "finished") => num >= den

LEMMA FinishedByCountInv == Spec => []FinishedByCount
<1>1. Init => FinishedByCount
  BY DEF Init, FinishedByCount
<1>2. FinishedByCount /\ [Next]_vars => FinishedByCount'
  <2> SUFFICES ASSUME FinishedByCount, [Next]_vars, (pc = "closing")',
                      (result = "finished")'
               PROVE  (num >= den)'
    BY DEF FinishedByCount
  <2>1. CASE UNCHANGED vars
    BY <2>1 DEF vars, progress, FinishedByCount
  <2>2. CASE LoopFinished
    BY <2>2 DEF LoopFinished, progress
  <2>3. ~Open
    BY DEF Open, OpenRefused, OpenWithoutJournal, OpenNewJournal, OpenJournal
  <2>4. ~FillJournal /\ ~ScanSector /\ ~ScanEnd
    BY DEF FillJournal, ScanSector, ScanEnd
  <2>5. ~Perform
    BY DEF Perform, GetTask, NoTask, JumpAssertionFails, EndSession, RefuseBlock,
           Return, Read, RecordNext, Write, WriteJournal, UseResults
  <2>6. ~Callback /\ ~LoopInterrupted
    BY DEF Callback, LoopInterrupted
  <2>7. ~Close /\ ~Crash
    BY DEF Close, Crash, EndSession
  <2> QED
    BY <2>1, <2>2, <2>3, <2>4, <2>5, <2>6, <2>7 DEF Next, SessionStep
<1> QED
  BY <1>1, <1>2, PTL DEF Spec

(* When a journaled session is finished, the journal has a verdict on      *)
(* every sector of the device (procedure.c:114, copy.c:345-366).           *)
THEOREM FinishedMeansComplete == Spec => []FinishedIsComplete
<1>1. IndInv /\ FinishedByCount => FinishedIsComplete
  <2> SUFFICES ASSUME IndInv, FinishedByCount, pc = "closing",
                      result = "finished", use_journal, NEW l \in Lbas
               PROVE  journal[l] # "Unread"
    BY DEF FinishedIsComplete
  <2> DEFINE U == UnreadSectors(unread_zones)
  <2>1. IsFiniteSet(U) /\ Cardinality(U) \in Nat
    BY ListFacts, UnreadFinite
  <2>2. num >= den /\ num + Cardinality(U) = den /\ num \in Nat /\ den \in Nat
    BY DEF FinishedByCount, IndInv, ProgressAccounts, InSession, TypeOK
  <2>3. U = {}
    <3>1. Cardinality(U) = 0
      BY <2>1, <2>2
    <3> QED
      BY <2>1, <3>1, FS_EmptySet
  <2> QED
    BY <2>3 DEF IndInv, JournalMatchesZones, InSession
<1> QED
  BY <1>1, Invariant, FinishedByCountInv, PTL
-----------------------------------------------------------------------------
(* A strategy that is asked for a block finds one.                         *)

(* A set of numbers that is not empty has a least element.                 *)
LEMMA LeastElement ==
  ASSUME NEW S, S \subseteq Nat, S # {}
  PROVE  \E m \in S : \A k \in S : m <= k
<1>1. PICK m \in S : \A k \in S : ~(<<k, m>> \in OpToRel(<, Nat))
  BY NatLessThanWellFounded, WFMin, Zenon
<1>2. ASSUME NEW k \in S
      PROVE  m <= k
  <2>1. m \in Nat /\ k \in Nat /\ ~(k < m)
    BY <1>1 DEF OpToRel
  <2> QED
    BY <2>1
<1> QED
  BY <1>2

(* smart_set_first_processable_zone_current finds a zone when the list has *)
(* one with a clean edge the strategy may read from.                       *)
LEMMA FirstProcessableExists ==
  ASSUME NEW s, NEW z \in Seq(Zone), NEW i \in 1 .. Len(z),
         Processable(s, z[i])
  PROVE  \E k \in DOMAIN z, rev \in BOOLEAN : FirstProcessable(s, z, k, rev)
<1> DEFINE S == {k \in 1 .. Len(z) : Processable(s, z[k])}
<1>1. Len(z) \in Nat /\ DOMAIN z = 1 .. Len(z)
  BY ZoneElements
<1>2. PICK m \in S : \A k \in S : m <= k
  <2>1. S \subseteq Nat /\ i \in S
    BY <1>1
  <2> QED
    BY <2>1, LeastElement
<1>3. m \in DOMAIN z /\ Processable(s, z[m])
  BY <1>1, <1>2
<1>4. \A j \in 1 .. m - 1 : ~Processable(s, z[j])
  BY <1>1, <1>2
<1>5. z[m].begin_lba_defective \in BOOLEAN
  BY <1>1, <1>3, ZoneElements DEF Zone
<1> QED
  BY <1>3, <1>4, <1>5 DEF FirstProcessable

(* find_largest_zone returns a zone of every list that is not empty.       *)
LEMMA LargestExists ==
  ASSUME NEW z \in Seq(Zone), NEW last \in Nat, WellFormed(z, last),
         Len(z) >= 1
  PROVE  \E i \in DOMAIN z : Largest(z, i)
<1>1. Len(z) \in Nat /\ DOMAIN z = 1 .. Len(z)
  BY ZoneElements
<1>2. \A i \in 1 .. Len(z) :
        ZoneLength(z[i]) \in Nat /\ last - ZoneLength(z[i]) \in Nat
  <2>1. \A i \in 1 .. Len(z) :
          /\ z[i].begin_lba \in Nat /\ z[i].end_lba \in Nat
          /\ z[i].begin_lba < z[i].end_lba /\ z[i].end_lba <= last
    BY ZoneElements, WellFormedElements
  <2> QED
    BY <2>1 DEF ZoneLength
<1> DEFINE short(i) == last - ZoneLength(z[i])
           S == {short(i) : i \in 1 .. Len(z)}
<1>3. PICK i \in 1 .. Len(z) :
        \A j \in 1 .. Len(z) : short(i) <= short(j)
  <2>1. S \subseteq Nat /\ short(1) \in S
    BY <1>1, <1>2
  <2>2. PICK m \in S : \A k \in S : m <= k
    BY <2>1, LeastElement
  <2> QED
    BY <2>2
<1>4. \A j \in 1 .. Len(z) : ZoneLength(z[j]) <= ZoneLength(z[i])
  BY <1>2, <1>3
<1> DEFINE T == {j \in 1 .. Len(z) : ZoneLength(z[j]) = ZoneLength(z[i])}
<1>5. PICK m \in T : \A k \in T : m <= k
  <2>1. T \subseteq Nat /\ i \in T
    BY <1>1
  <2> QED
    BY <2>1, LeastElement
<1>6. \A j \in 1 .. m - 1 : ZoneLength(z[j]) < ZoneLength(z[m])
  <2>1. ASSUME NEW j \in 1 .. m - 1
        PROVE  ZoneLength(z[j]) < ZoneLength(z[m])
    <3>1. m \in 1 .. Len(z) /\ ZoneLength(z[m]) = ZoneLength(z[i])
      BY <1>5
    <3>2. j \in 1 .. Len(z) /\ j < m
      BY <1>1, <2>1, <3>1
    <3>3. ZoneLength(z[j]) # ZoneLength(z[i])
      BY <1>1, <1>5, <3>1, <3>2
    <3> QED
      BY <1>2, <1>4, <3>1, <3>2, <3>3
  <2> QED
    BY <2>1
<1> QED
  BY <1>1, <1>4, <1>5, <1>6 DEF Largest

(* The search of skipfail_get_task stops at a zone or at the end of the    *)
(* list.                                                                   *)
LEMMA FirstTakenExists ==
  ASSUME NEW s, NEW skip, NEW z \in Seq(Zone)
  PROVE  \/ \A i \in DOMAIN z : ~SkipfailTakes(s, skip, z, i)
         \/ \E i \in DOMAIN z : FirstTaken(s, skip, z, i)
<1>1. Len(z) \in Nat /\ DOMAIN z = 1 .. Len(z)
  BY ZoneElements
<1> SUFFICES ASSUME NEW i \in 1 .. Len(z), SkipfailTakes(s, skip, z, i)
             PROVE  \E k \in DOMAIN z : FirstTaken(s, skip, z, k)
  BY <1>1
<1> DEFINE S == {k \in 1 .. Len(z) : SkipfailTakes(s, skip, z, k)}
<1>2. PICK m \in S : \A k \in S : m <= k
  <2>1. S \subseteq Nat /\ i \in S
    BY <1>1
  <2> QED
    BY <2>1, LeastElement
<1>3. \A j \in 1 .. m - 1 : ~SkipfailTakes(s, skip, z, j)
  BY <1>1, <1>2
<1> QED
  BY <1>1, <1>2, <1>3 DEF FirstTaken
(* The sector at which smart splits a zone.                                *)
HalfOf(zone) == JumpTarget(zone, ZoneLength(zone) \div 2)

(* smart_get_task finds a zone with a clean edge, or else the largest one, *)
(* which it splits inside and then finds a clean edge, or may not split    *)
(* and reads on from the head of the list.                                 *)
SmartFinds(s, z) ==
  \/ \E k \in DOMAIN z, rev \in BOOLEAN : FirstProcessable(s, z, k, rev)
  \/ \E i \in DOMAIN z :
       /\ Largest(z, i)
       /\ z[i].begin_lba_defective
       /\ s = "smart_noreverse" \/ z[i].end_lba_defective
       /\ MaySplit(z[i]) =>
            /\ SplitsInside(z[i], HalfOf(z[i]))
            /\ \E k \in DOMAIN Split(z, i, HalfOf(z[i])), rev \in BOOLEAN :
                 FirstProcessable(s, Split(z, i, HalfOf(z[i])), k, rev)

(* skipfail_get_task finds a zone, or none is worth a jump.                *)
SkipfailFinds(s, z) ==
  \/ \A i \in DOMAIN z : ~SkipfailTakes(s, SkipSectors, z, i)
  \/ \E i \in DOMAIN z : FirstTaken(s, SkipSectors, z, i)

(* Whenever the loop lets Perform start there is a zone to read, and the   *)
(* strategy goes on with the current one or its search ends: the assertions*)
(* on the list, on the edges of the largest zone and on its split          *)
(* (copy_read_strategies.c:77-78, 99-100, 113, 177-178) hold, and the      *)
(* search after the split, whose failure smart_get_task would return,      *)
(* never fails.                                                            *)
StrategyFinds ==
  MorePending =>
    /\ unread_zones # <<>>
    /\ \/ current_zone \in DOMAIN unread_zones
       \/ /\ current_zone = 0
          /\ read_strategy \in ReadStrategies
          /\ (read_strategy \in SmartStrategies /\ stage = 0) =>
               SmartFinds(read_strategy, unread_zones)
          /\ read_strategy \in SkipfailStrategies =>
               SkipfailFinds(read_strategy, unread_zones)

(* smart finds a zone in every well-formed list that is not empty.         *)
LEMMA SmartSearchEnds ==
  ASSUME NEW s \in SmartStrategies, NEW z \in Seq(Zone), NEW last \in Nat,
         WellFormed(z, last), Len(z) >= 1
  PROVE  SmartFinds(s, z)
<1>1. Len(z) \in Nat /\ DOMAIN z = 1 .. Len(z)
  BY ZoneElements
<1>2. CASE \E i \in 1 .. Len(z) : Processable(s, z[i])
  BY <1>2, FirstProcessableExists DEF SmartFinds
<1>3. CASE \A i \in 1 .. Len(z) : ~Processable(s, z[i])
  <2>1. PICK i \in DOMAIN z : Largest(z, i)
    BY LargestExists
  <2>2. /\ z[i].begin_lba_defective
        /\ s = "smart_noreverse" \/ z[i].end_lba_defective
    BY <1>1, <1>3 DEF Processable, NoReverse, SmartStrategies
  <2> DEFINE at == HalfOf(z[i])
             w == Split(z, i, at)
  <2>3. ASSUME MaySplit(z[i])
        PROVE  /\ SplitsInside(z[i], at)
               /\ \E k \in DOMAIN w, rev \in BOOLEAN : FirstProcessable(s, w, k, rev)
    <3>1. z[i] \in Zone /\ ZoneLength(z[i]) > IndivisibleZone
      BY <1>1, <2>3, ZoneElements DEF MaySplit
    <3>2. at \in Int /\ SplitsInside(z[i], at)
      BY <3>1, HalfJumpInside DEF HalfOf
    <3> HIDE DEF at
    <3>3. /\ w \in Seq(Zone) /\ Len(w) = Len(z) + 1
          /\ w[i + 1].begin_lba_defective = FALSE
      BY <1>1, <3>2, SplitList
    <3>4. i + 1 \in 1 .. Len(w)
      BY <1>1, <3>3
    <3> HIDE DEF w
    <3>5. Processable(s, w[i + 1])
      BY <3>3 DEF Processable
    <3> QED
      BY <3>2, <3>3, <3>4, <3>5, FirstProcessableExists
  <2> QED
    BY <2>1, <2>2, <2>3 DEF SmartFinds
<1> QED
  BY <1>2, <1>3

(* A session runs with one of the strategies from its Open to its end.     *)
RunsAStrategy == pc # "closed" => read_strategy \in ReadStrategies

LEMMA RunsAStrategyInv == Spec => []RunsAStrategy
<1>1. Init => RunsAStrategy
  BY DEF Init, RunsAStrategy
<1>2. RunsAStrategy /\ [Next]_vars => RunsAStrategy'
  <2> SUFFICES ASSUME RunsAStrategy, [Next]_vars
               PROVE  RunsAStrategy'
    OBVIOUS
  <2>1. CASE \/ EndSession(result) \/ EndSession("aborted")
             \/ EndSession("crashed")
    BY <2>1 DEF EndSession, RunsAStrategy
  <2>2. CASE Open
    <3>1. CASE OpenRefused
      BY <3>1 DEF OpenRefused, config, RunsAStrategy
    <3>2. CASE \E s \in Strategies :
                 OpenWithoutJournal(s) \/ OpenNewJournal(s) \/ OpenJournal(s)
      BY <3>2, StrategiesAssumption
         DEF OpenWithoutJournal, OpenNewJournal, OpenJournal, OpenContext,
             RunsAStrategy
    <3> QED
      BY <2>2, <3>1, <3>2 DEF Open
  <2>3. CASE UNCHANGED config /\ pc # "closed"
    BY <2>3 DEF config, RunsAStrategy
  <2>4. CASE UNCHANGED vars
    BY <2>4 DEF vars, config, RunsAStrategy
  <2>5. FillJournal \/ ScanSector \/ ScanEnd => UNCHANGED config /\ pc # "closed"
    BY DEF FillJournal, ScanSector, ScanEnd
  <2>6. GetTask \/ NoTask \/ RefuseBlock => UNCHANGED config /\ pc # "closed"
    BY DEF GetTask, NoTask, RefuseBlock, MorePending
  <2>7. (\E how \in ReadResults : Read(how)) \/ Write
          => UNCHANGED config /\ pc # "closed"
    BY DEF Read, Write
  <2>8. WriteJournal \/ UseResults => UNCHANGED config /\ pc # "closed"
    BY DEF WriteJournal, UseResults
  <2>9. Callback \/ LoopFinished \/ LoopInterrupted
          => UNCHANGED config /\ pc # "closed"
    BY DEF Callback, LoopFinished, LoopInterrupted
  <2>10. /\ JumpAssertionFails => EndSession("aborted")
         /\ Close => EndSession(result)
         /\ Crash => EndSession("crashed")
    BY DEF JumpAssertionFails, Close, Crash
  <2> QED
    BY <2>1, <2>2, <2>3, <2>4, <2>5, <2>6, <2>7, <2>8, <2>9, <2>10
       DEF Next, SessionStep, Perform
<1> QED
  BY <1>1, <1>2, PTL DEF Spec

(* No reachable state asks a strategy for a block it cannot find: see      *)
(* StrategyFinds.                                                          *)
THEOREM StrategiesFindWork == Spec => []StrategyFinds
<1>1. IndInv /\ RunsAStrategy => StrategyFinds
  <2> SUFFICES ASSUME IndInv, RunsAStrategy, MorePending
               PROVE  StrategyFinds
    BY DEF StrategyFinds
  <2>1. /\ unread_zones \in Seq(Zone) /\ WellFormed(unread_zones, EndLba)
        /\ EndLba \in Nat
    BY ListFacts
  <2>2. Len(unread_zones) >= 1 /\ unread_zones # <<>>
    BY <2>1, PendingZone
  <2>3. DOMAIN unread_zones = 1 .. Len(unread_zones)
    BY <2>1, ZoneElements
  <2>4. current_zone = 0 \/ current_zone \in 1 .. Len(unread_zones)
    BY <2>1, ZoneElements DEF IndInv, TypeOK
  <2>5. read_strategy \in ReadStrategies
    BY DEF RunsAStrategy, MorePending
  <2>6. read_strategy \in SmartStrategies =>
          SmartFinds(read_strategy, unread_zones)
    BY <2>1, <2>2, SmartSearchEnds
  <2>7. SkipfailFinds(read_strategy, unread_zones)
    BY <2>1, FirstTakenExists DEF SkipfailFinds
  <2> QED
    BY <2>2, <2>3, <2>4, <2>5, <2>6, <2>7 DEF StrategyFinds
<1> QED
  BY <1>1, Invariant, RunsAStrategyInv, PTL
=============================================================================
