---------------------------- MODULE CopyEdgesProofs ----------------------------
(***************************************************************************)
(* Where the strategies read next to a failure: the marks on the edges of  *)
(* the zones against the failures in the journal, over splits, trims,      *)
(* removals and re-parsed journals.                                        *)
(***************************************************************************)
EXTENDS CopyProofs

-----------------------------------------------------------------------------
(* The edge at which the current zone is read is marked clean.             *)

(* What a split by a smart strategy leaves: one zone more, and a current   *)
(* zone with a clean edge to read from.                                    *)
LEMMA SmartSplitTask ==
  ASSUME IndInv, SmartSplit
  PROVE  /\ Len(unread_zones') = Len(unread_zones) + 1
         /\ Len(unread_zones) \in Nat /\ Len(unread_zones) < MaxZones
         /\ FirstProcessable(read_strategy, unread_zones', current_zone', reversive')
<1> DEFINE at(i) == JumpTarget(unread_zones[i], ZoneLength(unread_zones[i]) \div 2)
<1>1. PICK i \in 1 .. Len(unread_zones) :
        /\ MaySplit(unread_zones[i])
        /\ \E k \in DOMAIN Split(unread_zones, i, at(i)), rev \in BOOLEAN :
             /\ FirstProcessable(read_strategy, Split(unread_zones, i, at(i)), k, rev)
             /\ GiveTask(Split(unread_zones, i, at(i)), k, rev)
  BY ListFacts, ZoneElements DEF SmartSplit
<1>2. at(i) \in Int /\ SplitsInside(unread_zones[i], at(i))
  <2>1. unread_zones[i] \in Zone
    BY ListFacts, ZoneElements
  <2>2. ZoneLength(unread_zones[i]) > IndivisibleZone
    BY <1>1 DEF MaySplit
  <2> QED
    BY <2>1, <2>2, HalfJumpInside
<1> HIDE DEF at
<1>3. Len(Split(unread_zones, i, at(i))) = Len(unread_zones) + 1
  BY <1>2, ListFacts, SplitList
<1>4. /\ unread_zones' = Split(unread_zones, i, at(i))
      /\ FirstProcessable(read_strategy, unread_zones', current_zone', reversive')
  BY <1>1 DEF GiveTask
<1> QED
  BY <1>1, <1>3, <1>4, ListFacts, ZoneElements DEF MaySplit

(* The edge of a zone that smart_set_first_processable_zone_current and    *)
(* the three cases of skipfail_get_task choose is clean.                   *)
LEMMA ChosenEdges ==
  /\ \A s, z, i, rev : FirstProcessable(s, z, i, rev) => ~EdgeDefective(z[i], rev)
  /\ \A z, i : SkipfailForward(z, i) => ~EdgeDefective(z[i], FALSE)
  /\ \A s, z, i : SkipfailReverse(s, z, i) => ~EdgeDefective(z[i], TRUE)
BY DEF FirstProcessable, Processable, SkipfailForward, SkipfailReverse, EdgeDefective

LEMMA SmartEdge ==
  ASSUME IndInv, EdgeInv, SmartGetTask, UNCHANGED read_strategy, pc # "closed"
  PROVE  EdgeInv'
<1>1. CASE stage' = 1
  BY <1>1 DEF EdgeInv
<1>2. CASE stage' # 1
  <2>1. stage \in {0, 1}
    BY DEF IndInv, TypeOK
  <2>2. CASE current_zone # 0 /\ ProceedCurrent /\ UNCHANGED stage
    BY <2>2 DEF ProceedCurrent, GiveTask, EdgeInv, EdgeDefective
  <2>3. ASSUME NEW i \in DOMAIN unread_zones, NEW rev \in BOOLEAN,
               FirstProcessable(read_strategy, unread_zones, i, rev),
               GiveTask(unread_zones, i, rev)
        PROVE  EdgeInv'
    BY <2>3, ChosenEdges DEF GiveTask, EdgeInv, EdgeDefective
  <2>4. CASE SmartSplit
    <3>1. ~EdgeDefective(unread_zones'[current_zone'], reversive')
      BY <2>4, SmartSplitTask, ChosenEdges
    <3> QED
      BY <3>1 DEF EdgeInv, EdgeDefective
  <2>5. CASE SmartGoSequential
    BY <1>2, <2>5 DEF SmartGoSequential
  <2> QED
    BY <1>2, <2>1, <2>2, <2>3, <2>4, <2>5 DEF SmartGetTask
<1> QED
  BY <1>1, <1>2

LEMMA SkipfailEdge ==
  ASSUME IndInv, EdgeInv, SkipfailGetTask, UNCHANGED read_strategy, pc # "closed"
  PROVE  EdgeInv'
<1>1. CASE current_zone # 0 /\ ProceedCurrent
  BY <1>1 DEF SkipfailGetTask, ProceedCurrent, GiveTask, EdgeInv, EdgeDefective
<1>2. CASE current_zone = 0
  <2> DEFINE at(i) == JumpTarget(unread_zones[i], SkipSectors)
  <2>1. PICK i \in 1 .. Len(unread_zones) :
          \/ SkipfailForward(unread_zones, i) /\ GiveTask(unread_zones, i, FALSE)
          \/ /\ SkipfailReverse(read_strategy, unread_zones, i)
             /\ GiveTask(unread_zones, i, TRUE)
          \/ /\ SplitsInside(unread_zones[i], at(i))
             /\ \/ GiveTask(Split(unread_zones, i, at(i)), i + 1, FALSE)
                \/ GiveTask(Split(unread_zones, i, at(i)), i, TRUE)
    BY <1>1, <1>2, ListFacts, ZoneElements DEF SkipfailGetTask
  <2>2. CASE SkipfailForward(unread_zones, i) /\ GiveTask(unread_zones, i, FALSE)
    BY <2>2, ChosenEdges DEF GiveTask, EdgeInv, EdgeDefective
  <2>3. CASE /\ SkipfailReverse(read_strategy, unread_zones, i)
             /\ GiveTask(unread_zones, i, TRUE)
    BY <2>3, ChosenEdges DEF GiveTask, EdgeInv, EdgeDefective
  <2>4. at(i) \in Int
    <3>1. unread_zones[i].begin_lba \in Nat
      BY ListFacts, ZoneElements
    <3>2. skip_blocks \in Nat /\ SectorsAtOnce \in Nat
      BY SectorsAtOnceAssumption DEF IndInv, TypeOK
    <3>3. SkipSectors \in Nat
      BY <3>2 DEF SkipSectors
    <3> QED
      BY <3>1, <3>3, SectorsAtOnceAssumption DEF JumpTarget
  <2> HIDE DEF at
  <2>5. SplitsInside(unread_zones[i], at(i)) =>
          /\ Split(unread_zones, i, at(i))[i].end_lba_defective = FALSE
          /\ Split(unread_zones, i, at(i))[i + 1].begin_lba_defective = FALSE
    BY <2>4, ListFacts, SplitList
  <2>6. ASSUME SplitsInside(unread_zones[i], at(i)),
               GiveTask(Split(unread_zones, i, at(i)), i + 1, FALSE)
        PROVE  EdgeInv'
    BY <2>5, <2>6 DEF GiveTask, EdgeInv, EdgeDefective
  <2>7. ASSUME SplitsInside(unread_zones[i], at(i)),
               GiveTask(Split(unread_zones, i, at(i)), i, TRUE)
        PROVE  EdgeInv'
    BY <2>5, <2>7 DEF GiveTask, EdgeInv, EdgeDefective
  <2> QED
    BY <2>1, <2>2, <2>3, <2>6, <2>7
<1> QED
  BY <1>1, <1>2 DEF SkipfailGetTask

(* A failure marks the edge and sends the strategy to choose anew; without *)
(* one the edge is marked clean.                                           *)
LEMMA UseResultsEdge ==
  ASSUME IndInv, EdgeInv, UseResults
  PROVE  EdgeInv'
<1> DEFINE old == unread_zones[current_zone]
           zone == Trim(old, reversive, sectors_to_read, Failed)
<1>1. /\ current_zone \in 1 .. Len(unread_zones)
      /\ unread_zones \in Seq(Zone) /\ old \in Zone
      /\ reversive \in BOOLEAN /\ stage \in {0, 1}
  <2>1. current_zone # 0
    BY DEF IndInv, TaskAtZoneEdge, InTask, UseResults
  <2>2. current_zone \in 1 .. Len(unread_zones)
    BY <2>1, ListFacts, ZoneElements DEF IndInv, TypeOK
  <2> QED
    BY <2>2, ListFacts, ZoneElements DEF IndInv, TypeOK
<1>2. UNCHANGED <<read_strategy, reversive, stage>> /\ pc # "closed"
  BY DEF UseResults, config
<1>3. SUFFICES ASSUME current_zone' # 0, read_strategy' # "plain", stage' = 0
               PROVE  ~EdgeDefective(unread_zones'[current_zone'], reversive')
  BY <1>2 DEF EdgeInv, EdgeDefective
<1>4. ~Empty(zone) /\ ~Rechoose /\ current_zone' = current_zone
  BY <1>3 DEF UseResults, NextCurrent
<1>5. unread_zones'[current_zone'] = zone
  <2>1. unread_zones' = [unread_zones EXCEPT ![current_zone] = zone]
    BY <1>4 DEF UseResults
  <2> HIDE DEF zone
  <2> QED
    BY <1>1, <1>4, <2>1
<1>6. ~Failed
  BY <1>2, <1>3, <1>4 DEF EdgeInv, Rechoose, ReadStrategies
<1>7. CASE reversive
  BY <1>1, <1>2, <1>5, <1>6, <1>7 DEF Trim, EdgeDefective, Zone
<1>8. CASE ~reversive
  BY <1>1, <1>2, <1>5, <1>6, <1>8 DEF Trim, EdgeDefective, Zone
<1> QED
  BY <1>1, <1>7, <1>8

LEMMA EdgeStep == IndInv /\ EdgeInv /\ [Next]_vars => EdgeInv'
<1> SUFFICES ASSUME IndInv, EdgeInv, [Next]_vars PROVE EdgeInv'
  OBVIOUS
<1>1. ASSUME NEW how, EndSession(how) PROVE EdgeInv'
  BY <1>1 DEF EndSession, EdgeInv
<1>2. CASE OpenRefused
  BY <1>2 DEF OpenRefused, zoneVars, config, EdgeInv, EdgeDefective
<1>3. ASSUME NEW s \in Strategies,
             OpenWithoutJournal(s) \/ OpenNewJournal(s) \/ OpenJournal(s)
      PROVE  EdgeInv'
  <2>1. read_strategy' = s /\ UNCHANGED current_zone /\ pc = "closed"
    BY <1>3 DEF OpenWithoutJournal, OpenNewJournal, OpenJournal, OpenContext
  <2>2. current_zone = 0
    BY <2>1 DEF IndInv, PhaseInv, NoSession
  <2> QED
    BY <2>1, <2>2, StrategiesAssumption DEF EdgeInv
<1>4. CASE FillJournal \/ ScanSector \/ ScanEnd
  <2>1. UNCHANGED <<current_zone, read_strategy>> /\ pc \in {"create", "scan"}
    BY <1>4 DEF FillJournal, ScanSector, ScanEnd, zoneVars, config
  <2> QED
    BY <2>1 DEF EdgeInv, IndInv, PhaseInv
<1>5. CASE GetTask
  <2>1. UNCHANGED read_strategy /\ pc # "closed"
    BY <1>5 DEF GetTask, MorePending, config
  <2>2. CASE PlainGetTask
    BY <2>1, <2>2 DEF PlainGetTask, EdgeInv
  <2> QED
    BY <1>5, <2>1, <2>2, SmartEdge, SkipfailEdge DEF GetTask
<1>6. CASE UseResults
  BY <1>6, UseResultsEdge
<1>7. CASE \/ NoTask \/ RefuseBlock \/ Write \/ WriteJournal
           \/ \E how \in ReadResults : Read(how)
           \/ Callback \/ LoopFinished \/ LoopInterrupted
  <2>1. UNCHANGED <<zoneVars, config>> /\ pc # "closed"
    BY <1>7 DEF NoTask, MorePending, RefuseBlock, Write, WriteJournal, Read, Callback,
                LoopFinished, LoopInterrupted
  <2> QED
    BY <2>1 DEF zoneVars, config, EdgeInv, EdgeDefective
<1>8. CASE UNCHANGED vars
  BY <1>8 DEF vars, zoneVars, config, EdgeInv, EdgeDefective
<1> QED
  BY <1>1, <1>2, <1>3, <1>4, <1>5, <1>6, <1>7, <1>8
  DEF Next, Open, SessionStep, Perform, JumpAssertionFails, Close, Crash
-----------------------------------------------------------------------------
(* Marks and failures: steps that leave the zones alone.                   *)

LEMMA InitNear == Init => NearFailureInv
BY DEF Init, NoSession, NearFailureInv, FlagsInv, ScanFlagsInv, TouchInv, FailureInv,
       NoReverse

LEMMA EndSessionNear ==
  ASSUME NEW how, EndSession(how)
  PROVE  NearFailureInv'
BY DEF EndSession, NearFailureInv, FlagsInv, ScanFlagsInv, TouchInv, FailureInv, NoReverse

(* The marks survive a step that changes neither zones nor journal.        *)
LEMMA KeepsMarks ==
  ASSUME NearFailureInv, pc' # "scan",
         UNCHANGED <<journal, use_journal, read_strategy, unread_zones,
                     current_zone, reversive>>
  PROVE  FlagsInv' /\ ScanFlagsInv' /\ TouchInv'
<1>1. FlagsInv'
  BY DEF NearFailureInv, FlagsInv, FailureBefore, FailureAt
<1>2. ScanFlagsInv' /\ TouchInv'
  BY DEF NearFailureInv, ScanFlagsInv, TouchInv
<1> QED
  BY <1>1, <1>2

LEMMA ReadNear ==
  ASSUME IndInv, NearFailureInv, NEW how \in ReadResults, Read(how)
  PROVE  NearFailureInv'
<1>1. FlagsInv' /\ ScanFlagsInv' /\ TouchInv'
  BY KeepsMarks DEF Read, RecordNext, persistent, config, zoneVars
<1>2. /\ UNCHANGED <<read_strategy, reversive, use_journal>>
      /\ error_flag' = (how = "failed")
      /\ report'.blk_status = IF how = "failed" THEN "eError" ELSE "eOk"
      /\ pc' = IF how = "failed" THEN RecordNext ELSE "write"
  BY DEF Read, ReportOf, config, zoneVars
<1>3. NoReverse(read_strategy') => ~reversive'
  BY <1>2 DEF NearFailureInv, FailureInv
<1>4. pc' = "write" => ~error_flag'
  BY <1>2 DEF RecordNext
<1>5. pc' = "journal" /\ error_flag' => Failed'
  BY <1>2 DEF Failed
<1>6. ~(pc' = "update" /\ use_journal')
  BY <1>2 DEF RecordNext
<1>7. FailureInv'
  BY <1>3, <1>4, <1>5, <1>6 DEF FailureInv
<1> QED
  BY <1>1, <1>7 DEF NearFailureInv

LEMMA WriteNear ==
  ASSUME IndInv, NearFailureInv, Write
  PROVE  NearFailureInv'
<1>1. FlagsInv' /\ ScanFlagsInv' /\ TouchInv'
  BY KeepsMarks DEF Write, PutSectors, RecordNext, config, zoneVars
<1>2. /\ UNCHANGED <<read_strategy, reversive, use_journal>>
      /\ ~error_flag'
      /\ pc' = RecordNext
  BY DEF Write, config, zoneVars, NearFailureInv, FailureInv
<1>3. FailureInv'
  BY <1>2 DEF NearFailureInv, FailureInv, RecordNext
<1> QED
  BY <1>1, <1>3 DEF NearFailureInv

(* The block is the zones' own until its journal entry: where its failure  *)
(* is next to another zone, a split has cut the two apart.                 *)
LEMMA WriteJournalNear ==
  ASSUME IndInv, NearFailureInv, WriteJournal
  PROVE  NearFailureInv'
<1> DEFINE z == unread_zones
           c == current_zone
<1>1. /\ pc = "journal" /\ pc' = "update"
      /\ \A l \in Lbas : journal'[l] = IF l \in Block THEN RecordedStatus ELSE journal[l]
      /\ UNCHANGED <<read_strategy, use_journal, unread_zones, current_zone, reversive,
                     task, error_flag, report>>
  BY DEF WriteJournal, config, zoneVars, outcome
<1>2. InTask
  BY <1>1 DEF InTask
<1>3. /\ z \in Seq(Zone) /\ WellFormed(z, EndLba) /\ EndLba \in Nat
      /\ Len(z) \in Nat /\ DOMAIN z = 1 .. Len(z)
      /\ \A i \in 1 .. Len(z) : z[i].begin_lba \in Nat /\ z[i].end_lba \in Nat
      /\ \A i \in 1 .. Len(z) : z[i].begin_lba < z[i].end_lba /\ z[i].end_lba <= EndLba
      /\ \A i, j \in 1 .. Len(z) : i < j => z[i].end_lba <= z[j].begin_lba
  BY ListFacts, ZoneElements, WellFormedElements
<1>4. /\ c \in 1 .. Len(z)
      /\ Block \subseteq ZoneSectors(z[c])
  BY <1>2, CurrentBlock
<1>5. FlagsInv'
  <2> SUFFICES ASSUME use_journal, read_strategy # "plain", NEW i \in 1 .. Len(z)
               PROVE  /\ NoReverse(read_strategy) /\ FailureBefore(z[i].begin_lba)'
                           => z[i].begin_lba_defective
                      /\ ~NoReverse(read_strategy) /\ FailureAt(z[i].end_lba)'
                           => z[i].end_lba_defective
    BY <1>1, <1>3 DEF FlagsInv, FailureBefore, FailureAt
  <2>1. ASSUME NoReverse(read_strategy), FailureBefore(z[i].begin_lba)'
        PROVE  z[i].begin_lba_defective
    <3> DEFINE l == z[i].begin_lba - 1
    <3>1. l \in Lbas /\ Defective(journal'[l])
      BY <1>1, <1>3, <2>1 DEF FailureBefore, Lbas
    <3>2. CASE l \notin Block
      BY <1>1, <1>3, <2>1, <3>1, <3>2 DEF FailureBefore, NearFailureInv, FlagsInv
    <3>3. CASE l \in Block
      <4>1. z[c].begin_lba <= l /\ l < z[c].end_lba
        BY <1>3, <1>4, <3>3 DEF ZoneSectors
      <4>2. z[c].end_lba = z[i].begin_lba /\ i # c
        BY <1>3, <1>4, <4>1
      <4> QED
        BY <1>3, <1>4, <2>1, <4>2 DEF NearFailureInv, TouchInv
    <3> QED
      BY <3>2, <3>3
  <2>2. ASSUME ~NoReverse(read_strategy), FailureAt(z[i].end_lba)'
        PROVE  z[i].end_lba_defective
    <3> DEFINE l == z[i].end_lba
    <3>1. l \in Lbas /\ Defective(journal'[l])
      BY <1>1, <1>3, <2>2 DEF FailureAt, Lbas
    <3>2. CASE l \notin Block
      BY <1>1, <1>3, <2>2, <3>1, <3>2 DEF FailureAt, NearFailureInv, FlagsInv
    <3>3. CASE l \in Block
      <4>1. z[c].begin_lba <= l /\ l < z[c].end_lba
        BY <1>3, <1>4, <3>3 DEF ZoneSectors
      <4>2. z[i].end_lba = z[c].begin_lba /\ i # c
        BY <1>3, <1>4, <4>1
      <4> QED
        BY <1>3, <1>4, <2>2, <4>2 DEF NearFailureInv, TouchInv
    <3> QED
      BY <3>2, <3>3
  <2> QED
    BY <2>1, <2>2
<1>6. ScanFlagsInv' /\ TouchInv'
  BY <1>1 DEF NearFailureInv, ScanFlagsInv, TouchInv
<1>7. FailureInv'
  <2>1. ASSUME NEW l \in Block, Defective(journal'[l])
        PROVE  Failed
    <3>1. l \in Lbas
      BY <1>3, <1>4, <2>1 DEF ZoneSectors, Lbas
    <3>2. Defective(RecordedStatus)
      BY <1>1, <2>1, <3>1
    <3> QED
      BY <1>1, <3>2 DEF RecordedStatus, Defective, NearFailureInv, FailureInv
  <2>2. Block' = Block /\ Failed' = Failed
    BY <1>1 DEF Block, Failed, task
  <2> QED
    BY <1>1, <2>1, <2>2 DEF NearFailureInv, FailureInv
<1> QED
  BY <1>5, <1>6, <1>7 DEF NearFailureInv
-----------------------------------------------------------------------------
(* Marks and failures: opening a session.                                  *)

LEMMA WholeNear ==
  ASSUME unread_zones' = <<FreshZone(0, EndLba)>>, pc' # "scan", ~reversive',
         pc' \notin {"write", "journal", "update"}
  PROVE  NearFailureInv'
<1>1. /\ DOMAIN unread_zones' = {1}
      /\ unread_zones'[1].begin_lba = 0 /\ unread_zones'[1].end_lba = EndLba
      /\ EndLba \in Nat /\ EndLba > 0
  BY EndLbaAssumption DEF FreshZone
<1> QED
  BY <1>1 DEF NearFailureInv, FlagsInv, FailureBefore, FailureAt, ScanFlagsInv, TouchInv,
              FailureInv

LEMMA OpenNear ==
  ASSUME IndInv, NEW s \in Strategies,
         OpenWithoutJournal(s) \/ OpenNewJournal(s) \/ OpenJournal(s)
  PROVE  NearFailureInv'
<1>1. pc = "closed" /\ ~reversive' /\ scan_begin' = -1
  <2>1. pc = "closed" /\ UNCHANGED <<reversive, scan_begin>>
    BY DEF OpenWithoutJournal, OpenNewJournal, OpenJournal, OpenContext, scanVars
  <2>2. reversive = FALSE /\ scan_begin = -1
    BY <2>1 DEF IndInv, PhaseInv, NoSession
  <2> QED
    BY <2>1, <2>2
<1>2. CASE OpenWithoutJournal(s) \/ OpenNewJournal(s)
  BY <1>1, <1>2, WholeNear DEF OpenWithoutJournal, OpenNewJournal
<1>3. CASE OpenJournal(s)
  <2>1. unread_zones' = <<>> /\ pc' = "scan"
    BY <1>3 DEF OpenJournal
  <2> QED
    BY <1>1, <2>1 DEF NearFailureInv, FlagsInv, ScanFlagsInv, TouchInv, FailureInv
<1> QED
  BY <1>2, <1>3

(* What a zone joining the list brings: the marks the scan has found, and  *)
(* a gap to every zone before it.                                          *)
LEMMA AppendNear ==
  ASSUME IndInv, NearFailureInv, pc = "scan", scan_begin # -1,
         NEW defective \in BOOLEAN, AppendZone(scan_lba, defective),
         FailureAt(scan_lba) => defective,
         pc' \in {"scan", "loop"},
         pc' = "scan" => scan_lba' = scan_lba + 1,
         UNCHANGED <<journal, use_journal, read_strategy, current_zone, reversive>>
  PROVE  NearFailureInv'
<1> DEFINE zone == [begin_lba |-> scan_begin, end_lba |-> scan_lba,
                    begin_lba_defective |-> scan_defective,
                    end_lba_defective |-> defective]
           z == unread_zones
           n == Len(unread_zones)
<1>1. /\ z \in Seq(Zone) /\ ScanFront = scan_begin
      /\ scan_begin \in Nat /\ scan_lba \in Nat /\ scan_begin < scan_lba
  BY Scanning DEF ScanFront
<1>2. /\ n \in Nat /\ DOMAIN z = 1 .. n
      /\ \A i \in 1 .. n : z[i].begin_lba \in Nat /\ z[i].end_lba \in Nat
  BY <1>1, ZoneElements
<1>3. \A i \in 1 .. n : z[i].begin_lba < scan_begin /\ z[i].end_lba < scan_begin
  <2>1. \A i \in 1 .. n : z[i].begin_lba < z[i].end_lba
    BY <1>2 DEF IndInv, ZonesWellFormed, ZonesNonEmpty
  <2>2. \A i \in 1 .. n : z[i].end_lba < scan_begin
    BY <1>1, <1>2 DEF NearFailureInv, ScanFlagsInv
  <2> QED
    BY <1>1, <1>2, <2>1, <2>2
<1>4. /\ unread_zones' = Append(z, zone) /\ scan_begin' = -1
      /\ zone.begin_lba = scan_begin /\ zone.end_lba = scan_lba
      /\ zone.begin_lba_defective = scan_defective /\ zone.end_lba_defective = defective
  BY DEF AppendZone
<1> HIDE DEF zone
<1>5. /\ DOMAIN unread_zones' = 1 .. n + 1
      /\ \A i \in 1 .. n : unread_zones'[i] = z[i]
      /\ unread_zones'[n + 1] = zone
      /\ \A i \in 1 .. n + 1 : i \in 1 .. n \/ i = n + 1
  BY <1>1, <1>2, <1>4
<1>6. FlagsInv'
  <2> SUFFICES ASSUME use_journal, read_strategy # "plain", NEW i \in 1 .. n + 1
               PROVE  LET y == unread_zones'[i]
                      IN /\ FailureBefore(y.begin_lba) => y.begin_lba_defective
                         /\ FailureAt(y.end_lba) => y.end_lba_defective
    BY <1>5 DEF FlagsInv, FailureBefore, FailureAt
  <2>1. CASE i \in 1 .. n
    BY <1>2, <1>5, <2>1 DEF NearFailureInv, FlagsInv
  <2>2. CASE i = n + 1
    BY <1>4, <1>5, <2>2 DEF NearFailureInv, ScanFlagsInv
  <2> QED
    BY <1>5, <2>1, <2>2
<1>7. TouchInv'
  <2> SUFFICES ASSUME NEW i \in 1 .. n + 1, NEW j \in 1 .. n + 1,
                      unread_zones'[i].end_lba = unread_zones'[j].begin_lba,
                      read_strategy # "plain"
               PROVE  IF NoReverse(read_strategy)
                      THEN \/ unread_zones'[j].begin_lba_defective
                           \/ current_zone' = j /\ ~reversive'
                      ELSE \/ unread_zones'[i].end_lba_defective
                           \/ current_zone' = i /\ reversive'
    BY <1>5 DEF TouchInv
  <2>1. i \in 1 .. n /\ j \in 1 .. n
    BY <1>1, <1>2, <1>3, <1>4, <1>5
  <2> QED
    BY <1>2, <1>5, <2>1 DEF NearFailureInv, TouchInv
<1>8. ScanFlagsInv'
  <2> SUFFICES ASSUME pc' = "scan", NEW i \in 1 .. n + 1
               PROVE  unread_zones'[i].end_lba < ScanFront'
    BY <1>4, <1>5 DEF ScanFlagsInv
  <2>1. ScanFront' = scan_lba + 1
    BY <1>4 DEF ScanFront
  <2> QED
    BY <1>1, <1>2, <1>3, <1>4, <1>5, <2>1
<1>9. FailureInv'
  BY DEF NearFailureInv, FailureInv
<1> QED
  BY <1>6, <1>7, <1>8, <1>9 DEF NearFailureInv

LEMMA ScanSectorNear ==
  ASSUME IndInv, NearFailureInv, ScanSector
  PROVE  NearFailureInv'
<1>1. /\ pc = "scan" /\ pc' = "scan" /\ scan_lba < EndLba
      /\ scan_lba' = scan_lba + 1
      /\ UNCHANGED <<journal, use_journal, read_strategy, current_zone, reversive>>
  BY DEF ScanSector, persistent, config
<1>2. /\ scan_lba \in Nat /\ ScanFront \in Nat /\ ScanFront <= scan_lba
      /\ DOMAIN unread_zones = 1 .. Len(unread_zones)
      /\ \A i \in DOMAIN unread_zones : unread_zones[i].end_lba \in Nat
  BY <1>1, Scanning, ZoneElements
<1>3. CASE journal[scan_lba] # "Unread" /\ scan_begin # -1
  <2>1. AppendZone(scan_lba, Defective(journal[scan_lba]))
    BY <1>3 DEF ScanSector
  <2>2. Defective(journal[scan_lba]) \in BOOLEAN
    BY DEF Defective
  <2>3. FailureAt(scan_lba) => Defective(journal[scan_lba])
    BY DEF FailureAt
  <2> QED
    BY <1>1, <1>3, <2>1, <2>2, <2>3, AppendNear
<1>4. CASE ~(journal[scan_lba] # "Unread" /\ scan_begin # -1)
  <2>1. /\ unread_zones' = unread_zones
        /\ \/ /\ scan_begin = -1 /\ scan_begin' = scan_lba
              /\ scan_defective' = (scan_lba > 0 /\ Defective(journal[scan_lba - 1]))
           \/ UNCHANGED <<scan_begin, scan_defective>>
    BY <1>4 DEF ScanSector
  <2>2. FlagsInv' /\ TouchInv' /\ FailureInv'
    BY <1>1, <2>1 DEF NearFailureInv, FlagsInv, TouchInv, FailureInv, FailureBefore, FailureAt
  <2>3. ScanFront' \in Nat /\ ScanFront <= ScanFront'
    BY <1>1, <1>2, <2>1 DEF ScanFront
  <2>4. (scan_begin' # -1 /\ FailureBefore(scan_begin)') => scan_defective'
    <3>1. CASE UNCHANGED <<scan_begin, scan_defective>>
      BY <1>1, <3>1 DEF NearFailureInv, ScanFlagsInv, FailureBefore
    <3>2. CASE /\ scan_begin' = scan_lba
               /\ scan_defective' = (scan_lba > 0 /\ Defective(journal[scan_lba - 1]))
      BY <1>1, <3>2 DEF FailureBefore
    <3> QED
      BY <2>1, <3>1, <3>2
  <2>5. \A i \in DOMAIN unread_zones : unread_zones[i].end_lba < ScanFront'
    <3>1. \A i \in DOMAIN unread_zones : unread_zones[i].end_lba < ScanFront
      BY <1>1 DEF NearFailureInv, ScanFlagsInv
    <3> QED
      BY <1>2, <2>3, <3>1
  <2>6. ScanFlagsInv'
    BY <2>1, <2>4, <2>5 DEF ScanFlagsInv
  <2> QED
    BY <2>2, <2>6 DEF NearFailureInv
<1> QED
  BY <1>3, <1>4

LEMMA ScanEndNear ==
  ASSUME IndInv, NearFailureInv, ScanEnd
  PROVE  NearFailureInv'
<1>1. /\ pc = "scan" /\ pc' = "loop" /\ scan_lba = EndLba
      /\ UNCHANGED <<journal, use_journal, read_strategy, current_zone, reversive>>
  BY DEF ScanEnd, persistent, config
<1>2. CASE scan_begin # -1
  <2>1. AppendZone(scan_lba, FALSE)
    BY <1>1, <1>2 DEF ScanEnd
  <2>2. ~FailureAt(scan_lba)
    BY <1>1, EndLbaAssumption DEF FailureAt
  <2> QED
    BY <1>1, <1>2, <2>1, <2>2, AppendNear
<1>3. CASE scan_begin = -1
  <2>1. unread_zones' = unread_zones
    BY <1>3 DEF ScanEnd
  <2>2. FlagsInv'
    BY <1>1, <2>1 DEF NearFailureInv, FlagsInv, FailureBefore, FailureAt
  <2> QED
    BY <1>1, <2>1, <2>2 DEF NearFailureInv, ScanFlagsInv, TouchInv, FailureInv
<1> QED
  BY <1>2, <1>3
-----------------------------------------------------------------------------
(* Marks and failures: choosing a zone.                                    *)

(* While no zone is current every cut is marked, so any zone of the same   *)
(* list may be chosen.                                                     *)
LEMMA ChosenNear ==
  ASSUME IndInv, NearFailureInv, pc = "loop", pc' = "read",
         UNCHANGED <<journal, use_journal, read_strategy, unread_zones>>,
         \/ current_zone = 0
         \/ read_strategy = "plain"
         \/ UNCHANGED <<current_zone, reversive>>,
         NoReverse(read_strategy) => ~reversive'
  PROVE  NearFailureInv'
<1>1. FlagsInv' /\ ScanFlagsInv'
  BY DEF NearFailureInv, FlagsInv, ScanFlagsInv, FailureBefore, FailureAt
<1>2. TouchInv'
  <2>1. DOMAIN unread_zones = 1 .. Len(unread_zones)
    BY ListFacts, ZoneElements
  <2> QED
    BY <2>1 DEF NearFailureInv, TouchInv
<1>3. FailureInv'
  BY DEF FailureInv
<1> QED
  BY <1>1, <1>2, <1>3 DEF NearFailureInv

(* w is the list z with zone i cut at a sector: the beginnings and the     *)
(* ends of its zones, with their marks.                                    *)
CutAt(z, i, at, w) ==
  /\ Len(w) = Len(z) + 1 /\ DOMAIN w = 1 .. Len(z) + 1
  /\ \A j \in 1 .. i :
       /\ w[j].begin_lba = z[j].begin_lba
       /\ w[j].begin_lba_defective = z[j].begin_lba_defective
  /\ w[i + 1].begin_lba = at /\ w[i + 1].begin_lba_defective = FALSE
  /\ \A j \in i + 2 .. Len(z) + 1 :
       /\ w[j].begin_lba = z[j - 1].begin_lba
       /\ w[j].begin_lba_defective = z[j - 1].begin_lba_defective
  /\ \A j \in 1 .. i - 1 :
       /\ w[j].end_lba = z[j].end_lba
       /\ w[j].end_lba_defective = z[j].end_lba_defective
  /\ w[i].end_lba = at /\ w[i].end_lba_defective = FALSE
  /\ \A j \in i + 1 .. Len(z) + 1 :
       /\ w[j].end_lba = z[j - 1].end_lba
       /\ w[j].end_lba_defective = z[j - 1].end_lba_defective

LEMMA SplitElements ==
  ASSUME NEW z \in Seq(Zone), NEW i \in 1 .. Len(z), NEW at \in Int,
         SplitsInside(z[i], at)
  PROVE  CutAt(z, i, at, Split(z, i, at))
<1> DEFINE head == [z[i] EXCEPT !.end_lba = at, !.end_lba_defective = FALSE]
           tail == [z[i] EXCEPT !.begin_lba = at, !.begin_lba_defective = FALSE]
           y == [z EXCEPT ![i] = head]
           w == Split(z, i, at)
<1>1. /\ z[i] \in Zone /\ z[i].begin_lba \in Nat
      /\ z[i].begin_lba < at /\ at \in Nat
      /\ Len(z) \in Nat /\ i \in Nat /\ i >= 1 /\ i <= Len(z)
  BY ZoneElements DEF SplitsInside
<1>2. /\ head \in Zone /\ tail \in Zone
      /\ head.begin_lba = z[i].begin_lba /\ head.end_lba = at
      /\ head.begin_lba_defective = z[i].begin_lba_defective
      /\ head.end_lba_defective = FALSE
      /\ tail.begin_lba = at /\ tail.end_lba = z[i].end_lba
      /\ tail.end_lba_defective = z[i].end_lba_defective
      /\ tail.begin_lba_defective = FALSE
  BY <1>1 DEF Zone
<1>3. /\ y \in Seq(Zone) /\ Len(y) = Len(z)
      /\ \A j \in 1 .. Len(z) : y[j] = IF j = i THEN head ELSE z[j]
  BY <1>2, ExceptSeq
<1>4. w = InsertAt(y, i + 1, tail)
  BY DEF Split
<1> HIDE DEF head, tail, y, w
<1>5. /\ w \in Seq(Zone) /\ Len(w) = Len(z) + 1
      /\ \A j \in 1 .. i : w[j] = y[j]
      /\ w[i + 1] = tail
      /\ \A j \in i + 2 .. Len(z) + 1 : w[j] = y[j - 1]
  <2> DEFINE k == i + 1
  <2>1. y \in Seq(Zone) /\ tail \in Zone /\ k \in 1 .. Len(y) + 1
    BY <1>1, <1>2, <1>3
  <2> HIDE DEF k
  <2>2. w = InsertAt(y, k, tail) /\ k = i + 1 /\ k - 1 = i /\ k + 1 = i + 2
    BY <1>1, <1>4 DEF k
  <2> DEFINE v == InsertAt(y, k, tail)
  <2>3. /\ v \in Seq(Zone)
        /\ Len(v) = Len(y) + 1
        /\ \A j \in 1 .. k - 1 : v[j] = y[j]
        /\ v[k] = tail
        /\ \A j \in k + 1 .. Len(y) + 1 : v[j] = y[j - 1]
    BY <2>1, InsertAtElements
  <2> QED
    BY <1>3, <2>2, <2>3
<1>6. ASSUME NEW j \in 1 .. i - 1
      PROVE  w[j] = z[j]
  <2>1. j \in 1 .. i /\ j \in 1 .. Len(z) /\ j # i
    BY <1>1
  <2> QED
    BY <1>3, <1>5, <2>1
<1>7. w[i] = head
  BY <1>1, <1>3, <1>5
<1>8. ASSUME NEW j \in i + 2 .. Len(z) + 1
      PROVE  w[j] = z[j - 1]
  <2>1. j - 1 \in 1 .. Len(z) /\ j - 1 # i
    BY <1>1
  <2> QED
    BY <1>3, <1>5, <2>1
<1>9. Len(w) = Len(z) + 1 /\ DOMAIN w = 1 .. Len(z) + 1 /\ w[i + 1] = tail
  BY <1>1, <1>5, ZoneElements
<1>10. /\ \A j \in 1 .. i : j \in 1 .. i - 1 \/ j = i
       /\ \A j \in i + 1 .. Len(z) + 1 : j \in i + 2 .. Len(z) + 1 \/ (j = i + 1 /\ j - 1 = i)
  BY <1>1
<1> QED
  BY <1>2, <1>6, <1>7, <1>8, <1>9, <1>10 DEF CutAt, w

(* A cut is at a sector not read yet; the strategies go on reading away    *)
(* from it, in the half that their direction reaches.                      *)
LEMMA SplitNear ==
  ASSUME IndInv, NearFailureInv, pc = "loop", pc' = "read", current_zone = 0,
         NEW i \in 1 .. Len(unread_zones), NEW at \in Int,
         SplitsInside(unread_zones[i], at),
         unread_zones' = Split(unread_zones, i, at),
         UNCHANGED <<journal, use_journal, read_strategy>>,
         IF NoReverse(read_strategy) THEN current_zone' = i + 1 /\ ~reversive'
         ELSE current_zone' = i /\ reversive'
  PROVE  NearFailureInv'
<1> DEFINE z == unread_zones
           n == Len(unread_zones)
           w == unread_zones'
           old(j) == IF j <= i THEN j ELSE j - 1
<1>1. /\ z \in Seq(Zone) /\ n \in Nat /\ DOMAIN z = 1 .. n /\ EndLba \in Nat
      /\ \A j \in 1 .. n : z[j].begin_lba \in Nat /\ z[j].end_lba \in Nat
      /\ \A j \in 1 .. n : z[j].begin_lba < z[j].end_lba /\ z[j].end_lba <= EndLba
      /\ \A j, k \in 1 .. n : j < k => z[j].end_lba <= z[k].begin_lba
  BY ListFacts, ZoneElements, WellFormedElements
<1>2. /\ z[i].begin_lba < at /\ at < z[i].end_lba
      /\ z[i].begin_lba \in Nat /\ z[i].end_lba \in Nat /\ z[i].end_lba <= EndLba
      /\ i \in Nat /\ 1 <= i /\ i <= n
  BY <1>1 DEF SplitsInside
<1> HIDE DEF w
<1>0. CutAt(z, i, at, w)
  BY <1>1, SplitElements DEF w
<1>3. /\ Len(w) = n + 1 /\ DOMAIN w = 1 .. n + 1
      /\ \A j \in 1 .. i :
           /\ w[j].begin_lba = z[j].begin_lba
           /\ w[j].begin_lba_defective = z[j].begin_lba_defective
      /\ w[i + 1].begin_lba = at
      /\ \A j \in i + 2 .. n + 1 :
           /\ w[j].begin_lba = z[j - 1].begin_lba
           /\ w[j].begin_lba_defective = z[j - 1].begin_lba_defective
      /\ \A j \in 1 .. i - 1 :
           /\ w[j].end_lba = z[j].end_lba
           /\ w[j].end_lba_defective = z[j].end_lba_defective
      /\ w[i].end_lba = at
      /\ \A j \in i + 1 .. n + 1 :
           /\ w[j].end_lba = z[j - 1].end_lba
           /\ w[j].end_lba_defective = z[j - 1].end_lba_defective
  BY <1>0 DEF CutAt
<1>4. \A j \in 1 .. n + 1 :
        /\ old(j) \in 1 .. n
        /\ j # i + 1 => /\ w[j].begin_lba = z[old(j)].begin_lba
                        /\ w[j].begin_lba_defective = z[old(j)].begin_lba_defective
        /\ j # i => /\ w[j].end_lba = z[old(j)].end_lba
                    /\ w[j].end_lba_defective = z[old(j)].end_lba_defective
  <2> SUFFICES ASSUME NEW j \in 1 .. n + 1
               PROVE  /\ old(j) \in 1 .. n
                      /\ j # i + 1 => /\ w[j].begin_lba = z[old(j)].begin_lba
                                      /\ w[j].begin_lba_defective = z[old(j)].begin_lba_defective
                      /\ j # i => /\ w[j].end_lba = z[old(j)].end_lba
                                  /\ w[j].end_lba_defective = z[old(j)].end_lba_defective
    OBVIOUS
  <2>1. CASE j < i
    <3>1. old(j) = j /\ j \in 1 .. n /\ j # i + 1 /\ j # i /\ j \in 1 .. i /\ j \in 1 .. i - 1
      BY <1>1, <1>2, <2>1
    <3> QED
      BY <1>3, <3>1
  <2>2. CASE j = i
    <3>1. old(j) = j /\ j \in 1 .. n /\ j \in 1 .. i
      BY <1>1, <1>2, <2>2
    <3> QED
      BY <1>3, <2>2, <3>1
  <2>3. CASE j = i + 1
    <3>1. old(j) = i /\ j - 1 = i /\ j # i /\ j \in i + 1 .. n + 1
      BY <1>1, <1>2, <2>3
    <3> QED
      BY <1>2, <1>3, <2>3, <3>1
  <2>4. CASE j > i + 1
    <3>1. /\ old(j) = j - 1 /\ j - 1 \in 1 .. n /\ j # i
          /\ j \in i + 2 .. n + 1 /\ j \in i + 1 .. n + 1
      BY <1>1, <1>2, <2>4
    <3> QED
      BY <1>3, <3>1
  <2> QED
    BY <1>1, <2>1, <2>2, <2>3, <2>4
<1> HIDE DEF old
<1>5. FlagsInv'
  <2> SUFFICES ASSUME use_journal, read_strategy # "plain", NEW j \in 1 .. n + 1
               PROVE  /\ NoReverse(read_strategy) /\ FailureBefore(w[j].begin_lba)
                           => w[j].begin_lba_defective
                      /\ ~NoReverse(read_strategy) /\ FailureAt(w[j].end_lba)
                           => w[j].end_lba_defective
    BY <1>3 DEF FlagsInv, FailureBefore, FailureAt, w
  <2>1. journal[at] = "Unread" /\ journal[at - 1] = "Unread"
    <3>1. at \in ZoneSectors(z[i]) /\ at - 1 \in ZoneSectors(z[i])
      BY <1>1, <1>2 DEF ZoneSectors
    <3>2. at \in UnreadSectors(z) /\ at - 1 \in UnreadSectors(z)
      BY <1>1, <3>1, UnreadSectorsMember
    <3>3. at \in Lbas /\ at - 1 \in Lbas
      BY <1>1, <1>2, EndLbaAssumption DEF Lbas
    <3> QED
      BY <3>2, <3>3 DEF IndInv, JournalMatchesZones, InSession
  <2>2. ~FailureBefore(at) /\ ~FailureAt(at)
    BY <2>1 DEF FailureBefore, FailureAt, Defective
  <2>3. NoReverse(read_strategy) /\ FailureBefore(w[j].begin_lba) => w[j].begin_lba_defective
    <3>1. CASE j = i + 1
      BY <1>3, <2>2, <3>1
    <3>2. CASE j # i + 1
      BY <1>1, <1>4, <3>2 DEF NearFailureInv, FlagsInv
    <3> QED
      BY <3>1, <3>2
  <2>4. ~NoReverse(read_strategy) /\ FailureAt(w[j].end_lba) => w[j].end_lba_defective
    <3>1. CASE j = i
      BY <1>3, <2>2, <3>1
    <3>2. CASE j # i
      BY <1>1, <1>4, <3>2 DEF NearFailureInv, FlagsInv
    <3> QED
      BY <3>1, <3>2
  <2> QED
    BY <2>3, <2>4
<1>6. TouchInv'
  <2> SUFFICES ASSUME read_strategy # "plain", NEW a \in 1 .. n + 1, NEW b \in 1 .. n + 1,
                      w[a].end_lba = w[b].begin_lba
               PROVE  IF NoReverse(read_strategy)
                      THEN w[b].begin_lba_defective \/ (current_zone' = b /\ ~reversive')
                      ELSE w[a].end_lba_defective \/ (current_zone' = a /\ reversive')
    BY <1>3 DEF TouchInv, w
  <2>1. CASE a = i /\ b = i + 1
    BY <2>1
  <2>2. a = i => b = i + 1
    <3> SUFFICES ASSUME a = i, b # i + 1 PROVE FALSE
      OBVIOUS
    <3>1. old(b) \in 1 .. n /\ z[old(b)].begin_lba = at
      BY <1>3, <1>4
    <3> DEFINE k == old(b)
    <3>2. k \in 1 .. n /\ z[k].begin_lba = at
      BY <3>1
    <3> HIDE DEF k
    <3>3. k < i => z[k].begin_lba < at
      BY <1>1, <1>2, <3>2
    <3>4. k > i => z[i].end_lba <= z[k].begin_lba
      BY <1>1, <1>2, <3>2
    <3> QED
      BY <1>2, <3>2, <3>3, <3>4
  <2>3. b = i + 1 => a = i
    <3> SUFFICES ASSUME b = i + 1, a # i PROVE FALSE
      OBVIOUS
    <3>1. old(a) \in 1 .. n /\ z[old(a)].end_lba = at
      BY <1>3, <1>4
    <3> DEFINE k == old(a)
    <3>2. k \in 1 .. n /\ z[k].end_lba = at
      BY <3>1
    <3> HIDE DEF k
    <3>3. k < i => z[k].end_lba <= z[i].begin_lba
      BY <1>1, <1>2, <3>2
    <3>4. k > i => z[i].end_lba < z[k].end_lba
      BY <1>1, <1>2, <3>2
    <3> QED
      BY <1>2, <3>2, <3>3, <3>4
  <2>4. CASE a # i /\ b # i + 1
    <3>1. z[old(a)].end_lba = z[old(b)].begin_lba /\ old(a) \in 1 .. n /\ old(b) \in 1 .. n
      BY <1>4, <2>4
    <3>2. IF NoReverse(read_strategy) THEN z[old(b)].begin_lba_defective
          ELSE z[old(a)].end_lba_defective
      BY <1>1, <3>1 DEF NearFailureInv, TouchInv
    <3> QED
      BY <1>4, <2>4, <3>2
  <2> QED
    BY <2>1, <2>2, <2>3, <2>4
<1>7. ScanFlagsInv' /\ FailureInv'
  BY DEF ScanFlagsInv, FailureInv
<1> QED
  BY <1>5, <1>6, <1>7 DEF NearFailureInv
(* Only one half of a split by a smart strategy is processable, and only   *)
(* away from the cut: backward from it, or forward where reading backward  *)
(* is excluded.                                                            *)
LEMMA SmartSplitNear ==
  ASSUME IndInv, NearFailureInv, pc = "loop", pc' = "read", current_zone = 0,
         read_strategy \in SmartStrategies, SmartSplit,
         \A i \in DOMAIN unread_zones : ~Processable(read_strategy, unread_zones[i]),
         UNCHANGED <<journal, use_journal, read_strategy>>
  PROVE  NearFailureInv'
<1> DEFINE z == unread_zones
           n == Len(unread_zones)
           to(i) == JumpTarget(unread_zones[i], ZoneLength(unread_zones[i]) \div 2)
<1>1. /\ z \in Seq(Zone) /\ n \in Nat /\ DOMAIN z = 1 .. n
      /\ \A j \in 1 .. n : z[j] \in Zone
  BY ListFacts, ZoneElements
<1>2. PICK i \in 1 .. n :
        /\ MaySplit(z[i])
        /\ \E k \in DOMAIN Split(z, i, to(i)), rev \in BOOLEAN :
             /\ FirstProcessable(read_strategy, Split(z, i, to(i)), k, rev)
             /\ GiveTask(Split(z, i, to(i)), k, rev)
  BY <1>1 DEF SmartSplit
<1>3. to(i) \in Int /\ SplitsInside(z[i], to(i))
  BY <1>1, <1>2, HalfJumpInside DEF MaySplit
<1> DEFINE at == to(i)
           w == Split(z, i, at)
<1> HIDE DEF to
<1>4. CutAt(z, i, at, w)
  BY <1>1, <1>3, SplitElements
<1> DEFINE k == current_zone'
           rev == reversive'
<1>5. /\ unread_zones' = w
      /\ FirstProcessable(read_strategy, w, k, rev)
  BY <1>2 DEF GiveTask
<1> HIDE DEF w
<1>6. /\ k \in 1 .. n + 1 /\ rev = w[k].begin_lba_defective
      /\ Processable(read_strategy, w[k])
      /\ \A j \in 1 .. k - 1 : ~Processable(read_strategy, w[j])
  BY <1>4, <1>5 DEF FirstProcessable, CutAt
<1>7. \A j \in 1 .. n :
        /\ z[j].begin_lba_defective
        /\ ~NoReverse(read_strategy) => z[j].end_lba_defective
  BY <1>1 DEF Processable
<1>8. CASE NoReverse(read_strategy)
  <2>1. ~w[k].begin_lba_defective
    BY <1>6, <1>8 DEF Processable
  <2>2. \A j \in 1 .. i : w[j].begin_lba_defective
    BY <1>1, <1>4, <1>7 DEF CutAt
  <2>3. \A j \in i + 2 .. n + 1 : w[j].begin_lba_defective
    <3> SUFFICES ASSUME NEW j \in i + 2 .. n + 1 PROVE w[j].begin_lba_defective
      OBVIOUS
    <3>1. j - 1 \in 1 .. n /\ w[j].begin_lba_defective = z[j - 1].begin_lba_defective
      BY <1>1, <1>4 DEF CutAt
    <3> QED
      BY <1>7, <3>1
  <2>4. k = i + 1
    BY <1>1, <1>6, <2>1, <2>2, <2>3
  <2> QED
    BY <1>3, <1>5, <1>6, <1>8, <2>1, <2>4, SplitNear DEF w
<1>9. CASE ~NoReverse(read_strategy)
  <2>1. Processable(read_strategy, w[i])
    BY <1>4, <1>9 DEF CutAt, Processable
  <2>2. k <= i
    BY <1>1, <1>6, <2>1
  <2>3. \A j \in 1 .. i - 1 : ~Processable(read_strategy, w[j])
    <3> SUFFICES ASSUME NEW j \in 1 .. i - 1 PROVE ~Processable(read_strategy, w[j])
      OBVIOUS
    <3>1. /\ j \in 1 .. n /\ j \in 1 .. i
          /\ w[j].begin_lba_defective = z[j].begin_lba_defective
          /\ w[j].end_lba_defective = z[j].end_lba_defective
      BY <1>1, <1>4 DEF CutAt
    <3> QED
      BY <1>7, <1>9, <3>1 DEF Processable
  <2>4. k = i
    BY <1>1, <1>6, <2>2, <2>3
  <2>5. w[i].begin_lba_defective
    <3>1. w[i].begin_lba_defective = z[i].begin_lba_defective
      BY <1>1, <1>4 DEF CutAt
    <3> QED
      BY <1>7, <3>1
  <2> QED
    BY <1>3, <1>5, <1>6, <1>9, <2>4, <2>5, SplitNear DEF w
<1> QED
  BY <1>8, <1>9

LEMMA GetTaskNear ==
  ASSUME IndInv, NearFailureInv, GetTask
  PROVE  NearFailureInv'
<1>1. /\ pc = "loop" /\ pc' = "read"
      /\ UNCHANGED <<journal, use_journal, read_strategy>>
      /\ NoReverse(read_strategy) => ~reversive
  BY DEF GetTask, MorePending, persistent, config, NearFailureInv, FailureInv
<1>2. ASSUME NEW i, NEW rev \in BOOLEAN, GiveTask(unread_zones, i, rev),
             \/ current_zone = 0 \/ read_strategy = "plain"
             \/ i = current_zone /\ rev = reversive,
             NoReverse(read_strategy) => ~rev
      PROVE  NearFailureInv'
  BY <1>1, <1>2, ChosenNear DEF GiveTask
<1>3. reversive \in BOOLEAN
  BY DEF IndInv, TypeOK
<1>4. CASE PlainGetTask
  BY <1>1, <1>2, <1>3, <1>4 DEF PlainGetTask
<1>5. CASE SmartGetTask
  <2>1. CASE ProceedCurrent
    BY <1>1, <1>2, <1>3, <2>1 DEF ProceedCurrent
  <2>2. CASE current_zone = 0 /\ GiveTask(unread_zones, 1, FALSE)
    BY <1>2, <2>2
  <2>3. ASSUME current_zone = 0, NEW i \in DOMAIN unread_zones, NEW rev \in BOOLEAN,
               FirstProcessable(read_strategy, unread_zones, i, rev),
               GiveTask(unread_zones, i, rev)
        PROVE  NearFailureInv'
    BY <1>2, <2>3 DEF FirstProcessable, Processable
  <2>4. CASE /\ current_zone = 0 /\ SmartSplit
             /\ \A i \in DOMAIN unread_zones : ~Processable(read_strategy, unread_zones[i])
    BY <1>1, <1>5, <2>4, SmartSplitNear DEF SmartGetTask
  <2> QED
    BY <1>5, <2>1, <2>2, <2>3, <2>4 DEF SmartGetTask, SmartGoSequential
<1>6. CASE SkipfailGetTask
  <2>1. CASE ProceedCurrent
    BY <1>1, <1>2, <1>3, <2>1 DEF ProceedCurrent
  <2>2. CASE ~ProceedCurrent
    <3> DEFINE to(i) == JumpTarget(unread_zones[i], SkipSectors)
    <3>1. current_zone = 0
      BY <1>6, <2>2 DEF SkipfailGetTask
    <3>2. PICK i \in 1 .. Len(unread_zones) :
            \/ GiveTask(unread_zones, i, FALSE)
            \/ ~NoReverse(read_strategy) /\ GiveTask(unread_zones, i, TRUE)
            \/ /\ SplitsInside(unread_zones[i], to(i))
               /\ IF NoReverse(read_strategy)
                  THEN GiveTask(Split(unread_zones, i, to(i)), i + 1, FALSE)
                  ELSE GiveTask(Split(unread_zones, i, to(i)), i, TRUE)
      BY <1>6, <2>2, ListFacts, ZoneElements DEF SkipfailGetTask, SkipfailReverse
    <3>3. to(i) \in Int
      <4>1. unread_zones[i].begin_lba \in Nat
        BY ListFacts, ZoneElements
      <4>2. SkipSectors \in Nat
        <5>1. skip_blocks \in Nat /\ SectorsAtOnce \in Nat
          BY SectorsAtOnceAssumption DEF IndInv, TypeOK
        <5> QED
          BY <5>1 DEF SkipSectors
      <4> QED
        BY <4>1, <4>2, SectorsAtOnceAssumption DEF JumpTarget
    <3> HIDE DEF to
    <3>4. CASE /\ SplitsInside(unread_zones[i], to(i))
               /\ IF NoReverse(read_strategy)
                  THEN GiveTask(Split(unread_zones, i, to(i)), i + 1, FALSE)
                  ELSE GiveTask(Split(unread_zones, i, to(i)), i, TRUE)
      BY <1>1, <3>1, <3>3, <3>4, SplitNear DEF GiveTask
    <3> QED
      BY <1>2, <3>1, <3>2, <3>4
  <2> QED
    BY <2>1, <2>2
<1> QED
  BY <1>4, <1>5, <1>6 DEF GetTask

-----------------------------------------------------------------------------
(* Marks and failures: the block is taken off.                             *)

(* The zone that has been read from loses the block at the edge where it   *)
(* may have been cut off, and carries the mark of the block there.         *)
LEMMA TrimmedNear ==
  ASSUME IndInv, NearFailureInv, UseResults,
         NEW left, left = Trim(unread_zones[current_zone], reversive, sectors_to_read, Failed),
         ~Empty(left)
  PROVE  FlagsInv' /\ TouchInv'
<1> DEFINE z == unread_zones
           c == current_zone
           w == unread_zones'
<1>1. /\ pc = "update" /\ InTask /\ pc' = "callback"
      /\ UNCHANGED <<journal, use_journal, read_strategy, reversive>>
      /\ w = [z EXCEPT ![c] = left]
  BY DEF UseResults, InTask, Return, persistent, config
<1>2. /\ z \in Seq(Zone) /\ DOMAIN z = 1 .. Len(z) /\ Len(z) \in Nat
      /\ \A j \in 1 .. Len(z) : z[j] \in Zone
      /\ \A j \in 1 .. Len(z) : z[j].begin_lba \in Nat /\ z[j].end_lba \in Nat
      /\ \A j \in 1 .. Len(z) : z[j].begin_lba < z[j].end_lba /\ z[j].end_lba <= EndLba
      /\ \A j, k \in 1 .. Len(z) : j < k => z[j].end_lba <= z[k].begin_lba
      /\ EndLba \in Nat
  BY ListFacts, ZoneElements, WellFormedElements
<1>3. /\ c \in 1 .. Len(z)
      /\ sectors_to_read = BlockSize(z[c]) /\ lba_to_read = BlockStart(z[c], reversive)
      /\ sectors_to_read \in Nat /\ sectors_to_read > 0 /\ lba_to_read \in Nat
      /\ Failed \in BOOLEAN
  BY <1>1, CurrentBlock DEF IndInv, TypeOK, Failed
<1> DEFINE zone == z[c]
<1>4. zone \in Zone /\ zone.begin_lba \in Nat /\ zone.end_lba \in Nat
      /\ zone.begin_lba < zone.end_lba
  BY <1>2, <1>3
<1>5. /\ \A j \in 1 .. Len(z) : j # c => w[j] = z[j]
      /\ w[c] = left /\ DOMAIN w = 1 .. Len(z)
  BY <1>1, <1>2, <1>3
<1> HIDE DEF w
<1>6. CASE reversive
  <2>0. ~NoReverse(read_strategy)
    BY <1>6 DEF NearFailureInv, FailureInv
  <2>1. left = [zone EXCEPT !.end_lba = @ - sectors_to_read, !.end_lba_defective = Failed]
    BY <1>6 DEF Trim
  <2>2. /\ left.begin_lba = zone.begin_lba /\ left.end_lba = zone.end_lba - sectors_to_read
        /\ left.end_lba_defective = Failed
    BY <1>4, <2>1 DEF Zone
  <2>3. left.end_lba = lba_to_read /\ lba_to_read \in Block
    <3>1. lba_to_read = zone.end_lba - sectors_to_read
      BY <1>3, <1>6 DEF BlockStart
    <3>2. lba_to_read \in Block
      BY <1>3 DEF Block
    <3> QED
      BY <2>2, <3>1, <3>2
  <2>4. zone.begin_lba < left.end_lba /\ left.end_lba < zone.end_lba
    <3>1. sectors_to_read <= zone.end_lba - zone.begin_lba
      BY <1>3, <1>4, SectorsAtOnceAssumption DEF BlockSize, ZoneLength
    <3>2. left.end_lba # zone.begin_lba
      BY <2>2 DEF Empty
    <3> QED
      BY <1>3, <1>4, <2>2, <3>1, <3>2
  <2>5. FlagsInv'
    <3> SUFFICES ASSUME use_journal, read_strategy # "plain", NEW i \in 1 .. Len(z),
                        FailureAt(w[i].end_lba)
                 PROVE  w[i].end_lba_defective
      BY <1>1, <1>5, <2>0 DEF FlagsInv, FailureAt, FailureBefore, w
    <3>1. CASE i # c
      BY <1>2, <1>5, <2>0, <3>1 DEF NearFailureInv, FlagsInv
    <3>2. CASE i = c
      BY <1>1, <1>5, <2>2, <2>3, <3>2 DEF FailureAt, NearFailureInv, FailureInv
    <3> QED
      BY <3>1, <3>2
  <2>6. TouchInv'
    <3> SUFFICES ASSUME read_strategy # "plain", NEW i \in 1 .. Len(z), NEW j \in 1 .. Len(z),
                        w[i].end_lba = w[j].begin_lba
                 PROVE  w[i].end_lba_defective
      BY <1>1, <1>5, <2>0 DEF TouchInv, w
    <3>1. w[j].begin_lba = z[j].begin_lba
      BY <1>5, <2>2
    <3>2. i # c
      <4> SUFFICES ASSUME i = c PROVE FALSE
        OBVIOUS
      <4>1. z[j].begin_lba = left.end_lba
        BY <1>5, <3>1
      <4>2. j < c => z[j].begin_lba < zone.begin_lba
        BY <1>2, <1>3
      <4>3. j > c => zone.end_lba <= z[j].begin_lba
        BY <1>2, <1>3
      <4> QED
        BY <1>2, <1>3, <1>4, <2>2, <2>4, <4>1, <4>2, <4>3
    <3>3. w[i] = z[i] /\ z[i].end_lba = z[j].begin_lba
      BY <1>5, <3>1, <3>2
    <3> QED
      BY <1>2, <2>0, <3>2, <3>3 DEF NearFailureInv, TouchInv
  <2> QED
    BY <2>5, <2>6
<1>7. CASE ~reversive
  <2>1. left = [zone EXCEPT !.begin_lba = @ + sectors_to_read, !.begin_lba_defective = Failed]
    BY <1>7 DEF Trim
  <2>2. /\ left.end_lba = zone.end_lba /\ left.begin_lba = zone.begin_lba + sectors_to_read
        /\ left.begin_lba_defective = Failed
        /\ left.end_lba_defective = zone.end_lba_defective
    BY <1>4, <2>1 DEF Zone
  <2>3. left.begin_lba - 1 \in Block
    BY <1>3, <1>4, <1>7, <2>2 DEF BlockStart, Block
  <2>4. zone.begin_lba < left.begin_lba /\ left.begin_lba < zone.end_lba
    <3>1. sectors_to_read <= zone.end_lba - zone.begin_lba
      BY <1>3, <1>4, SectorsAtOnceAssumption DEF BlockSize, ZoneLength
    <3>2. left.begin_lba # zone.end_lba
      BY <2>2 DEF Empty
    <3> QED
      BY <1>3, <1>4, <2>2, <3>1, <3>2
  <2>5. FlagsInv'
    <3> SUFFICES ASSUME use_journal, read_strategy # "plain", NEW i \in 1 .. Len(z)
                 PROVE  /\ NoReverse(read_strategy) /\ FailureBefore(w[i].begin_lba)
                             => w[i].begin_lba_defective
                        /\ ~NoReverse(read_strategy) /\ FailureAt(w[i].end_lba)
                             => w[i].end_lba_defective
      BY <1>1, <1>5 DEF FlagsInv, FailureAt, FailureBefore, w
    <3>1. CASE i # c
      BY <1>2, <1>5, <3>1 DEF NearFailureInv, FlagsInv
    <3>2. CASE i = c
      <4>1. FailureBefore(w[i].begin_lba) => w[i].begin_lba_defective
        BY <1>1, <1>5, <2>2, <2>3, <3>2 DEF FailureBefore, NearFailureInv, FailureInv
      <4>2. ~NoReverse(read_strategy) /\ FailureAt(w[i].end_lba) => w[i].end_lba_defective
        BY <1>2, <1>3, <1>5, <2>2, <3>2 DEF NearFailureInv, FlagsInv
      <4> QED
        BY <4>1, <4>2
    <3> QED
      BY <3>1, <3>2
  <2>6. TouchInv'
    <3> SUFFICES ASSUME read_strategy # "plain", NEW i \in 1 .. Len(z), NEW j \in 1 .. Len(z),
                        w[i].end_lba = w[j].begin_lba
                 PROVE  IF NoReverse(read_strategy) THEN w[j].begin_lba_defective
                        ELSE w[i].end_lba_defective
      BY <1>1, <1>5 DEF TouchInv, w
    <3>1. w[i].end_lba = z[i].end_lba /\ w[i].end_lba_defective = z[i].end_lba_defective
      BY <1>5, <2>2
    <3>2. j # c
      <4> SUFFICES ASSUME j = c PROVE FALSE
        OBVIOUS
      <4>1. z[i].end_lba = left.begin_lba
        BY <1>5, <3>1
      <4>2. i < c => z[i].end_lba <= zone.begin_lba
        BY <1>2, <1>3
      <4>3. i > c => zone.end_lba < z[i].end_lba
        BY <1>2, <1>3
      <4> QED
        BY <1>2, <1>3, <1>4, <2>2, <2>4, <4>1, <4>2, <4>3
    <3>3. w[j] = z[j] /\ z[i].end_lba = z[j].begin_lba
      BY <1>5, <3>1, <3>2
    <3> QED
      BY <1>2, <1>7, <3>1, <3>2, <3>3 DEF NearFailureInv, TouchInv
  <2> QED
    BY <2>5, <2>6
<1> QED
  BY <1>6, <1>7

LEMMA RemovedNear ==
  ASSUME IndInv, NearFailureInv, UseResults,
         unread_zones' = RemoveAt(unread_zones, current_zone)
  PROVE  FlagsInv' /\ TouchInv'
<1> DEFINE z == unread_zones
           c == current_zone
           w == unread_zones'
           old(j) == IF j < c THEN j ELSE j + 1
<1>1. /\ pc' = "callback" /\ InTask
      /\ UNCHANGED <<journal, use_journal, read_strategy>>
  BY DEF UseResults, InTask, Return, persistent, config
<1>2. /\ z \in Seq(Zone) /\ DOMAIN z = 1 .. Len(z) /\ Len(z) \in Nat
      /\ c \in 1 .. Len(z)
  BY <1>1, ListFacts, ZoneElements, CurrentBlock
<1>3. /\ w \in Seq(Zone) /\ Len(w) = Len(z) - 1
      /\ \A j \in 1 .. Len(z) - 1 : w[j] = IF j < c THEN z[j] ELSE z[j + 1]
  BY <1>2, RemoveAtElements
<1>4. /\ DOMAIN w = 1 .. Len(z) - 1
      /\ \A j \in 1 .. Len(z) - 1 : w[j] = z[old(j)] /\ old(j) \in 1 .. Len(z) /\ old(j) # c
  BY <1>2, <1>3, ZoneElements
<1> HIDE DEF w, old
<1>5. FlagsInv'
  <2> SUFFICES ASSUME use_journal, read_strategy # "plain", NEW i \in 1 .. Len(z) - 1
               PROVE  /\ NoReverse(read_strategy) /\ FailureBefore(w[i].begin_lba)
                           => w[i].begin_lba_defective
                      /\ ~NoReverse(read_strategy) /\ FailureAt(w[i].end_lba)
                           => w[i].end_lba_defective
    BY <1>1, <1>4 DEF FlagsInv, FailureAt, FailureBefore, w
  <2> QED
    BY <1>2, <1>4 DEF NearFailureInv, FlagsInv
<1>6. TouchInv'
  <2> SUFFICES ASSUME read_strategy # "plain",
                      NEW i \in 1 .. Len(z) - 1, NEW j \in 1 .. Len(z) - 1,
                      w[i].end_lba = w[j].begin_lba
               PROVE  IF NoReverse(read_strategy) THEN w[j].begin_lba_defective
                      ELSE w[i].end_lba_defective
    BY <1>1, <1>4 DEF TouchInv, w
  <2> QED
    BY <1>2, <1>4 DEF NearFailureInv, TouchInv
<1> QED
  BY <1>5, <1>6

LEMMA UseResultsNear ==
  ASSUME IndInv, NearFailureInv, UseResults
  PROVE  NearFailureInv'
<1> DEFINE left == Trim(unread_zones[current_zone], reversive, sectors_to_read, Failed)
<1>1. Empty(left) => unread_zones' = RemoveAt(unread_zones, current_zone)
  BY DEF UseResults
<1> HIDE DEF left
<1>2. FlagsInv' /\ TouchInv'
  BY <1>1, RemovedNear, TrimmedNear DEF left
<1>3. ScanFlagsInv' /\ FailureInv'
  BY DEF UseResults, Return, config, ScanFlagsInv, FailureInv, NearFailureInv
<1> QED
  BY <1>2, <1>3 DEF NearFailureInv

-----------------------------------------------------------------------------
(* The theorem.                                                            *)

LEMMA NearStep == IndInv /\ NearFailureInv /\ [Next]_vars => NearFailureInv'
<1> SUFFICES ASSUME IndInv, NearFailureInv, [Next]_vars PROVE NearFailureInv'
  OBVIOUS
<1>1. CASE OpenRefused \/ UNCHANGED vars
  <2>1. UNCHANGED <<journal, use_journal, read_strategy, unread_zones, current_zone,
                    reversive, pc, scan_begin, scan_lba, scan_defective, error_flag, report,
                    lba_to_read, sectors_to_read>>
    BY <1>1 DEF OpenRefused, vars, persistent, config, zoneVars, scanVars, task, outcome
  <2> QED
    BY <2>1 DEF NearFailureInv, FlagsInv, ScanFlagsInv, TouchInv, FailureInv, FailureBefore,
                FailureAt, ScanFront, Failed, Block
<1>2. CASE Open /\ ~OpenRefused
  BY <1>2, OpenNear DEF Open
<1>3. CASE FillJournal \/ NoTask \/ RefuseBlock \/ Callback \/ LoopFinished \/ LoopInterrupted
  <2>1. /\ pc' \in {"create", "loop", "callback", "closing"}
        /\ UNCHANGED <<journal, use_journal, read_strategy, unread_zones, current_zone,
                       reversive>>
    BY <1>3 DEF FillJournal, NoTask, RefuseBlock, Callback, LoopFinished, LoopInterrupted,
                Return, persistent, config, zoneVars
  <2>2. FlagsInv' /\ ScanFlagsInv' /\ TouchInv'
    BY <2>1, KeepsMarks
  <2> QED
    BY <2>1, <2>2 DEF NearFailureInv, FailureInv
<1>4. CASE ScanSector \/ ScanEnd
  BY <1>4, ScanSectorNear, ScanEndNear
<1>5. CASE GetTask \/ Write \/ WriteJournal \/ UseResults
  BY <1>5, GetTaskNear, WriteNear, WriteJournalNear, UseResultsNear
<1>6. CASE \E how \in ReadResults : Read(how)
  BY <1>6, ReadNear
<1>7. CASE JumpAssertionFails \/ Close \/ Crash
  BY <1>7, EndSessionNear DEF JumpAssertionFails, Close, Crash
<1> QED
  BY <1>1, <1>2, <1>3, <1>4, <1>5, <1>6, <1>7 DEF Next, SessionStep, Perform

(* Reading next to a failure is delayed, in every session of skipfail and  *)
(* until a smart strategy has nothing else left: no block is read backward *)
(* away from a sector the journal has as failed just behind it, and under  *)
(* the noreverse strategies none forward away from one just before it      *)
(* (copy.c:411, copy_read_strategies.c:53-227).                            *)
THEOREM ReadingNearFailuresIsDelayed == Spec => []DefectiveEdgesDelayed
<1>1. Init => EdgeInv /\ NearFailureInv
  BY InitNear DEF Init, NoSession, EdgeInv
<1>2. IndInv /\ EdgeInv /\ NearFailureInv /\ [Next]_vars => EdgeInv' /\ NearFailureInv'
  BY EdgeStep, NearStep
<1>3. IndInv /\ EdgeInv /\ NearFailureInv => DefectiveEdgesDelayed
  <2> SUFFICES ASSUME IndInv, EdgeInv, NearFailureInv, pc = "read", use_journal,
                      read_strategy # "plain", stage = 0
               PROVE  /\ reversive => ~FailureAt(lba_to_read + sectors_to_read)
                      /\ NoReverse(read_strategy) =>
                           ~reversive /\ ~FailureBefore(lba_to_read)
    BY DEF DefectiveEdgesDelayed
  <2> DEFINE zone == unread_zones[current_zone]
  <2>1. /\ current_zone \in 1 .. Len(unread_zones) /\ current_zone # 0
        /\ zone \in Zone /\ zone.begin_lba < zone.end_lba
        /\ sectors_to_read = BlockSize(zone) /\ lba_to_read = BlockStart(zone, reversive)
        /\ sectors_to_read \in Nat
    BY CurrentBlock DEF InTask
  <2>2. ~EdgeDefective(zone, reversive)
    BY <2>1 DEF EdgeInv
  <2>3. current_zone \in DOMAIN unread_zones
    BY <2>1, ListFacts, ZoneElements
  <2> HIDE DEF zone
  <2>4. CASE reversive
    <3>1. lba_to_read + sectors_to_read = zone.end_lba
      BY <2>1, <2>4 DEF BlockStart, Zone
    <3>2. ~NoReverse(read_strategy) /\ ~zone.end_lba_defective
      BY <2>2, <2>4 DEF EdgeDefective, NearFailureInv, FailureInv
    <3> QED
      BY <2>3, <2>4, <3>1, <3>2 DEF NearFailureInv, FlagsInv, zone
  <2>5. CASE ~reversive
    <3>1. lba_to_read = zone.begin_lba /\ ~zone.begin_lba_defective
      BY <2>1, <2>2, <2>5 DEF BlockStart, EdgeDefective
    <3> QED
      BY <2>3, <2>5, <3>1 DEF NearFailureInv, FlagsInv, zone
  <2> QED
    BY <2>4, <2>5
<1> QED
  BY <1>1, <1>2, <1>3, Invariant, PTL DEF Spec
=============================================================================
