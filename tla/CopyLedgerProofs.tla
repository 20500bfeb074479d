--------------------------- MODULE CopyLedgerProofs ---------------------------
(***************************************************************************)
(* What the copy procedure delivers: the count of the callback, and, where *)
(* a read either fills the buffer or fails, that the journaled copy        *)
(* implements the ledger.                                                  *)
(***************************************************************************)
EXTENDS CopyProofs

-----------------------------------------------------------------------------
(* The count of the callback.                                              *)

LEMMA InitCount == Init => CountInv
BY DEF Init, NoSession, CountInv

LEMMA CountStep == IndInv /\ CountInv /\ [Next]_vars => CountInv'
<1> SUFFICES ASSUME IndInv, CountInv, [Next]_vars PROVE CountInv'
  OBVIOUS
<1>0. /\ pc \in ControlStates /\ num \in Nat /\ handled \in Nat
      /\ sectors_to_read \in Nat /\ report \in Report
  BY DEF IndInv, TypeOK
<1>1. ASSUME NEW how, EndSession(how) PROVE CountInv'
  BY <1>1 DEF EndSession, CountInv
<1>2. CASE OpenRefused
  BY <1>2 DEF OpenRefused, CountInv, progress, outcome, task
<1>3. CASE \E s \in Strategies : OpenWithoutJournal(s) \/ OpenNewJournal(s) \/ OpenJournal(s)
  BY <1>3 DEF OpenWithoutJournal, OpenNewJournal, OpenJournal, OpenContext, CountInv
<1>4. CASE FillJournal \/ ScanSector \/ ScanEnd
  <2>1. UNCHANGED <<num, handled>> /\ pc \in {"create", "scan"} /\ pc' \in {"create", "scan", "loop"}
    BY <1>4 DEF FillJournal, ScanSector, ScanEnd, progress
  <2> QED
    BY <2>1 DEF CountInv
<1>5. CASE GetTask
  BY <1>5 DEF GetTask, MorePending, CountInv, progress
<1>6. CASE NoTask \/ RefuseBlock
  BY <1>6 DEF NoTask, RefuseBlock, Return, CountInv
<1>7. CASE \E how \in ReadResults : Read(how)
  BY <1>7 DEF Read, ReportOf, RecordNext, CountInv, progress, task
<1>8. CASE Write
  <2>1. report'.sectors_processed = report.sectors_processed
    BY <1>0, <1>8 DEF Write, Report
  <2> QED
    BY <1>8, <2>1 DEF Write, RecordNext, CountInv, progress, task
<1>9. CASE WriteJournal
  BY <1>9 DEF WriteJournal, CountInv, progress, task, outcome
<1>10. CASE UseResults
  BY <1>0, <1>10 DEF UseResults, Return, CountInv
<1>11. CASE Callback
  BY <1>0, <1>11 DEF Callback, CountInv, progress, outcome
<1>12. CASE LoopFinished \/ LoopInterrupted
  BY <1>12 DEF LoopFinished, LoopInterrupted, CountInv, progress
<1>13. CASE UNCHANGED vars
  BY <1>13 DEF vars, CountInv, progress, outcome, task
<1> QED
  BY <1>1, <1>2, <1>3, <1>4, <1>5, <1>6, <1>7, <1>8, <1>9, <1>10, <1>11, <1>12, <1>13
  DEF Next, Open, SessionStep, Perform, JumpAssertionFails, Close, Crash

(* The sectors the callback was handed are those progress counts: no block *)
(* is reported twice or not at all (procedure.c:117, copy.c:243).          *)
THEOREM ReportsMatchProgress == Spec => []HandledMatchesProgress
<1>1. Init => CountInv
  BY InitCount
<1>2. IndInv /\ CountInv /\ [Next]_vars => CountInv'
  BY CountStep
<1>3. CountInv => HandledMatchesProgress
  BY DEF CountInv, HandledMatchesProgress
<1> QED
  BY <1>1, <1>2, <1>3, Invariant, PTL DEF Spec

-----------------------------------------------------------------------------
(* Data and journal.                                                       *)

(* The sectors of a block in work are sectors of the device, undecided if  *)
(* there is a journal, and no more than a block has.                       *)
LEMMA BlockOfTask ==
  ASSUME IndInv, InTask
  PROVE  /\ Block \subseteq Lbas
         /\ lba_to_read \in Lbas
         /\ sectors_to_read \in 1 .. SectorsAtOnce
         /\ Cardinality(Block) = sectors_to_read
         /\ use_journal /\ pc # "update" => \A l \in Block : journal[l] = "Unread"
<1> DEFINE zone == unread_zones[current_zone]
<1>1. /\ zone \in Zone /\ zone.begin_lba < zone.end_lba
      /\ sectors_to_read = BlockSize(zone)
      /\ sectors_to_read \in Nat /\ sectors_to_read > 0
      /\ Block \subseteq UnreadSectors(unread_zones)
      /\ Cardinality(Block) = sectors_to_read
  BY CurrentBlock
<1>2. Block \subseteq Lbas
  <2>1. UnreadSectors(unread_zones) \subseteq 0 .. EndLba - 1
    BY ListFacts, UnreadFinite
  <2> QED
    BY <1>1, <2>1 DEF Lbas
<1>3. lba_to_read \in Lbas
  <2>1. lba_to_read \in Nat
    BY DEF IndInv, TypeOK
  <2>2. lba_to_read \in Block
    BY <1>1, <2>1 DEF Block
  <2> QED
    BY <1>2, <2>2
<1>4. sectors_to_read <= SectorsAtOnce
  BY <1>1, SectorsAtOnceAssumption DEF BlockSize, ZoneLength, Zone
<1>5. ASSUME use_journal, pc # "update", NEW l \in Block
      PROVE  journal[l] = "Unread"
  BY <1>1, <1>2, <1>5 DEF IndInv, JournalMatchesZones, InSession, InTask
<1> QED
  BY <1>1, <1>2, <1>3, <1>4, <1>5, SectorsAtOnceAssumption

(* The posix API without faults of the destination: a read fills the buffer *)
(* or fails, and a write takes the whole block.                            *)
FaultFree == ReadResults \subseteq {"ok", "failed"} /\ ~WriteFaults

LEMMA InitDelivery == Init => DeliveryInv
BY DEF Init, DeliveryInv, ReadOkIsCopied

(* Steps that leave the journal and the destination alone, and bring no    *)
(* block to where it is written or recorded.                               *)
LEMMA KeepsDelivery ==
  ASSUME DeliveryInv, UNCHANGED <<journal, dst>>, pc' \notin {"write", "journal"}
  PROVE  DeliveryInv'
BY DEF DeliveryInv, ReadOkIsCopied

LEMMA WriteDelivers ==
  ASSUME IndInv, DeliveryInv, FaultFree, Write
  PROVE  /\ \A l \in Lbas : dst'[l] = IF l \in Block THEN "good" ELSE dst[l]
         /\ UNCHANGED <<journal, task, error_flag>>
<1>1. PutSectors(sectors_to_read) /\ buf_fresh
  BY DEF Write, FaultFree, DeliveryInv
<1> QED
  BY <1>1 DEF PutSectors, Write, Block

LEMMA DeliveryStep == IndInv /\ DeliveryInv /\ FaultFree /\ [Next]_vars => DeliveryInv'
<1> SUFFICES ASSUME IndInv, DeliveryInv, FaultFree, [Next]_vars PROVE DeliveryInv'
  OBVIOUS
<1>1. CASE Open
  BY <1>1, KeepsDelivery
  DEF Open, OpenRefused, OpenWithoutJournal, OpenNewJournal, OpenJournal, OpenContext, persistent
<1>2. CASE FillJournal \/ ScanSector \/ ScanEnd
  BY <1>2, KeepsDelivery DEF FillJournal, ScanSector, ScanEnd, persistent
<1>3. CASE GetTask \/ NoTask \/ RefuseBlock
  BY <1>3, KeepsDelivery DEF GetTask, NoTask, RefuseBlock, Return, MorePending, persistent
<1>4. CASE \E how \in ReadResults : Read(how)
  <2>1. PICK how \in {"ok", "failed"} : Read(how)
    BY <1>4 DEF FaultFree
  <2>2. /\ UNCHANGED <<journal, dst>>
        /\ error_flag' = (how = "failed") /\ buf_fresh' = (how = "ok")
        /\ pc' = IF how = "failed" THEN RecordNext ELSE "write"
    BY <2>1 DEF Read, persistent
  <2>3. CASE how = "ok"
    BY <2>2, <2>3 DEF DeliveryInv, ReadOkIsCopied
  <2>4. CASE how = "failed"
    BY <2>2, <2>4 DEF DeliveryInv, ReadOkIsCopied, RecordNext
  <2> QED
    BY <2>1, <2>3, <2>4
<1>5. CASE Write
  <2>1. /\ \A l \in Lbas : dst'[l] = IF l \in Block THEN "good" ELSE dst[l]
        /\ UNCHANGED <<journal, task, error_flag>>
    BY <1>5, WriteDelivers
  <2>2. Block \subseteq Lbas /\ Block' = Block
    BY <1>5, <2>1, BlockOfTask DEF Write, InTask, Block, task
  <2>3. ReadOkIsCopied'
    BY <2>1 DEF DeliveryInv, ReadOkIsCopied
  <2>4. \A l \in Block' : dst'[l] = "good"
    BY <2>1, <2>2
  <2>5. pc' # "write"
    BY <1>5 DEF Write, RecordNext
  <2> QED
    BY <2>3, <2>4, <2>5 DEF DeliveryInv
<1>6. CASE WriteJournal
  <2>1. /\ \A l \in Lbas : journal'[l] = IF l \in Block THEN RecordedStatus ELSE journal[l]
        /\ UNCHANGED dst /\ pc = "journal" /\ pc' = "update"
    BY <1>6 DEF WriteJournal
  <2>2. RecordedStatus = "ReadOk" => ~error_flag
    BY DEF RecordedStatus
  <2>3. ReadOkIsCopied'
    BY <2>1, <2>2 DEF DeliveryInv, ReadOkIsCopied
  <2> QED
    BY <2>1, <2>3 DEF DeliveryInv
<1>7. CASE UseResults \/ Callback \/ LoopFinished \/ LoopInterrupted
  BY <1>7, KeepsDelivery
  DEF UseResults, Return, Callback, LoopFinished, LoopInterrupted, persistent
<1>8. CASE JumpAssertionFails \/ Close \/ Crash
  BY <1>8, KeepsDelivery DEF JumpAssertionFails, Close, Crash, EndSession, persistent
<1>9. CASE UNCHANGED vars
  BY <1>9 DEF vars, persistent, outcome, task, DeliveryInv, ReadOkIsCopied, Block
<1> QED
  BY <1>1, <1>2, <1>3, <1>4, <1>5, <1>6, <1>7, <1>8, <1>9 DEF Next, SessionStep, Perform

LEMMA DeliveryInvariant ==
  ASSUME FaultFree
  PROVE  Spec => []DeliveryInv
<1>1. Init => DeliveryInv
  BY InitDelivery
<1>2. IndInv /\ DeliveryInv /\ [Next]_vars => DeliveryInv'
  BY DeliveryStep
<1> QED
  BY <1>1, <1>2, Invariant, PTL DEF Spec

(* What the journal calls read is on the destination, at every moment at   *)
(* which the process may die: the block is written before it is recorded   *)
(* (copy.c:222-238).                                                       *)
THEOREM JournaledDataIsCopied ==
  ASSUME ReadResults \subseteq {"ok", "failed"}, ~WriteFaults
  PROVE  Spec => []ReadOkIsCopied
<1>1. FaultFree
  BY DEF FaultFree
<1>2. Spec => []DeliveryInv
  BY <1>1, DeliveryInvariant
<1>3. DeliveryInv => ReadOkIsCopied
  BY DEF DeliveryInv
<1> QED
  BY <1>2, <1>3, PTL

-----------------------------------------------------------------------------
(* The refinement.                                                         *)

Delivered == { l \in Lbas : dst[l] = "good" }

LEMMA LedgerInit == Init => Ledger!Init
BY DEF Init, Ledger!Init, Ledger!Sectors, Lbas

(* The ledger counts the sectors of a block as the copy does.              *)
LEMMA LedgerCounts == \A S : Ledger!Cardinality(S) = Cardinality(S)
BY DEF Ledger!Cardinality, Cardinality

(* The block in work is one of the ledger's blocks.                        *)
LEMMA BlockOfLedger ==
  ASSUME IndInv, InTask
  PROVE  Block \in Ledger!Blocks /\ Block \subseteq Ledger!Sectors
<1>1. /\ lba_to_read \in Ledger!Sectors /\ sectors_to_read \in 1 .. SectorsAtOnce
      /\ Block \subseteq Ledger!Sectors
  BY BlockOfTask DEF Ledger!Sectors, Lbas
<1> QED
  BY <1>1 DEF Block, Ledger!Blocks

(* Every step of the copy is a step of the ledger or leaves it alone: Write *)
(* delivers the block, WriteJournal decides on it.                         *)
LEMMA LedgerStep ==
  IndInv /\ DeliveryInv /\ FaultFree /\ [Next]_vars
    => [Ledger!Next]_<<journal, Delivered>>
<1> SUFFICES ASSUME IndInv, DeliveryInv, FaultFree, [Next]_vars
             PROVE  Ledger!Next \/ UNCHANGED <<journal, Delivered>>
  BY DEF Delivered
<1>1. CASE Write
  <2>1. /\ \A l \in Lbas : dst'[l] = IF l \in Block THEN "good" ELSE dst[l]
        /\ UNCHANGED journal
    BY <1>1, WriteDelivers
  <2>2. InTask
    BY <1>1 DEF Write, InTask
  <2>3. Block \subseteq Lbas
    BY <2>2, BlockOfTask
  <2>4. Delivered' = Delivered \cup Block
    BY <2>1, <2>3 DEF Delivered
  <2>5. Ledger!Deliver(Block)
    BY <2>1, <2>2, <2>4, BlockOfLedger DEF Ledger!Deliver, Delivered
  <2> QED
    BY <2>2, <2>5, BlockOfLedger DEF Ledger!Next, Ledger!Deliver
<1>2. CASE WriteJournal
  <2>1. /\ journal' = [l \in Lbas |-> IF l \in Block THEN RecordedStatus ELSE journal[l]]
        /\ UNCHANGED dst /\ pc = "journal"
    BY <1>2 DEF WriteJournal
  <2>2. InTask /\ use_journal
    BY <2>1 DEF InTask, IndInv, PhaseInv
  <2>3. \A l \in Block : journal[l] = "Unread"
    BY <2>1, <2>2, BlockOfTask
  <2>4. RecordedStatus \in {"ReadOk", "BlockReadError", "SectorReadError"}
    BY DEF RecordedStatus
  <2>5. Ledger!VerdictFits(Block, RecordedStatus)
    <3>1. Block \subseteq Lbas /\ Cardinality(Block) = sectors_to_read
          /\ sectors_to_read \in 1 .. SectorsAtOnce
      BY <2>2, BlockOfTask
    <3>2. CASE ~error_flag
      <4>1. Block \subseteq Delivered
        BY <2>1, <3>1, <3>2 DEF Delivered, DeliveryInv
      <4> QED
        BY <3>2, <4>1 DEF RecordedStatus, Ledger!VerdictFits, Delivered
    <3>3. CASE error_flag
      BY <3>1, <3>3, SectorsAtOnceAssumption, LedgerCounts
      DEF RecordedStatus, Ledger!VerdictFits
    <3> QED
      BY <3>2, <3>3
  <2>6. Ledger!Decide(Block, RecordedStatus)
    BY <2>1, <2>2, <2>3, <2>5, BlockOfLedger DEF Ledger!Decide, Ledger!Sectors, Lbas
  <2> QED
    BY <2>2, <2>4, <2>6, BlockOfLedger DEF Ledger!Next
<1>3. CASE ~Write /\ ~WriteJournal
  <2>1. UNCHANGED <<journal, dst>>
    BY <1>3
    DEF Next, Open, OpenRefused, OpenWithoutJournal, OpenNewJournal, OpenJournal,
        OpenContext, SessionStep, FillJournal, ScanSector, ScanEnd, Perform, GetTask,
        NoTask, JumpAssertionFails, RefuseBlock, Read, UseResults, Callback, LoopFinished,
        LoopInterrupted, Close, Crash, EndSession, vars, persistent
  <2> QED
    BY <2>1 DEF Delivered
<1> QED
  BY <1>1, <1>2, <1>3

(* The journaled copy implements the ledger: over all sessions, crashes    *)
(* and resumes, with and without the journal, a verdict is given to a      *)
(* block at once, never revised, and "ReadOk" only to delivered sectors.   *)
THEOREM CopyImplementsLedger ==
  ASSUME ReadResults \subseteq {"ok", "failed"}, ~WriteFaults
  PROVE  Spec => LedgerSpec
<1>1. FaultFree
  BY DEF FaultFree
<1>2. Spec => []DeliveryInv
  BY <1>1, DeliveryInvariant
<1>3. Init => Ledger!Init
  BY LedgerInit
<1>4. IndInv /\ DeliveryInv /\ [Next]_vars => [Ledger!Next]_<<journal, Delivered>>
  BY <1>1, LedgerStep
<1> QED
  BY <1>2, <1>3, <1>4, Invariant, PTL DEF Spec, LedgerSpec, Ledger!Spec, Delivered

=============================================================================
