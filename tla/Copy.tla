-------------------------------- MODULE Copy --------------------------------
(***************************************************************************)
(* The device-copying procedure of libdevcheck (copy.c with the read       *)
(* strategies of copy_read_strategies.c), run by the perform loop of       *)
(* procedure.c, over any number of sessions: each session opens the        *)
(* procedure with a strategy, with or without a journal, and ends because  *)
(* everything is processed, because the user interrupts it, because        *)
(* Perform returns non-zero, because an assertion fails or because the     *)
(* process dies.  The journal file and the destination outlive a session;  *)
(* everything else is lost with it.                                        *)
(*                                                                         *)
(* Data is abstracted to what the properties tell apart: a sector of the   *)
(* destination holds nothing of this copy ("none"), the data of the source *)
(* sector ("good") or the leftovers of an earlier block ("bad").           *)
(***************************************************************************)
EXTENDS CopyZones, FiniteSets

CONSTANTS
  EndLba,        \* dev->capacity / 512
  Strategies,    \* the strategies the user may pick
  JournalModes,  \* the values of use_journal the user may pick
  SkipChoices,   \* the values of skip_blocks the user may pick; a negative
                 \* one jumps behind the zone as 0 does: JumpAssertionFails
  JournalChunk,  \* bytes of a new journal written by one write()
  DstSizes,      \* sectors the destination may have before the first session
  DstGrows,      \* TRUE for a generic file, FALSE for a device or /dev/null
  ReadResults,   \* outcomes of reading a block, see Read below
  WriteFaults,   \* whether write() to the destination may fall short
  Crashes        \* whether the process may die

ASSUME EndLbaAssumption == EndLba \in Nat \ {0}
ASSUME StrategiesAssumption == Strategies \subseteq ReadStrategies
ASSUME JournalModesAssumption == JournalModes \subseteq BOOLEAN
ASSUME JournalChunkAssumption == JournalChunk \in Nat \ {0}
ASSUME SkipChoicesAssumption == SkipChoices \subseteq Nat
ASSUME DstAssumption == DstSizes \subseteq Nat /\ DstGrows \in BOOLEAN
ASSUME ReadResultsAssumption ==
  ReadResults \subseteq {"ok", "failed", "ioctl_failed", "host_failed"}
ASSUME FaultsAssumption == WriteFaults \in BOOLEAN /\ Crashes \in BOOLEAN

Lbas == 0 .. EndLba - 1
SectorStatus == {"Unread", "ReadOk", "BlockReadError", "SectorReadError"}
Defective(status) == status \in {"BlockReadError", "SectorReadError"}

VARIABLES
  \* outliving the process
  journal,      \* status byte of every sector in the journal file
  journal_len,  \* size of the journal file, -1 when there is none
  dst,          \* what each sector of the destination holds
  dst_len,      \* size of the destination in sectors
  \* the session, with the local variables of Open and Perform
  pc,           \* where the perform loop is
  result,       \* how the last session ended
  read_strategy, use_journal, skip_blocks, dst_file_end_lba,
  unread_zones, current_zone, reversive, stage,
  num, den,     \* ctx->progress
  scan_lba, scan_begin, scan_defective,  \* parsing the journal in Open
  lba_to_read, sectors_to_read, error_flag, perform_ret,
  buf_fresh,    \* priv->buf holds the data of the block being read
  report,       \* ctx->report
  handled       \* sectors that the callback has counted from reports

persistent == <<journal, journal_len, dst, dst_len>>
config == <<read_strategy, use_journal, skip_blocks, dst_file_end_lba>>
zoneVars == <<unread_zones, current_zone, reversive, stage>>
progress == <<num, den>>
scanVars == <<scan_lba, scan_begin, scan_defective>>
task == <<lba_to_read, sectors_to_read>>
outcome == <<error_flag, perform_ret, buf_fresh, report>>
vars == <<persistent, pc, result, config, zoneVars, progress, scanVars, task,
          outcome, handled>>

Report == [lba : Nat, sectors_processed : Nat, blk_status : {"eOk", "eError"}]
EmptyReport == [lba |-> 0, sectors_processed |-> 0, blk_status |-> "eOk"]

(* The sectors of the block being processed.                               *)
Block == lba_to_read .. lba_to_read + sectors_to_read - 1

(* The context as dc_procedure_open allocates it: calloc, all zero.        *)
NoSession ==
  /\ read_strategy = "none" /\ use_journal = FALSE /\ skip_blocks = 0
  /\ dst_file_end_lba = 0
  /\ unread_zones = <<>> /\ current_zone = 0 /\ reversive = FALSE /\ stage = 0
  /\ num = 0 /\ den = 0
  /\ scan_lba = 0 /\ scan_begin = -1 /\ scan_defective = FALSE
  /\ lba_to_read = 0 /\ sectors_to_read = 0
  /\ error_flag = FALSE /\ perform_ret = 0 /\ buf_fresh = FALSE
  /\ report = EmptyReport
  /\ handled = 0

Init ==
  /\ journal = [l \in Lbas |-> "Unread"] /\ journal_len = -1
  /\ dst = [l \in Lbas |-> "none"] /\ dst_len \in DstSizes
  /\ pc = "closed" /\ result = "none"
  /\ NoSession

(* The process or the context is gone, files stay as they are.             *)
EndSession(how) ==
  /\ pc' = "closed" /\ result' = how
  /\ read_strategy' = "none" /\ use_journal' = FALSE /\ skip_blocks' = 0
  /\ dst_file_end_lba' = 0
  /\ unread_zones' = <<>> /\ current_zone' = 0 /\ reversive' = FALSE /\ stage' = 0
  /\ num' = 0 /\ den' = 0
  /\ scan_lba' = 0 /\ scan_begin' = -1 /\ scan_defective' = FALSE
  /\ lba_to_read' = 0 /\ sectors_to_read' = 0
  /\ error_flag' = FALSE /\ perform_ret' = 0 /\ buf_fresh' = FALSE
  /\ report' = EmptyReport
  /\ handled' = 0
  /\ UNCHANGED persistent

-----------------------------------------------------------------------------
(* Open                                                                    *)

(* The part of Open before the journal: strategy and destination size.     *)
(* skip_blocks is an option of every session that only skipfail looks at.  *)
OpenContext(s, uj) ==
  /\ pc = "closed"
  /\ read_strategy' = s /\ use_journal' = uj
  /\ skip_blocks' \in IF s \in SkipfailStrategies THEN SkipChoices ELSE {0}
  /\ dst_file_end_lba' = dst_len
  /\ result' = "none"
  /\ UNCHANGED <<journal, dst, dst_len, current_zone, reversive, stage, num,
                 scanVars, task, outcome, handled>>

OpenWithoutJournal(s) ==
  /\ FALSE \in JournalModes
  /\ OpenContext(s, FALSE)
  /\ unread_zones' = <<FreshZone(0, EndLba)>> /\ den' = EndLba
  /\ pc' = "loop"
  /\ UNCHANGED journal_len

OpenNewJournal(s) ==
  /\ TRUE \in JournalModes /\ journal_len = -1
  /\ OpenContext(s, TRUE)
  /\ unread_zones' = <<FreshZone(0, EndLba)>> /\ den' = EndLba
  /\ journal_len' = 0
  /\ pc' = "create"

\* Mutant of OpenJournal: progress.den is not reset before the parse.
OpenJournalKeepsDen(s) ==
  /\ TRUE \in JournalModes /\ journal_len = EndLba
  /\ OpenContext(s, TRUE)
  /\ unread_zones' = <<>> /\ den' = EndLba
  /\ pc' = "scan"
  /\ UNCHANGED journal_len

OpenJournal(s) ==
  /\ TRUE \in JournalModes /\ journal_len = EndLba
  /\ OpenContext(s, TRUE)
  /\ unread_zones' = <<>> /\ den' = 0
  /\ pc' = "scan"
  /\ UNCHANGED journal_len

(* "Wrong size of journal file": Open fails, the session never starts.     *)
OpenRefused ==
  /\ pc = "closed"
  /\ TRUE \in JournalModes /\ journal_len \notin {-1, EndLba}
  /\ result' = "open_failed"
  /\ UNCHANGED <<persistent, pc, config, zoneVars, progress, scanVars, task,
                 outcome, handled>>

Open == OpenRefused \/ \E s \in Strategies :
          OpenWithoutJournal(s) \/ OpenNewJournal(s) \/ OpenJournal(s)

(* One write() of zero bytes to the new journal.  A failed assertion on    *)
(* its result is a Crash.                                                  *)
FillJournal ==
  /\ pc = "create"
  /\ journal_len' = IF journal_len + JournalChunk < EndLba
                    THEN journal_len + JournalChunk ELSE EndLba
  /\ pc' = IF journal_len' = EndLba THEN "loop" ELSE "create"
  /\ UNCHANGED <<journal, dst, dst_len, result, config, zoneVars, progress,
                 scanVars, task, outcome, handled>>

\* Mutant of AppendZone: the sectors are not added to progress.den.
AppendZoneUncounted(e, defective) ==
  /\ unread_zones' = Append(unread_zones,
       [begin_lba |-> scan_begin, end_lba |-> e,
        begin_lba_defective |-> scan_defective,
        end_lba_defective |-> defective])
  /\ den' = den
  /\ scan_begin' = -1 /\ scan_defective' = FALSE

(* The parsed zone joins the list, its sectors join the work to do.        *)
AppendZone(e, defective) ==
  /\ unread_zones' = Append(unread_zones,
       [begin_lba |-> scan_begin, end_lba |-> e,
        begin_lba_defective |-> scan_defective,
        end_lba_defective |-> defective])
  /\ den' = den + (e - scan_begin)
  /\ scan_begin' = -1 /\ scan_defective' = FALSE

(* One iteration of the loop over the journal's status bytes.              *)
ScanSector ==
  /\ pc = "scan" /\ scan_lba < EndLba
  /\ scan_lba' = scan_lba + 1
  /\ \/ /\ journal[scan_lba] = "Unread" /\ scan_begin = -1
        /\ scan_begin' = scan_lba
        /\ scan_defective' = (scan_lba > 0 /\ Defective(journal[scan_lba - 1]))
        /\ UNCHANGED <<unread_zones, den>>
     \/ /\ journal[scan_lba] # "Unread" /\ scan_begin # -1
        /\ AppendZone(scan_lba, Defective(journal[scan_lba]))
     \/ /\ (journal[scan_lba] = "Unread") = (scan_begin # -1)
        /\ UNCHANGED <<scan_begin, scan_defective, unread_zones, den>>
  /\ UNCHANGED <<persistent, pc, result, config, current_zone, reversive, stage,
                 num, task, outcome, handled>>

(* The zone that reaches the end of the disk, and the return from Open.    *)
ScanEnd ==
  /\ pc = "scan" /\ scan_lba = EndLba
  /\ IF scan_begin # -1
     THEN AppendZone(EndLba, FALSE)
     ELSE UNCHANGED <<scan_begin, scan_defective, unread_zones, den>>
  /\ scan_lba' = 0
  /\ pc' = "loop"
  /\ UNCHANGED <<persistent, result, config, current_zone, reversive, stage,
                 num, task, outcome, handled>>

-----------------------------------------------------------------------------
(* Perform: choosing a task                                                *)

\* Mutant of GiveTask: the read direction is left as it was.
GiveTaskOldDirection(z, i, rev) ==
  /\ unread_zones' = z /\ current_zone' = i /\ reversive' = reversive
  /\ lba_to_read' = BlockStart(z[i], rev)
  /\ sectors_to_read' = BlockSize(z[i])

(* The strategy settles on zone i of the list z and a direction.           *)
GiveTask(z, i, rev) ==
  /\ unread_zones' = z /\ current_zone' = i /\ reversive' = rev
  /\ lba_to_read' = BlockStart(z[i], rev)
  /\ sectors_to_read' = BlockSize(z[i])

ProceedCurrent == GiveTask(unread_zones, current_zone, reversive)

PlainGetTask ==
  /\ read_strategy = "plain"
  /\ GiveTask(unread_zones, 1, reversive)
  /\ UNCHANGED stage

(* The largest zone is big enough and the list short enough for a split.   *)
MaySplit(zone) ==
  ZoneLength(zone) > IndivisibleZone /\ Len(unread_zones) < MaxZones

(* The split happens in the middle of the largest zone, then the first     *)
(* processable zone is searched again; the new half is one, so the search  *)
(* cannot fail.                                                            *)
SmartSplit ==
  \E i \in DOMAIN unread_zones :
    LET half == ZoneLength(unread_zones[i]) \div 2
        at == JumpTarget(unread_zones[i], half)
        z == Split(unread_zones, i, at)
    IN /\ Largest(unread_zones, i)
       /\ MaySplit(unread_zones[i])
       /\ \E k \in DOMAIN z, rev \in BOOLEAN :
            FirstProcessable(read_strategy, z, k, rev) /\ GiveTask(z, k, rev)
       /\ UNCHANGED stage

(* No zone may be split any more: read what is left from the beginning.    *)
SmartGoSequential ==
  \E i \in DOMAIN unread_zones :
    /\ Largest(unread_zones, i)
    /\ ~MaySplit(unread_zones[i])
    /\ stage' = 1
    /\ GiveTask(unread_zones, 1, FALSE)

SmartGetTask ==
  /\ read_strategy \in SmartStrategies
  /\ \/ current_zone # 0 /\ ProceedCurrent /\ UNCHANGED stage
     \/ /\ current_zone = 0 /\ stage = 1
        /\ GiveTask(unread_zones, 1, FALSE) /\ UNCHANGED stage
     \/ /\ current_zone = 0 /\ stage = 0
        /\ \E i \in DOMAIN unread_zones, rev \in BOOLEAN :
             /\ FirstProcessable(read_strategy, unread_zones, i, rev)
             /\ GiveTask(unread_zones, i, rev)
        /\ UNCHANGED stage
     \/ /\ current_zone = 0 /\ stage = 0
        /\ \A i \in DOMAIN unread_zones :
             ~Processable(read_strategy, unread_zones[i])
        /\ SmartSplit \/ SmartGoSequential

SkipSectors == skip_blocks * SectorsAtOnce

SkipfailGetTask ==
  /\ read_strategy \in SkipfailStrategies
  /\ UNCHANGED stage
  /\ \/ current_zone # 0 /\ ProceedCurrent
     \/ /\ current_zone = 0
        /\ \E i \in DOMAIN unread_zones :
             LET z == unread_zones
                 at == JumpTarget(z[i], SkipSectors)
             IN /\ FirstTaken(read_strategy, SkipSectors, z, i)
                /\ \/ SkipfailForward(z, i) /\ GiveTask(z, i, FALSE)
                   \/ SkipfailReverse(read_strategy, z, i) /\ GiveTask(z, i, TRUE)
                   \/ /\ SkipfailJump(read_strategy, SkipSectors, z, i)
                      /\ SplitsInside(z[i], at)
                      /\ IF NoReverse(read_strategy)
                         THEN GiveTask(Split(z, i, at), i + 1, FALSE)
                         ELSE GiveTask(Split(z, i, at), i, TRUE)

(* The loop head lets one more Perform start.                              *)
MorePending == pc = "loop" /\ num < den

GetTask ==
  /\ MorePending
  /\ PlainGetTask \/ SmartGetTask \/ SkipfailGetTask
  /\ pc' = "read"
  /\ UNCHANGED <<persistent, result, config, progress, scanVars, outcome,
                 handled>>

(* Perform returns r, its local variables are gone.                        *)
Return(r) ==
  /\ perform_ret' = r
  /\ pc' = "callback"
  /\ lba_to_read' = 0 /\ sectors_to_read' = 0
  /\ error_flag' = FALSE /\ buf_fresh' = FALSE

(* skipfail_get_task returns 1: no zone is worth a jump.  Perform returns  *)
(* at once, with the report as the previous call left it.                  *)
NoTask ==
  /\ MorePending
  /\ read_strategy \in SkipfailStrategies /\ current_zone = 0
  /\ \A i \in DOMAIN unread_zones :
       ~SkipfailTakes(read_strategy, SkipSectors, unread_zones, i)
  /\ Return(1)
  /\ UNCHANGED <<persistent, result, config, zoneVars, progress, scanVars,
                 report, handled>>

(* The assertion of the jump fails, abort() ends the process.              *)
JumpAssertionFails ==
  /\ MorePending
  /\ read_strategy \in SkipfailStrategies /\ current_zone = 0
  /\ \E i \in DOMAIN unread_zones :
       /\ FirstTaken(read_strategy, SkipSectors, unread_zones, i)
       /\ SkipfailJump(read_strategy, SkipSectors, unread_zones, i)
       /\ ~SplitsInside(unread_zones[i],
                        JumpTarget(unread_zones[i], SkipSectors))
  /\ EndSession("aborted")

-----------------------------------------------------------------------------
(* Perform: transferring the block                                         *)

BeyondDst ==
  dst_file_end_lba > 0 /\ lba_to_read + sectors_to_read > dst_file_end_lba

(* The destination is too small for the block: Perform returns before it   *)
(* touches the report.                                                     *)
RefuseBlock ==
  /\ pc = "read" /\ BeyondDst
  /\ Return(1)
  /\ UNCHANGED <<persistent, result, config, zoneVars, progress, scanVars,
                 report, handled>>

RecordNext == IF use_journal THEN "journal" ELSE "update"

\* Mutant of ReportOf: a failed block counts as no sectors.
ReportOfReadOnly(how) ==
  [lba |-> lba_to_read,
   sectors_processed |-> IF how = "failed" THEN 0 ELSE sectors_to_read,
   blk_status |-> IF how = "failed" THEN "eError" ELSE "eOk"]

ReportOf(how) ==
  [lba |-> lba_to_read, sectors_processed |-> sectors_to_read,
   blk_status |-> IF how = "failed" THEN "eError" ELSE "eOk"]

(* One read of the block.  Outcomes:                                       *)
(*   ok            the whole block is in the buffer;                       *)
(*   failed        short read(), or a command with an error status;        *)
(*   ioctl_failed  ioctl() itself fails: the error status is overwritten   *)
(*                 by the status of the zeroed command header, which is Ok;*)
(*   host_failed   ioctl() succeeds, the transport reports a host error    *)
(*                 that scsi_ata_check_return_status does not look at.     *)
(* Only the first two exist with the posix API.                            *)
Read(how) ==
  /\ pc = "read" /\ ~BeyondDst
  /\ error_flag' = (how = "failed")
  /\ report' = ReportOf(how)
  /\ buf_fresh' = (how = "ok")
  /\ perform_ret' = IF how = "ioctl_failed" THEN 1 ELSE 0
  /\ pc' = IF how = "failed" THEN RecordNext ELSE "write"
  /\ UNCHANGED <<persistent, result, config, zoneVars, progress, scanVars, task,
                 handled>>

(* n sectors of the buffer reach the destination.                          *)
PutSectors(n) ==
  /\ dst' = [l \in Lbas |-> IF l \in lba_to_read .. lba_to_read + n - 1
                            THEN (IF buf_fresh THEN "good" ELSE "bad")
                            ELSE dst[l]]
  /\ dst_len' = IF DstGrows /\ n > 0 /\ lba_to_read + n > dst_len
                THEN lba_to_read + n ELSE dst_len
  /\ UNCHANGED <<journal, journal_len>>

Write ==
  /\ pc = "write"
  /\ \/ PutSectors(sectors_to_read) /\ UNCHANGED report
     \/ /\ WriteFaults
        /\ \E n \in 0 .. sectors_to_read - 1 : PutSectors(n)
        /\ report' = [report EXCEPT !.blk_status = "eError"]
  /\ pc' = RecordNext
  /\ UNCHANGED <<result, config, zoneVars, progress, scanVars, task, error_flag,
                 perform_ret, buf_fresh, handled>>

\* Mutants of RecordedStatus: the outcome is ignored, only successes are
\* recorded, a failed sector is not told from a failed block.
RecordedAlwaysOk == "ReadOk"
RecordedOnlySuccess == IF error_flag THEN "Unread" ELSE "ReadOk"
RecordedAnyBlock == IF error_flag THEN "BlockReadError" ELSE "ReadOk"

(* The status the block gets in the journal: by the read alone.            *)
RecordedStatus ==
  IF ~error_flag THEN "ReadOk"
  ELSE IF sectors_to_read = 1 THEN "SectorReadError" ELSE "BlockReadError"

WriteJournal ==
  /\ pc = "journal"
  /\ journal' = [l \in Lbas |-> IF l \in Block THEN RecordedStatus
                                ELSE journal[l]]
  /\ pc' = "update"
  /\ UNCHANGED <<journal_len, dst, dst_len, result, config, zoneVars, progress,
                 scanVars, task, outcome, handled>>

-----------------------------------------------------------------------------
(* Perform: using the results                                              *)

Failed == report.blk_status # "eOk"

\* Mutant of Rechoose: reading goes on next to the failure.
RechooseNever == FALSE

(* Whether use_results makes the strategy choose a zone anew.              *)
Rechoose ==
  Failed /\ ( \/ read_strategy \in SmartStrategies /\ stage = 0
              \/ read_strategy \in SkipfailStrategies )

\* Mutant of NextCurrent: the pointer to a removed zone stays.
NextCurrentDangling(zone) == IF Rechoose THEN 0 ELSE current_zone

NextCurrent(zone) == IF Empty(zone) \/ Rechoose THEN 0 ELSE current_zone

(* use_results returns non-zero: plain_update_zones only.                  *)
GivesUp == read_strategy = "plain" /\ Failed

UseResults ==
  /\ pc = "update"
  /\ LET zone == Trim(unread_zones[current_zone], reversive, sectors_to_read,
                      Failed)
     IN /\ unread_zones' = IF Empty(zone)
                           THEN RemoveAt(unread_zones, current_zone)
                           ELSE [unread_zones EXCEPT ![current_zone] = zone]
        /\ current_zone' = NextCurrent(zone)
  /\ num' = num + sectors_to_read
  /\ Return(IF GivesUp THEN 1 ELSE perform_ret)
  /\ UNCHANGED <<persistent, result, config, reversive, stage, den, scanVars,
                 report, handled>>

-----------------------------------------------------------------------------
(* The perform loop around Perform                                         *)

(* The callback hands ctx->report to the renderer, which counts it.        *)
Callback ==
  /\ pc = "callback"
  /\ handled' = handled + report.sectors_processed
  /\ pc' = IF perform_ret # 0 THEN "closing" ELSE "loop"
  /\ result' = IF perform_ret # 0 THEN "stopped" ELSE result
  /\ UNCHANGED <<persistent, config, zoneVars, progress, scanVars, task, outcome>>

\* Mutant of LoopFinished: the loop goes on when everything is done.
LoopFinishedLate ==
  /\ pc = "loop" /\ num > den
  /\ pc' = "closing" /\ result' = "finished"
  /\ UNCHANGED <<persistent, config, zoneVars, progress, scanVars, task, outcome,
                 handled>>

LoopFinished ==
  /\ pc = "loop" /\ num >= den
  /\ pc' = "closing" /\ result' = "finished"
  /\ UNCHANGED <<persistent, config, zoneVars, progress, scanVars, task, outcome,
                 handled>>

(* ctx->interrupt, set at any time, is looked at here only.                *)
LoopInterrupted ==
  /\ pc = "loop"
  /\ pc' = "closing" /\ result' = "interrupted"
  /\ UNCHANGED <<persistent, config, zoneVars, progress, scanVars, task, outcome,
                 handled>>

Close == pc = "closing" /\ EndSession(result)

(* The process dies; what it has written stays with the system.            *)
Crash == Crashes /\ pc # "closed" /\ EndSession("crashed")

-----------------------------------------------------------------------------
Perform ==
  \/ GetTask \/ NoTask \/ JumpAssertionFails \/ RefuseBlock
  \/ \E how \in ReadResults : Read(how)
  \/ Write \/ WriteJournal \/ UseResults

(* The steps a running session takes by itself.                            *)
SessionStep ==
  FillJournal \/ ScanSector \/ ScanEnd \/ Perform \/ Callback \/ LoopFinished
  \/ Close

Next == Open \/ SessionStep \/ LoopInterrupted \/ Crash

Spec == Init /\ [][Next]_vars

(* The thread that runs a session is scheduled, and its system calls       *)
(* return; in whdd a message of the log is a dialog (log_cb), which the    *)
(* user is taken to put away.                                              *)
FairSpec == Spec /\ WF_vars(SessionStep)
=============================================================================
