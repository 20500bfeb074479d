------------------------------ MODULE WholeSpace ------------------------------
(***************************************************************************)
(* The whole space renderer (src/cui/whole_space_renderer.c) on top of the *)
(* copy procedure it draws: one byte per block of the device and three     *)
(* counters of sectors, seeded from the journal when the renderer opens    *)
(* and brought up to date by the report of every block.                    *)
(*                                                                         *)
(* A report is shown in the step of the callback that hands it over: that  *)
(* every report is rendered once, in order and before the session closes   *)
(* is the concern of the module Session.                                   *)
(***************************************************************************)
EXTENDS Copy

CONSTANTS
  VisCells,      \* vis_height * vis_width
  CountModulus   \* 2^64: the counters are uint64_t

ASSUME VisCellsAssumption == VisCells \in Nat \ {0}
\* A device has at most 2^55 sectors: its size in bytes has 64 bits, too.
ASSUME CountModulusAssumption == CountModulus \in Nat /\ CountModulus > 3 * EndLba

VARIABLES
  display,       \* the renderer is open
  blocks_map, unread_count, read_ok_count, errors_count,
  straddled      \* a block recorded began inside a block of the map (history)

displayVars == <<display, blocks_map, unread_count, read_ok_count, errors_count>>
allVars == <<vars, displayVars, straddled>>

RoundedUp(a, b) == (a \div b) + (IF a % b = 0 THEN 0 ELSE 1)

nb_blocks == RoundedUp(EndLba, SectorsAtOnce)
MapBlocks == 0 .. nb_blocks - 1
MapBlock(lba) == lba \div SectorsAtOnce

\* Mutant of Wrapped: as if the counters were signed.
WrappedNever(count) == count
Wrapped(count) == count % CountModulus

NoDisplay ==
  /\ display = FALSE /\ blocks_map = [i \in MapBlocks |-> "Unread"]
  /\ unread_count = 0 /\ read_ok_count = 0 /\ errors_count = 0

DisplayInit == Init /\ NoDisplay /\ straddled = FALSE

-----------------------------------------------------------------------------
(* Open                                                                    *)

\* Mutant of SampledStatus: the block's number for its first sector.
SampledByNumber(i) == journal[i]

(* The journal's status of a block of the map is that of its first sector. *)
SampledStatus(i) == journal[i * SectorsAtOnce]

(* The last block gets what is left of the device by the size of a block,  *)
(* nothing when that comes out even.                                       *)
LastBlock == nb_blocks - 1
SectorsInLast == EndLba % SectorsAtOnce

(* What the blocks of a set add to a counter.                              *)
SectorsOf(blocks) ==
  Cardinality(blocks \ {LastBlock}) * SectorsAtOnce
    + IF LastBlock \in blocks THEN SectorsInLast ELSE 0

\* Mutant of SeededUnread: the count is not reset before it is added up.
SeededOnDen(blocks) == den + SectorsOf(blocks)
SeededUnread(blocks) == SectorsOf(blocks)

(* dc_procedure_open has returned, the loop has not begun.                 *)
OpenDisplay ==
  /\ pc = "loop" /\ ~display
  /\ display' = TRUE
  /\ IF use_journal
     THEN /\ blocks_map' = [i \in MapBlocks |-> SampledStatus(i)]
          /\ unread_count' =
               SeededUnread({ i \in MapBlocks : SampledStatus(i) = "Unread" })
          /\ read_ok_count' =
               SectorsOf({ i \in MapBlocks : SampledStatus(i) = "ReadOk" })
          /\ errors_count' =
               SectorsOf({ i \in MapBlocks : Defective(SampledStatus(i)) })
     ELSE /\ blocks_map' = [i \in MapBlocks |-> "Unread"]
          /\ unread_count' = den /\ read_ok_count' = 0 /\ errors_count' = 0
  /\ UNCHANGED <<vars, straddled>>

-----------------------------------------------------------------------------
(* HandleReport and the render thread                                      *)

\* Mutant of ErrorsCounted: a failed block counts as one.
ErrorsCountedByBlock(n) == IF Failed THEN errors_count + 1 ELSE errors_count
ErrorsCounted(n) == IF Failed THEN errors_count + n ELSE errors_count

(* update_blocks_info for ctx->report, whichever block it is of.           *)
UpdateBlocksInfo ==
  LET n == report.sectors_processed IN
  /\ blocks_map' = [blocks_map EXCEPT ![MapBlock(report.lba)] =
                      IF Failed THEN "BlockReadError" ELSE "ReadOk"]
  /\ errors_count' = ErrorsCounted(n)
  /\ read_ok_count' = IF Failed THEN read_ok_count ELSE read_ok_count + n
  /\ unread_count' = Wrapped(unread_count - n)
  /\ UNCHANGED <<display, straddled>>

(* render_map: a cell stands for several blocks of the map.                *)
blocks_per_vis == RoundedUp(nb_blocks, VisCells)
Cells == { i \div blocks_per_vis : i \in MapBlocks }
BlocksOfCell(c) == { i \in MapBlocks : i \div blocks_per_vis = c }
CellShows(c) ==
  IF \E i \in BlocksOfCell(c) : blocks_map[i] = "BlockReadError" THEN "read errors"
  ELSE IF \E i \in BlocksOfCell(c) : blocks_map[i] = "Unread" THEN "unread space"
  ELSE "copied space"

-----------------------------------------------------------------------------
(* Close, or the process is gone.                                          *)
CloseDisplay ==
  /\ display' = FALSE /\ blocks_map' = [i \in MapBlocks |-> "Unread"]
  /\ unread_count' = 0 /\ read_ok_count' = 0 /\ errors_count' = 0
  /\ UNCHANGED straddled

NextStraddled ==
  straddled' = (straddled \/ (pc' = "read" /\ use_journal
                              /\ lba_to_read' % SectorsAtOnce # 0))

OpeningStep ==
  /\ ~display
  /\ Open \/ FillJournal \/ ScanSector \/ ScanEnd
  /\ UNCHANGED <<displayVars, straddled>>

LoopStep ==
  /\ display
  /\ Perform \/ LoopFinished \/ LoopInterrupted
  /\ pc' # "closed"
  /\ NextStraddled
  /\ UNCHANGED displayVars

ShowReport == Callback /\ UpdateBlocksInfo

EndStep == (Close \/ Crash \/ (display /\ JumpAssertionFails)) /\ CloseDisplay

DisplayNext == OpeningStep \/ OpenDisplay \/ LoopStep \/ ShowReport \/ EndStep

DisplaySpec == DisplayInit /\ [][DisplayNext]_allVars
=============================================================================
