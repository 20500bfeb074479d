------------------------------ MODULE ReadTest ------------------------------
(***************************************************************************)
(* The read test of libdevcheck (read_test.c), run by the perform loop of  *)
(* procedure.c: a sequential scan of a range of sectors, block by block,   *)
(* by ATA READ VERIFY or by read(), that keeps the statistics and the list *)
(* of defect intervals which Close writes to the two report files.         *)
(*                                                                         *)
(* The access time of a block is abstracted to its tier: the number of     *)
(* thresholds of dc_get_vis_thresholds it is at or above.                  *)
(***************************************************************************)
EXTENDS Integers, Sequences, FiniteSets

CONSTANTS
  Capacity,      \* dev->capacity / 512
  KernelEnds,    \* the sizes, in sectors, the kernel may have for the device at Open
  AddressSpan,   \* 2^48: the LBA field of a command has six bytes
  Apis,          \* the values of api the user may pick
  Starts, Ends,  \* the values of start_lba and end_lba the user may enter
  BlockSizes,    \* the values of sectors_at_once
  TopTier,       \* DC_VIS_THRESHOLD_COUNT
  Failures,      \* the statuses of enum DC_BlockStatus a command can fail with
  CountModulus,  \* 2^16: the count field of a command has two bytes
  AllocFails,    \* whether realloc() may fail
  SaveFails      \* whether a report file or its directory may fail to open

ASSUME CapacityAssumption == Capacity \in Nat \ {0}
ASSUME KernelAssumption == KernelEnds \subseteq Nat
ASSUME AddressAssumption == AddressSpan \in Nat \ {0} /\ Capacity <= AddressSpan
ASSUME ApisAssumption == Apis \subseteq {"ata", "posix"}
ASSUME RangeAssumption == Starts \subseteq Int /\ Ends \subseteq Int
ASSUME BlockSizesAssumption == BlockSizes \subseteq Int
ASSUME TopTierAssumption == TopTier \in Nat \ {0}
ASSUME FailuresAssumption == "eError" \in Failures /\ "eOk" \notin Failures
ASSUME CountModulusAssumption == CountModulus \in Nat \ {0}
ASSUME FaultsAssumption == AllocFails \in BOOLEAN /\ SaveFails \in BOOLEAN

Tiers == 0 .. TopTier
DefectTypes == {"severe", "damaged", "slow"}

VARIABLES
  pc, result,
  api, start_lba, end_lba, sectors_at_once,  \* options
  current_lba, lba_to_process,
  kernel_end,    \* the size of the device to read() and lseek(), in sectors
  fd_lba,        \* position of fd, in sectors
  num, den,      \* ctx->progress
  report, perform_ret,
  probed,        \* the sectors the last command or read() went to
  stats,         \* the accumulators of the summary report
  dg_intervals,
  dg_cur,        \* the open interval; dg_cur.type = "none" when there is none
  saved,         \* contents of the two report files, {} when not written
  seen,          \* the reports of all blocks processed (history)
  lost           \* a failed realloc() has cost the defect list a block (history)

options == <<api, start_lba, end_lba, sectors_at_once>>
cursor == <<current_lba, lba_to_process, fd_lba, kernel_end, num, den>>
block == <<report, perform_ret, probed>>
accumulators == <<stats, dg_intervals, dg_cur, seen, lost>>
vars == <<pc, result, options, cursor, block, accumulators, saved>>

EmptyReport == [lba |-> 0, sectors_processed |-> 0, blk_status |-> "eOk", tier |-> 0]
NoInterval == [type |-> "none", begin_lba |-> 0, end_lba |-> 0]
ZeroStats ==
  [access_time_stats |-> [t \in Tiers |-> 0],
   error_stats |-> [s \in Failures |-> 0],
   blocks_processed |-> 0, blocks_with_errors |-> 0,
   first_error_lba |-> -1, last_error_lba |-> 0]

BlockEnd(r) == r.lba + r.sectors_processed - 1
BlockSectors(r) == r.lba .. BlockEnd(r)

Init ==
  /\ pc = "closed" /\ result = "none"
  /\ api = "none" /\ start_lba = 0 /\ end_lba = 0 /\ sectors_at_once = 0
  /\ current_lba = 0 /\ lba_to_process = 0 /\ num = 0 /\ den = 0
  /\ fd_lba = 0 /\ kernel_end = 0
  /\ report = EmptyReport /\ perform_ret = 0 /\ probed = {}
  /\ stats = ZeroStats /\ dg_intervals = <<>> /\ dg_cur = NoInterval
  /\ seen = <<>> /\ lost = FALSE
  /\ saved = [report |-> {}, defects |-> {}]

-----------------------------------------------------------------------------
(* Open                                                                    *)

(* Mutants: an end beyond the device is let through; a partial last block  *)
(* is not counted.                                                         *)
AcceptsAnyEnd(s, e, n) == n > 0 /\ e > s
BlocksRoundedDown(sectors, n) == sectors \div n

(* The early returns of Open on its options.  The end is compared with the *)
(* unsigned capacity: a negative one is beyond it.                         *)
Accepts(s, e, n) == n > 0 /\ e > s /\ 0 <= e /\ e <= Capacity

Blocks(sectors, n) ==
  (sectors \div n) + (IF sectors % n = 0 THEN 0 ELSE 1)

(* lseek() on a block device, whose return value the code never looks at:  *)
(* refused before the start and beyond the size the kernel has for it.     *)
SeekAccepts(lba) == 0 <= lba /\ lba <= kernel_end

Open ==
  /\ pc = "closed"
  /\ \E a \in Apis, s \in Starts, e \in Ends, n \in BlockSizes :
       /\ Accepts(s, e, n)
       /\ api' = a /\ start_lba' = s /\ end_lba' = e /\ sectors_at_once' = n
       /\ current_lba' = s /\ lba_to_process' = e - s
       /\ num' = 0 /\ den' = Blocks(e - s, n)
       /\ kernel_end' \in KernelEnds
       /\ fd_lba' = IF SeekAccepts(s)' THEN s ELSE 0
  /\ report' = EmptyReport /\ perform_ret' = 0 /\ probed' = {}
  /\ stats' = ZeroStats /\ dg_intervals' = <<>> /\ dg_cur' = NoInterval
  /\ seen' = <<>> /\ lost' = FALSE
  /\ saved' = [report |-> {}, defects |-> {}]
  /\ pc' = "loop" /\ result' = "none"

(* Options that Open refuses, or a device that does not open.              *)
OpenFails ==
  /\ pc = "closed"
  /\ result' = "open_failed"
  /\ UNCHANGED <<pc, options, cursor, block, accumulators, saved>>

-----------------------------------------------------------------------------
(* The defect list                                                         *)

DefectType(r) ==
  CASE r.blk_status # "eOk"   -> "damaged"
    [] r.blk_status = "eOk" /\ r.tier = TopTier     -> "severe"
    [] r.blk_status = "eOk" /\ r.tier = TopTier - 1 -> "slow"
    [] OTHER -> "none"

(* Mutant of Extends: the gap before the block is not looked at.           *)
ExtendsOverGap(type, lba) == type # "none" /\ dg_cur.type = type

(* The block continues the open interval.                                  *)
Extends(type, lba) ==
  type # "none" /\ dg_cur.type = type /\ lba = dg_cur.end_lba + 1

Flushed(type, lba, end) ==
  /\ dg_intervals' = Append(dg_intervals, dg_cur)
  /\ dg_cur' = IF type = "none" THEN NoInterval
               ELSE [type |-> type, begin_lba |-> lba, end_lba |-> end]
  /\ UNCHANGED lost

(* dg_interval_update: extend the open interval, open one, or close the    *)
(* open one, for which the array must grow.  When it cannot, everything    *)
(* stays as it is, and a defective block is not listed.                    *)
DgIntervalUpdate(type, lba, end) ==
  \/ /\ Extends(type, lba)
     /\ dg_cur' = [dg_cur EXCEPT !.end_lba = end]
     /\ UNCHANGED <<dg_intervals, lost>>
  \/ /\ dg_cur.type = "none"
     /\ dg_cur' = IF type = "none" THEN NoInterval
                  ELSE [type |-> type, begin_lba |-> lba, end_lba |-> end]
     /\ UNCHANGED <<dg_intervals, lost>>
  \/ /\ dg_cur.type # "none" /\ ~Extends(type, lba)
     /\ \/ Flushed(type, lba, end)
        \/ /\ AllocFails
           /\ lost' = (lost \/ type # "none")
           /\ UNCHANGED <<dg_intervals, dg_cur>>

-----------------------------------------------------------------------------
(* Perform                                                                 *)

SectorsToRead ==
  IF lba_to_process < sectors_at_once THEN lba_to_process ELSE sectors_at_once

(* Mutant of CountField: the high byte of the count is left out.           *)
CountFieldLowByte(n) == n % (CountModulus \div 2)

(* The sectors an ATA command with a count of n works on: the count has 16 *)
(* bits, and 0 stands for the full 65536 (the drive's side); the address   *)
(* has 48, so a negative LBA stands for one near their end.                *)
CountField(n) == n % CountModulus
AddressField(lba) == lba % AddressSpan
VerifiedSectors(lba, n) ==
  LET count == IF CountField(n) = 0 THEN CountModulus ELSE CountField(n)
  IN AddressField(lba) .. AddressField(lba) + count - 1

(* READ VERIFY of the block.  A command reaches the drive or not: when     *)
(* ioctl() itself fails, the status is that of the zeroed command header,  *)
(* which is Ok, and Perform returns 1; a failure that only host_status     *)
(* tells of, a timeout for one, is taken for Ok as well.  The drive has no *)
(* sectors beyond its capacity to verify.                                  *)
Reaches == {"done", "ioctl_failed", "host_failed"}
VerifyBlock(status, reach) ==
  /\ api = "ata"
  /\ reach # "done" => status = "eOk"
  /\ perform_ret' = IF reach = "ioctl_failed" THEN 1 ELSE 0
  /\ probed' = IF reach # "done" THEN {}
                ELSE VerifiedSectors(current_lba, SectorsToRead)
  /\ (reach = "done" /\ status = "eOk") => probed' \subseteq 0 .. Capacity - 1
  /\ UNCHANGED fd_lba

(* read() at the position of fd, k sectors of it: no more than the kernel  *)
(* has.  A short read is an error, after which fd is set to current_lba,   *)
(* not yet moved on, if lseek() accepts that.                              *)
ReadBlock(status) ==
  /\ api = "posix"
  /\ probed' = fd_lba .. fd_lba + SectorsToRead - 1
  /\ \E k \in 0 .. SectorsToRead :
       /\ k > 0 => fd_lba + k <= kernel_end
       /\ status = IF k = SectorsToRead THEN "eOk" ELSE "eError"
       /\ fd_lba' = IF status # "eOk" /\ SeekAccepts(current_lba) THEN current_lba
                    ELSE fd_lba + k
  /\ perform_ret' = 0

(* Mutant of Accumulated: a failed block counts in the histogram as well.  *)
AccumulatedTwice(r) ==
  LET failed == r.blk_status # "eOk" IN
  [stats EXCEPT
     !.blocks_processed = @ + 1,
     !.blocks_with_errors = @ + (IF failed THEN 1 ELSE 0),
     !.error_stats = [s \in Failures |-> @[s] + (IF s = r.blk_status THEN 1 ELSE 0)],
     !.access_time_stats = [t \in Tiers |-> @[t] + (IF t = r.tier THEN 1 ELSE 0)],
     !.first_error_lba = IF failed /\ @ < 0 THEN r.lba ELSE @,
     !.last_error_lba = IF failed THEN BlockEnd(r) ELSE @]

(* The accumulators after one more block.                                  *)
Accumulated(r) ==
  LET failed == r.blk_status # "eOk" IN
  [stats EXCEPT
     !.blocks_processed = @ + 1,
     !.blocks_with_errors = @ + (IF failed THEN 1 ELSE 0),
     !.error_stats = [s \in Failures |-> @[s] + (IF s = r.blk_status THEN 1 ELSE 0)],
     !.access_time_stats =
        [t \in Tiers |-> @[t] + (IF ~failed /\ t = r.tier THEN 1 ELSE 0)],
     !.first_error_lba = IF failed /\ @ < 0 THEN r.lba ELSE @,
     !.last_error_lba = IF failed THEN BlockEnd(r) ELSE @]

Perform(status, tier, reach) ==
  LET r == [lba |-> current_lba, sectors_processed |-> SectorsToRead,
            blk_status |-> status, tier |-> tier]
  IN /\ pc = "loop" /\ num < den
     /\ \/ VerifyBlock(status, reach)
        \/ ReadBlock(status) /\ reach = "done"
     /\ report' = r
     /\ num' = num + 1
     /\ lba_to_process' = lba_to_process - SectorsToRead
     /\ current_lba' = current_lba + SectorsToRead
     /\ stats' = Accumulated(r)
     /\ DgIntervalUpdate(DefectType(r), r.lba, BlockEnd(r))
     /\ seen' = Append(seen, r)
     /\ pc' = "callback"
     /\ UNCHANGED <<result, options, kernel_end, den, saved>>

-----------------------------------------------------------------------------
(* The perform loop and Close                                              *)

(* The callback shows the block; a non-zero return of Perform ends the loop. *)
Callback ==
  /\ pc = "callback"
  /\ pc' = IF perform_ret # 0 THEN "closing" ELSE "loop"
  /\ result' = IF perform_ret # 0 THEN "stopped" ELSE result
  /\ UNCHANGED <<options, cursor, block, accumulators, saved>>

(* Mutant of LoopFinished: the loop goes on when everything is done.       *)
LoopFinishedLate ==
  /\ pc = "loop" /\ num > den
  /\ pc' = "closing" /\ result' = "finished"
  /\ UNCHANGED <<options, cursor, block, accumulators, saved>>

LoopFinished ==
  /\ pc = "loop" /\ num >= den
  /\ pc' = "closing" /\ result' = "finished"
  /\ UNCHANGED <<options, cursor, block, accumulators, saved>>

LoopInterrupted ==
  /\ pc = "loop"
  /\ pc' = "closing" /\ result' = "interrupted"
  /\ UNCHANGED <<options, cursor, block, accumulators, saved>>

(* write_report, or its early return when the directory or the file does   *)
(* not open.                                                               *)
WriteReport ==
  /\ pc = "closing"
  /\ \/ saved' = [saved EXCEPT !.report = {stats}]
     \/ SaveFails /\ UNCHANGED saved
  /\ pc' = "defects"
  /\ UNCHANGED <<result, options, cursor, block, accumulators>>

(* Mutant of FlushOpenInterval: the interval still open is not written.    *)
FlushNothing == UNCHANGED <<dg_intervals, dg_cur, lost>>

(* The interval still open when the scan ended.  A failed realloc() keeps  *)
(* it out of the file.                                                     *)
FlushOpenInterval ==
  \/ dg_cur.type = "none" /\ UNCHANGED <<dg_intervals, dg_cur, lost>>
  \/ dg_cur.type # "none" /\ Flushed("none", 0, -1)
  \/ /\ dg_cur.type # "none" /\ AllocFails
     /\ lost' = TRUE /\ UNCHANGED <<dg_intervals, dg_cur>>

(* write_dg_report and the end of Close.                                   *)
WriteDgReport ==
  /\ pc = "defects"
  /\ FlushOpenInterval
  /\ \/ saved' = [saved EXCEPT !.defects = {dg_intervals'}]
     \/ SaveFails /\ UNCHANGED saved
  /\ pc' = "closed"
  /\ UNCHANGED <<result, options, cursor, block, stats, seen>>

PerformStep ==
  \E status \in {"eOk"} \cup Failures, tier \in Tiers, reach \in Reaches :
    (status # "eOk" => tier = 0) /\ Perform(status, tier, reach)

SessionStep == PerformStep \/ Callback \/ LoopFinished \/ WriteReport \/ WriteDgReport

Next == Open \/ OpenFails \/ SessionStep \/ LoopInterrupted

Spec == Init /\ [][Next]_vars

(* The thread that runs the test is scheduled, its commands return, and    *)
(* what it logs is put away where that is a dialog (log_cb of whdd).       *)
FairSpec == Spec /\ WF_vars(SessionStep)
=============================================================================
