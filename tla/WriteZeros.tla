----------------------------- MODULE WriteZeros -----------------------------
(***************************************************************************)
(* The procedure "Write zeros" (posix_write_zeros.c): zeroes the device    *)
(* from start_lba to the capacity of the device list, block by block.      *)
(***************************************************************************)
EXTENDS DeviceList

CONSTANTS
  SectorsAtOnce,
  Width          \* 2^64: the values of an integer of the code

ASSUME SectorsAtOnceAssumption == SectorsAtOnce \in Nat \ {0}
ASSUME WidthAssumption == Width \in Nat /\ Width > 2 * SectorsAtOnce /\ Width % 2 = 0

VARIABLES
  start_lba, end_lba, lba_to_process, blk_index,
  num, den,      \* ctx->progress
  fd_lba,        \* position of fd, in sectors
  report,
  seeks_ok,      \* no lseek() has failed: its result is never looked at (history)
  write_failed   \* some block was reported as eError (history)

wzCursor == <<start_lba, end_lba, lba_to_process, blk_index, num, den, fd_lba>>
wzVars == <<wzCursor, report, seeks_ok, write_failed>>

Report == [lba : Nat, sectors_processed : Nat, blk_status : {"eOk", "eError"}]
EmptyReport == [lba |-> 0, sectors_processed |-> 0, blk_status |-> "eOk"]

WzIdle ==
  /\ start_lba = 0 /\ end_lba = 0 /\ lba_to_process = 0 /\ blk_index = 0
  /\ num = 0 /\ den = 0 /\ fd_lba = 0
  /\ report = EmptyReport /\ seeks_ok = TRUE /\ write_failed = FALSE

(* The context is gone.                                                    *)
WzForget ==
  /\ start_lba' = 0 /\ end_lba' = 0 /\ lba_to_process' = 0 /\ blk_index' = 0
  /\ num' = 0 /\ den' = 0 /\ fd_lba' = 0
  /\ report' = EmptyReport /\ seeks_ok' = TRUE /\ write_failed' = FALSE

Unsigned(i) == i % Width
Signed(u) == IF u < Width \div 2 THEN u ELSE u - Width

(* Division of C: toward zero.                                             *)
Quotient(a, b) == IF a >= 0 THEN a \div b ELSE -((-a) \div b)

(* Mutants of Blocks: the partial last block is not counted; the count is  *)
(* a signed number.                                                        *)
BlocksRoundedDown(sectors) == Unsigned(Quotient(sectors, SectorsAtOnce))
BlocksSigned(sectors) ==
  Quotient(sectors, SectorsAtOnce) + (IF sectors % SectorsAtOnce = 0 THEN 0 ELSE 1)

(* progress.den: unsigned, with the partial last block.                    *)
Blocks(sectors) ==
  Unsigned(Quotient(sectors, SectorsAtOnce)
           + (IF sectors % SectorsAtOnce = 0 THEN 0 ELSE 1))

(* Open.  The results of lseek() and of the flush of buffers have no       *)
(* consequence.                                                            *)
WzOpen(start) ==
  /\ start_lba' = start /\ end_lba' = dev.capacity
  /\ lba_to_process' = dev.capacity - start
  /\ num' = 0 /\ den' = Blocks(dev.capacity - start)
  /\ blk_index' = 0
  /\ fd_lba' = Seek(0, start) /\ seeks_ok' = SeekAccepts(start)
  /\ report' = EmptyReport /\ write_failed' = FALSE
  /\ zeroed' = {}
  /\ UNCHANGED <<disk, limit, ksize, dev>>

(* A size_t: huge when nothing but a negative rest is left.                *)
SectorsToWrite ==
  Unsigned(IF lba_to_process < SectorsAtOnce THEN lba_to_process ELSE SectorsAtOnce)

\* Mutant of BlockAfter: the index has not been moved on yet.
BlockAfterStale == start_lba + SectorsAtOnce * blk_index

(* Where the next block begins: blk_index has been moved on already.       *)
BlockAfter == start_lba + SectorsAtOnce * (blk_index + 1)

Sectors(from, count) == from .. from + count - 1

BlockReport(status) ==
  [lba |-> Unsigned(start_lba + SectorsAtOnce * blk_index),
   sectors_processed |-> SectorsToWrite, blk_status |-> status]

(* write() wrote everything.  Nothing to write is a success anywhere.      *)
WriteFull ==
  /\ \/ SectorsToWrite = 0
     \/ SectorsToWrite < Width \div 2 /\ WriteFits(fd_lba, SectorsToWrite)
  /\ zeroed' = zeroed \cup Sectors(fd_lba, SectorsToWrite)
  /\ fd_lba' = fd_lba + SectorsToWrite
  /\ report' = BlockReport("eOk")
  /\ UNCHANGED <<seeks_ok, write_failed>>

(* write() fell short or failed after having written some sectors, and may *)
(* or may not have moved the descriptor.  A huge count is refused.         *)
WriteShort ==
  /\ SectorsToWrite # 0
  /\ \E written \in IF SectorsToWrite < Width \div 2
                    THEN WrittenBefore(fd_lba, SectorsToWrite) ELSE {0} :
       /\ zeroed' = zeroed \cup Sectors(fd_lba, written)
       /\ \E at \in {fd_lba, fd_lba + written} : fd_lba' = Seek(at, BlockAfter)
  /\ seeks_ok' = (seeks_ok /\ SeekAccepts(BlockAfter))
  /\ report' = BlockReport("eError") /\ write_failed' = TRUE

\* Mutant of Advance: a block that failed is tried again.
AdvanceOnSuccess ==
  /\ blk_index' = IF report'.blk_status = "eOk" THEN blk_index + 1 ELSE blk_index
  /\ num' = IF report'.blk_status = "eOk" THEN num + 1 ELSE num
  /\ lba_to_process' = IF report'.blk_status = "eOk"
                       THEN Signed(Unsigned(lba_to_process - SectorsToWrite))
                       ELSE lba_to_process

(* A block is done with, whatever has become of it.                        *)
Advance ==
  /\ blk_index' = blk_index + 1 /\ num' = num + 1
  /\ lba_to_process' = Signed(Unsigned(lba_to_process - SectorsToWrite))

(* Perform                                                                 *)
WzPerform ==
  /\ WriteFull \/ WriteShort
  /\ Advance
  /\ UNCHANGED <<start_lba, end_lba, den, disk, limit, ksize, dev>>
=============================================================================
