---------------------------- MODULE ReadTestProps ----------------------------
(***************************************************************************)
(* What is claimed of the read test.                                       *)
(***************************************************************************)
EXTENDS ReadTest

Report == [lba : Int, sectors_processed : Nat \ {0},
           blk_status : {"eOk"} \cup Failures, tier : Tiers]
Interval == [type : DefectTypes, begin_lba : Int, end_lba : Int]
Stats == [access_time_stats : [Tiers -> Nat], error_stats : [Failures -> Nat],
          blocks_processed : Nat, blocks_with_errors : Nat,
          first_error_lba : Int, last_error_lba : Int]

(* Every variable has the values its C type and the code give it.          *)
TypeOK ==
  /\ pc \in {"closed", "loop", "callback", "closing", "defects"}
  /\ result \in {"none", "open_failed", "finished", "interrupted", "stopped"}
  /\ api \in {"none", "ata", "posix"}
  /\ start_lba \in Int /\ end_lba \in Int /\ end_lba <= Capacity
  /\ sectors_at_once \in Nat
  /\ current_lba \in Int /\ lba_to_process \in Nat
  /\ fd_lba \in 0 .. kernel_end /\ kernel_end \in Nat
  /\ num \in Nat /\ den \in Nat
  /\ report \in Report \cup {EmptyReport} /\ perform_ret \in {0, 1}
  /\ stats \in Stats
  /\ dg_intervals \in Seq(Interval) /\ dg_cur \in Interval \cup {NoInterval}
  /\ saved.report \subseteq Stats /\ saved.defects \subseteq Seq(Interval)
  /\ seen \in Seq(Report) /\ lost \in BOOLEAN

-----------------------------------------------------------------------------
(* The scan.                                                               *)

Covered(s) == UNION { BlockSectors(s[i]) : i \in DOMAIN s }

(* The blocks follow each other without a gap from the first sector of the *)
(* range, each but the last a full one, and a test that ends as finished   *)
(* has been through the range up to its end, neither a sector short nor a  *)
(* sector beyond it: progress.num reaches progress.den, which Open rounds  *)
(* up, exactly when lba_to_process reaches 0.                              *)
ScanTilesRange ==
  /\ \A i \in DOMAIN seen :
       /\ seen[i].lba = start_lba + (i - 1) * sectors_at_once
       /\ BlockEnd(seen[i]) < end_lba
       /\ i < Len(seen) => seen[i].sectors_processed = sectors_at_once
  /\ pc = "loop" => (num = den <=> lba_to_process = 0)
  /\ result = "finished" =>
       Covered(seen) = start_lba .. end_lba - 1

AllOk == \A i \in DOMAIN seen : seen[i].blk_status = "eOk"
NoEarlierError == \A i \in 1 .. Len(seen) - 1 : seen[i].blk_status = "eOk"

(* The report of a block whose command reached the drive is for the        *)
(* sectors the command was for, even when the size of the block fills the  *)
(* count field, from any start that is a sector at all; with read() this   *)
(* is so when the seek to the start was accepted, which nobody looks at,   *)
(* and until a read has failed (see ReadsReportedBlock).                   *)
VerifiesReportedBlock ==
  (pc = "callback" /\ probed # {}
   /\ \/ api = "ata" /\ start_lba >= 0
      \/ api = "posix" /\ SeekAccepts(start_lba) /\ NoEarlierError) =>
    probed = BlockSectors(report)

(* Every block is reported for the sectors that were read, also after a    *)
(* read that failed: "Set fd position to read next block"                  *)
(* (read_test.c:257).                                                      *)
ReadsReportedBlock ==
  (pc = "callback" /\ probed # {}) => probed = BlockSectors(report)

-----------------------------------------------------------------------------
(* The report files.                                                       *)

BlocksSeen(P(_)) == Cardinality({ i \in DOMAIN seen : P(seen[i]) })
ErrorsSeen == { i \in DOMAIN seen : seen[i].blk_status # "eOk" }

(* The accumulators are those of the blocks seen: each block in one bucket *)
(* of the histogram or under one error status, the error range from the    *)
(* first sector of the first failed block to the last of the last one (of  *)
(* a range that starts at a sector: the code tells by first_error_lba < 0  *)
(* that no block has failed yet, which a negative LBA is as well).         *)
StatsOfSeen(s) ==
  /\ s.blocks_processed = Len(seen)
  /\ s.blocks_with_errors = Cardinality(ErrorsSeen)
  /\ \A t \in Tiers :
       LET ok(r) == r.blk_status = "eOk" /\ r.tier = t
       IN s.access_time_stats[t] = BlocksSeen(ok)
  /\ \A f \in Failures :
       LET failed(r) == r.blk_status = f
       IN s.error_stats[f] = BlocksSeen(failed)
  /\ start_lba >= 0 =>
       IF ErrorsSeen = {} THEN s.first_error_lba = -1
       ELSE /\ \E i \in ErrorsSeen : s.first_error_lba = seen[i].lba
            /\ \E i \in ErrorsSeen : s.last_error_lba = BlockEnd(seen[i])
            /\ \A i \in ErrorsSeen : /\ s.first_error_lba <= seen[i].lba
                                     /\ BlockEnd(seen[i]) <= s.last_error_lba

(* A list of intervals is the defect list of the blocks seen: the sectors  *)
(* listed under a type are those of the blocks of that type, and the rows  *)
(* are in ascending order, disjoint and as long as they can be ("each      *)
(* listed as contiguous LBA intervals", README.md:55; "rows keep scan      *)
(* order (ascending LBA)", read_test.c:437).                               *)
SectorsListed(list, t) ==
  UNION { list[i].begin_lba .. list[i].end_lba :
          i \in { j \in DOMAIN list : list[j].type = t } }
SectorsSeen(t) ==
  UNION { BlockSectors(seen[i]) : i \in { j \in DOMAIN seen : DefectType(seen[j]) = t } }
DefectsOfSeen(list) ==
  /\ \A t \in DefectTypes : SectorsListed(list, t) = SectorsSeen(t)
  /\ \A i, j \in DOMAIN list : i < j => list[i].end_lba < list[j].begin_lba
  /\ \A i \in DOMAIN list : (i < Len(list) /\ list[i].type = list[i + 1].type)
       => list[i].end_lba + 1 < list[i + 1].begin_lba

(* The summary Close leaves on disk is that of the blocks seen, in         *)
(* whatever way the test ended: "access-time histogram, error type counts  *)
(* and the error LBA range" (README.md:52).                                *)
SavedSummaryIsExact ==
  pc = "closed" => \A s \in saved.report : StatsOfSeen(s)

(* The defect list Close leaves on disk is that of the blocks seen: the    *)
(* interval that was open when the scan ended is in it.                    *)
SavedDefectsAreExact ==
  (pc = "closed" /\ ~lost) => \A list \in saved.defects : DefectsOfSeen(list)

(* A failed allocation loses defective blocks from the list, but never     *)
(* lists a sector that is not defective, or out of order.                  *)
NothingInvented ==
  /\ \A t \in DefectTypes : SectorsListed(Append(dg_intervals, dg_cur), t) \subseteq SectorsSeen(t)
  /\ \A i, j \in DOMAIN dg_intervals :
       i < j => dg_intervals[i].end_lba < dg_intervals[j].begin_lba

-----------------------------------------------------------------------------
(* The inductive invariant behind these.                                   *)

(* The range: nothing is seen before the first Open; the cursor is where   *)
(* the blocks seen have brought it, and they cover the range up to it.     *)
RangeInv ==
  /\ api = "none" => pc = "closed" /\ start_lba = 0 /\ end_lba = 0 /\ result # "finished"
  /\ api # "none" =>
       /\ start_lba < end_lba
       /\ sectors_at_once \in BlockSizes /\ sectors_at_once > 0
       /\ den = Blocks(end_lba - start_lba, sectors_at_once)
  /\ start_lba <= current_lba
  /\ lba_to_process = end_lba - current_lba
  /\ num = Len(seen)
  /\ IF lba_to_process > 0 THEN current_lba = start_lba + num * sectors_at_once
     ELSE end_lba <= start_lba + num * sectors_at_once
  /\ result = "finished" => lba_to_process = 0 /\ pc \in {"closing", "defects", "closed"}

SeenInv ==
  /\ \A i \in DOMAIN seen :
       /\ seen[i].lba = start_lba + (i - 1) * sectors_at_once
       /\ BlockEnd(seen[i]) < current_lba
       /\ i < Len(seen) \/ lba_to_process > 0 =>
            seen[i].sectors_processed = sectors_at_once
  /\ Covered(seen) = start_lba .. current_lba - 1

(* read() is where the scan is if the seek to its start was accepted, as   *)
(* long as no read has failed.                                             *)
FdInv ==
  (api = "posix" /\ SeekAccepts(start_lba) /\ AllOk) => fd_lba = current_lba

(* The list with the open interval behind it covers defective blocks, and  *)
(* all of them unless an allocation has failed.                            *)
ListedInv ==
  /\ \A t \in DefectTypes :
       /\ SectorsListed(Append(dg_intervals, dg_cur), t) \subseteq SectorsSeen(t)
       /\ ~lost => SectorsSeen(t) \subseteq SectorsListed(Append(dg_intervals, dg_cur), t)
  /\ pc = "closed" /\ ~lost => dg_cur.type = "none"

(* Its order, and that no two neighbours of a type touch: only the open    *)
(* interval is one that the next block can continue.                       *)
OpenInv ==
  dg_cur.type # "none" =>
    dg_cur.begin_lba <= dg_cur.end_lba /\ dg_cur.end_lba < current_lba
RowsInv ==
  \A i \in DOMAIN dg_intervals :
    /\ dg_intervals[i].begin_lba <= dg_intervals[i].end_lba
    /\ dg_intervals[i].end_lba < current_lba
    /\ dg_cur.type # "none" => dg_intervals[i].end_lba < dg_cur.begin_lba
    /\ i = Len(dg_intervals) /\ dg_cur.type = dg_intervals[i].type =>
         dg_intervals[i].end_lba + 1 < dg_cur.begin_lba
    /\ dg_cur.type = "none" /\ pc # "closed" => dg_intervals[i].end_lba + 1 < current_lba
OrderInv ==
  /\ \A i, j \in DOMAIN dg_intervals :
       i < j => dg_intervals[i].end_lba < dg_intervals[j].begin_lba
  /\ \A i \in DOMAIN dg_intervals :
       (i < Len(dg_intervals) /\ dg_intervals[i].type = dg_intervals[i + 1].type) =>
         dg_intervals[i].end_lba + 1 < dg_intervals[i + 1].begin_lba

(* The files are written once, by Close, from what Perform has gathered.   *)
SavedInv ==
  /\ saved \in [report : SUBSET Stats, defects : SUBSET Seq(Interval)]
  /\ saved.report \subseteq {stats} /\ saved.defects \subseteq {dg_intervals}
  /\ pc \in {"loop", "callback", "closing"} => saved.report = {}
  /\ pc # "closed" => saved.defects = {}

ReadInv ==
  /\ TypeOK /\ RangeInv /\ SeenInv /\ FdInv
  /\ ListedInv /\ OpenInv /\ RowsInv /\ OrderInv
  /\ SavedInv /\ StatsOfSeen(stats)

-----------------------------------------------------------------------------
(* A test that is running ends, with every kind of failure on its way.     *)
ScanEnds == (pc # "closed") ~> (pc = "closed")
=============================================================================
