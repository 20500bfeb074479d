--------------------------- MODULE WholeSpaceProps ---------------------------
(***************************************************************************)
(* What is claimed of the map and the counters of the whole space          *)
(* renderer, in every session of a copy.                                   *)
(***************************************************************************)
EXTENDS WholeSpace, CopyProps

(* Every variable of the renderer has the values its C type gives it.      *)
DisplayTypeOK ==
  /\ display \in BOOLEAN /\ straddled \in BOOLEAN
  /\ blocks_map \in [MapBlocks -> SectorStatus]
  /\ unread_count \in 0 .. CountModulus - 1
  /\ read_ok_count \in 0 .. CountModulus - 1
  /\ errors_count \in 0 .. CountModulus - 1

\* Between two blocks, with everything reported rendered.
AtRest == display /\ pc = "loop"

(* In a session that starts with nothing done, in whatever order and with  *)
(* whatever blocks the strategy goes through the device, the sectors shown *)
(* as unread are those the procedure has still to do and the other two     *)
(* counts are what it has done: "unread_count" is set from progress.den,   *)
(* or reset and added up block by block (a device with a partial last      *)
(* block), and every report moves its sectors from one count to another.   *)
FreshCountsAreProgress ==
  (AtRest /\ den = EndLba /\ (use_journal => EndLba % SectorsAtOnce # 0)) =>
    /\ unread_count = den - num
    /\ read_ok_count + errors_count = num

(* As long as no recorded block has straddled two blocks of the map and no *)
(* write to the destination falls short (which the run rules out: to the   *)
(* counters that is an error, to the journal it is not), the counters      *)
(* agree with the journal, in every session, resumed or not: what is       *)
(* seeded from one byte per block and what is added by reports is the      *)
(* count of the sectors with each verdict.                                 *)
CountersMatchJournal ==
  (AtRest /\ use_journal /\ ~straddled /\ EndLba % SectorsAtOnce # 0) =>
    /\ unread_count = Cardinality({ l \in Lbas : journal[l] = "Unread" })
    /\ read_ok_count = Cardinality({ l \in Lbas : journal[l] = "ReadOk" })
    /\ errors_count = Cardinality({ l \in Lbas : Defective(journal[l]) })

SectorsOfCell(c) == { l \in Lbas : MapBlock(l) \in BlocksOfCell(c) }

(* What the legend says of a cell (whole_space_renderer.c:235-246): errors *)
(* when a read has failed in it, unread space when something of it is      *)
(* still to be read, else copied without errors.                           *)
LegendOf(c) ==
  IF \E l \in SectorsOfCell(c) : Defective(journal[l]) THEN "read errors"
  ELSE IF \E l \in SectorsOfCell(c) : journal[l] = "Unread" THEN "unread space"
  ELSE "copied space"

(* The map shows of every cell what the legend says, in resumed sessions   *)
(* too, as long as no recorded block has straddled two blocks of the map,  *)
(* no failed block had a single sector and no write falls short.           *)
MapFollowsLegend ==
  (AtRest /\ use_journal /\ ~straddled
     /\ \A l \in Lbas : journal[l] # "SectorReadError") =>
    \A c \in Cells : CellShows(c) = LegendOf(c)

-----------------------------------------------------------------------------
(* The inductive invariant behind these, with that of the copy.            *)

(* The display is open from the first turn of the loop to the end of the   *)
(* session; what it shows before that is nothing.                          *)
ShownInv ==
  /\ display => InSession
  /\ ~display => pc \in {"closed", "create", "scan", "loop"}
  /\ (~display /\ pc = "loop") => num = 0

(* Perform has returned without success, or is about to be found so.       *)
GaveUp == (pc = "callback" /\ perform_ret # 0) \/ (pc = "closing" /\ result = "stopped")

(* There is never more to do than the device has sectors; the counters     *)
(* never hold more than what was seeded, all of the device at most, and    *)
(* what was reported; a last report may come twice.                        *)
TallyInv ==
  /\ display => den <= EndLba
  /\ display \in BOOLEAN /\ straddled \in BOOLEAN
  /\ blocks_map \in [MapBlocks -> SectorStatus]
  /\ unread_count \in 0 .. CountModulus - 1
  /\ read_ok_count \in 0 .. EndLba + handled
  /\ errors_count \in 0 .. EndLba + handled
  /\ report.sectors_processed <= EndLba
  /\ handled <= num + (IF pc = "closing" /\ result = "stopped" THEN EndLba ELSE 0)

(* The report is that of the block in work; unless a write may fail it     *)
(* says what the journal gets to know.                                     *)
ReportInv ==
  pc \in {"write", "journal", "update"} =>
    /\ report.lba = lba_to_read /\ report.sectors_processed = sectors_to_read
    /\ ~WriteFaults => (Failed <=> error_flag)

FreshInv ==
  (display /\ ~GaveUp /\ den = EndLba /\ (use_journal => EndLba % SectorsAtOnce # 0)) =>
    /\ unread_count = den - handled
    /\ read_ok_count + errors_count = handled

Aligned(lba) == lba % SectorsAtOnce = 0

(* As long as no block straddles two of the map, all sectors of a block of *)
(* the map have the verdict of the first, and blocks and zones of sessions *)
(* with a journal begin and end with blocks of the map.                    *)
UniformInv == ~straddled => \A l \in Lbas : journal[l] = journal[l - (l % SectorsAtOnce)]

ZoneAligned(zone) ==
  Aligned(zone.begin_lba) /\ (Aligned(zone.end_lba) \/ zone.end_lba = EndLba)
ZonesAligned(z) == \A i \in DOMAIN z : ZoneAligned(z[i])

AlignedInv ==
  (use_journal /\ ~straddled) =>
    /\ ZonesAligned(unread_zones)
    /\ InTask => Aligned(lba_to_read)
    /\ pc = "scan" /\ scan_begin # -1 => Aligned(scan_begin)
    /\ pc = "scan" /\ scan_begin = -1 /\ scan_lba > 0 => journal[scan_lba - 1] # "Unread"

(* A block recorded and not yet shown: the journal is ahead by it.         *)
Due == pc \in {"update", "callback"}
Ahead(yes) == IF Due /\ yes THEN report.sectors_processed ELSE 0

(* Sessions of which the map and the counters are held against the journal.*)
Comparable == display /\ use_journal /\ ~straddled /\ ~WriteFaults /\ ~GaveUp

MatchInv ==
  (Comparable /\ EndLba % SectorsAtOnce # 0) =>
    /\ unread_count = Cardinality({ l \in Lbas : journal[l] = "Unread" }) + Ahead(TRUE)
    /\ read_ok_count + Ahead(~Failed) = Cardinality({ l \in Lbas : journal[l] = "ReadOk" })
    /\ errors_count + Ahead(Failed) = Cardinality({ l \in Lbas : Defective(journal[l]) })

(* A byte of the map says what the journal says of the block's first       *)
(* sector, or that its read has failed when the journal says so of a       *)
(* single sector; the block due is already in the journal.                 *)
ShownAs(shown, status) ==
  shown = status \/ (shown = "BlockReadError" /\ status = "SectorReadError")
VerdictOfReport == IF Failed THEN "BlockReadError" ELSE "ReadOk"

MapInv ==
  Comparable =>
    \A i \in MapBlocks :
      ShownAs(IF Due /\ i = MapBlock(report.lba) THEN VerdictOfReport ELSE blocks_map[i],
              journal[i * SectorsAtOnce])

(* The block due is one of the map, aligned with it.                       *)
DueInv ==
  (Comparable /\ Due) => Aligned(report.lba) /\ report.lba < EndLba

DisplayInv ==
  /\ ShownInv /\ TallyInv /\ ReportInv /\ FreshInv
  /\ UniformInv /\ AlignedInv /\ MatchInv /\ MapInv /\ DueInv
=============================================================================
