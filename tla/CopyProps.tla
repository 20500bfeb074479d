------------------------------ MODULE CopyProps ------------------------------
(***************************************************************************)
(* What is claimed of the copy procedure: the state predicates, action     *)
(* properties and liveness properties checked on instances of Copy and     *)
(* proved in CopyProofs.                                                   *)
(***************************************************************************)
EXTENDS Copy

ControlStates == {"closed", "create", "scan", "loop", "read", "write",
                  "journal", "update", "callback", "closing"}
Results == {"none", "open_failed", "finished", "interrupted", "stopped",
            "aborted", "crashed"}

(* Every variable has the values its C type and the code give it.          *)
TypeOK ==
  /\ journal \in [Lbas -> SectorStatus]
  /\ journal_len \in -1 .. EndLba
  /\ dst \in [Lbas -> {"none", "good", "bad"}] /\ dst_len \in Nat
  /\ pc \in ControlStates /\ result \in Results
  /\ read_strategy \in ReadStrategies \cup {"none"}
  /\ use_journal \in BOOLEAN /\ skip_blocks \in Nat /\ dst_file_end_lba \in Nat
  /\ unread_zones \in Seq(Zone)
  /\ current_zone \in 0 .. Len(unread_zones)
  /\ reversive \in BOOLEAN /\ stage \in {0, 1}
  /\ num \in Nat /\ den \in Nat
  /\ scan_lba \in 0 .. EndLba /\ scan_begin \in -1 .. EndLba - 1
  /\ scan_defective \in BOOLEAN
  /\ lba_to_read \in Nat /\ sectors_to_read \in Nat
  /\ error_flag \in BOOLEAN /\ perform_ret \in {0, 1} /\ buf_fresh \in BOOLEAN
  /\ report \in Report /\ handled \in Nat

-----------------------------------------------------------------------------
(* The zone list.                                                          *)

(* Whatever mix of trims, splits, removals and journal parses the sessions *)
(* make, the zones are non-empty, inside the device, in ascending order    *)
(* and disjoint (the comment on struct zone, and what the list walks of    *)
(* the strategies rely on).                                                *)
ZonesWellFormed ==
  /\ ZonesNonEmpty(unread_zones)
  /\ ZonesInside(unread_zones, EndLba)
  /\ ZonesAscending(unread_zones)

InTask == pc \in {"read", "write", "journal", "update"}

(* While a block is processed it is a non-empty block at the edge of the   *)
(* current zone that the direction reads from: the assertions of           *)
(* common_update_zones (copy_read_strategies.c:140-152) never fail.        *)
TaskAtZoneEdge ==
  InTask =>
    /\ current_zone # 0
    /\ sectors_to_read = BlockSize(unread_zones[current_zone])
    /\ lba_to_read = BlockStart(unread_zones[current_zone], reversive)

(* Whether the journal, of this session or an earlier one, has a failure   *)
(* in the sector just before l, or in the sector l itself.                 *)
FailureBefore(l) == l > 0 /\ Defective(journal[l - 1])
FailureAt(l) == l < EndLba /\ Defective(journal[l])

(* What the strategies keep of "reading near failure points is delayed"    *)
(* (the help of read_strategy, copy.c:411), in every session of skipfail   *)
(* and until a smart strategy has nothing else left: no block is read      *)
(* backward away from a sector that failed just behind it, and the         *)
(* noreverse strategies, which never read backward, read none forward away *)
(* from a sector that failed just before it.  Forward reads of the two     *)
(* others are not covered (see ReadingNearFailuresDelayed).                *)
DefectiveEdgesDelayed ==
  (pc = "read" /\ use_journal /\ read_strategy # "plain" /\ stage = 0) =>
    /\ reversive => ~FailureAt(lba_to_read + sectors_to_read)
    /\ NoReverse(read_strategy) => ~reversive /\ ~FailureBefore(lba_to_read)

(* The promise in full: in its first stage smart starts no read next to a  *)
(* sector that has failed: "Thus reading near failure points is delayed"   *)
(* (copy.c:411), "Whether reading near begin_lba failed" (copy.h:12).      *)
ReadingNearFailuresDelayed ==
  (pc = "read" /\ use_journal /\ read_strategy = "smart" /\ stage = 0) =>
    IF reversive THEN ~FailureAt(lba_to_read + sectors_to_read)
    ELSE ~FailureBefore(lba_to_read)

-----------------------------------------------------------------------------
(* Zones, journal and progress describe the same work.                     *)

InSession == pc \notin {"closed", "create", "scan"}

(* With a journal, the zones in memory are exactly the sectors the journal *)
(* has as unread, except between the journal write and the trimming of the *)
(* zone, when the block in flight is already recorded.                     *)
JournalMatchesZones ==
  (InSession /\ use_journal) =>
    \A l \in Lbas :
      (journal[l] = "Unread")
        <=> (l \in UnreadSectors(unread_zones) /\ ~(pc = "update" /\ l \in Block))

(* The progress counters account for the zones: what is done and what the  *)
(* zones still hold add up to den.  The perform loop stops by num >= den   *)
(* alone, so a miscount would stop it early or hand Perform an empty list. *)
ProgressAccounts ==
  InSession => num + Cardinality(UnreadSectors(unread_zones)) = den

(* A journal that says "finished" is complete: when the loop has come to   *)
(* its end, no sector is left unread.                                      *)
FinishedIsComplete ==
  (pc = "closing" /\ result = "finished" /\ use_journal) =>
    \A l \in Lbas : journal[l] # "Unread"

(* A sector whose outcome is in the journal is never read again, in this   *)
(* session or a later one ("least possible harm to defective source        *)
(* device", copy.c:409).                                                   *)
RecordedNeverReread ==
  (pc = "read" /\ use_journal) => \A l \in Block : journal[l] = "Unread"

(* What the journal calls read is on the destination, at every moment at   *)
(* which the process may die.                                              *)
ReadOkIsCopied ==
  \A l \in Lbas : journal[l] = "ReadOk" => dst[l] = "good"

(* When the journal calls every sector read, the destination is a copy:    *)
(* "Copies entire device to given destination" (copy.c:403).               *)
CopiesEntireDevice ==
  (\A l \in Lbas : journal[l] = "ReadOk") => (\A l \in Lbas : dst[l] = "good")

(* The journaled copy implements the ledger.                               *)
Ledger == INSTANCE CopyLedger WITH
            ledger <- journal,
            delivered <- { l \in Lbas : dst[l] = "good" }
LedgerSpec == Ledger!Spec

-----------------------------------------------------------------------------
(* The inductive invariant behind these.                                   *)

(* What the control state says of the context: between sessions it is      *)
(* fresh; the parts of Open have not chosen a zone or counted progress     *)
(* yet; the journal is recorded to only in sessions that use it; plain     *)
(* never turns the read direction around.                                  *)
PhaseInv ==
  /\ pc = "closed" => NoSession
  /\ pc \in {"create", "scan"} =>
       use_journal /\ num = 0 /\ current_zone = 0 /\ ~reversive
  /\ pc = "create" =>
       unread_zones = <<FreshZone(0, EndLba)>> /\ den = EndLba
         /\ journal_len < EndLba
  /\ pc \in {"create", "closed"} => scan_begin = -1
  /\ pc = "journal" => use_journal
  /\ read_strategy = "plain" => ~reversive

(* Nothing is recorded before the journal has its full size, and sessions  *)
(* that use it run on a full one.                                          *)
JournalFilled ==
  /\ journal_len # EndLba => \A l \in Lbas : journal[l] = "Unread"
  /\ (pc \notin {"closed", "create"} /\ use_journal) => journal_len = EndLba

(* While the journal is parsed, the zones found so far end before the scan *)
(* position (before the zone being scanned, if any), they and that zone    *)
(* are the unread sectors seen so far, and den counts the zones' sectors.  *)
ScanFront == IF scan_begin = -1 THEN scan_lba ELSE scan_begin
ScanInv ==
  pc = "scan" =>
    /\ ZonesInside(unread_zones, ScanFront)
    /\ scan_begin < scan_lba
    /\ \A l \in 0 .. scan_lba - 1 :
         journal[l] = "Unread"
           <=> l \in UnreadSectors(unread_zones) \/ (scan_begin # -1 /\ scan_begin <= l)
    /\ den = Cardinality(UnreadSectors(unread_zones))

IndInv ==
  /\ TypeOK
  /\ ZonesWellFormed
  /\ TaskAtZoneEdge
  /\ PhaseInv
  /\ JournalFilled
  /\ ScanInv
  /\ JournalMatchesZones
  /\ ProgressAccounts

-----------------------------------------------------------------------------
(* What the remaining properties need besides IndInv.                      *)

(* Between two reports the callback has counted what progress counts; a    *)
(* block being processed has its report, and a report handed over makes up *)
(* for the block just added to progress, unless Perform gave up.           *)
CountInv ==
  /\ pc # "callback" /\ ~(pc = "closing" /\ result = "stopped") => handled = num
  /\ pc \in {"write", "journal", "update"} => report.sectors_processed = sectors_to_read
  /\ pc = "callback" /\ perform_ret = 0 => handled + report.sectors_processed = num

(* The edge at which the current zone is read carries no failure, whenever *)
(* there is a current zone and not only while a block of it is in work; a  *)
(* session has one of the strategies.                                      *)
EdgeDefective(zone, rev) ==
  IF rev THEN zone.end_lba_defective ELSE zone.begin_lba_defective
EdgeInv ==
  /\ (current_zone # 0 /\ read_strategy # "plain" /\ stage = 0) =>
       ~EdgeDefective(unread_zones[current_zone], reversive)
  /\ pc # "closed" => read_strategy \in ReadStrategies

(* From the opening of a journal on, a recorded failure next to a zone is  *)
(* marked at the edge of the zone, at least at the edges the strategy      *)
(* would read from: the beginnings for the noreverse strategies, the ends  *)
(* for the others.                                                         *)
FlagsInv ==
  (use_journal /\ read_strategy # "plain") =>
    \A i \in DOMAIN unread_zones :
      LET zone == unread_zones[i]
      IN /\ (pc = "scan" \/ NoReverse(read_strategy)) /\ FailureBefore(zone.begin_lba)
              => zone.begin_lba_defective
         /\ (pc = "scan" \/ ~NoReverse(read_strategy)) /\ FailureAt(zone.end_lba)
              => zone.end_lba_defective
ScanFlagsInv ==
  pc = "scan" =>
    /\ scan_begin # -1 /\ FailureBefore(scan_begin) => scan_defective
    /\ \A i \in DOMAIN unread_zones : unread_zones[i].end_lba < ScanFront

(* Two zones touch only where a split has cut them.  The half next to the  *)
(* cut that the strategy would read from is the one it is reading, away    *)
(* from the cut, until the first block of it is done; if it is not, its    *)
(* edge at the cut is marked.                                              *)
TouchInv ==
  read_strategy # "plain" =>
    \A i, j \in DOMAIN unread_zones :
      unread_zones[i].end_lba = unread_zones[j].begin_lba =>
        IF NoReverse(read_strategy)
        THEN unread_zones[j].begin_lba_defective \/ (current_zone = j /\ ~reversive)
        ELSE unread_zones[i].end_lba_defective \/ (current_zone = i /\ reversive)

(* A read that failed is a failure of the report, also of the block that   *)
(* the journal has already and the zones do not.                           *)
FailureInv ==
  /\ NoReverse(read_strategy) => ~reversive
  /\ pc = "write" => ~error_flag
  /\ pc = "journal" /\ error_flag => Failed
  /\ pc = "update" /\ use_journal =>
       \A l \in Block : Defective(journal[l]) => Failed
NearFailureInv == FlagsInv /\ ScanFlagsInv /\ TouchInv /\ FailureInv

(* Where a read either fills the buffer or fails and no write falls short, *)
(* what is about to be written, or recorded as read, is the block's data.  *)
DeliveryInv ==
  /\ ReadOkIsCopied
  /\ pc = "write" => buf_fresh /\ ~error_flag
  /\ pc = "journal" /\ ~error_flag => \A l \in Block : dst[l] = "good"

-----------------------------------------------------------------------------
(* How sessions end.                                                       *)

(* A running session ends: no strategy keeps splitting zones or choosing   *)
(* tasks for ever.                                                         *)
SessionsEnd == (pc # "closed") ~> (pc = "closed")

(* What the callback has been handed adds up to what the progress counter  *)
(* says: no block is reported twice or not at all.                         *)
HandledMatchesProgress ==
  (pc = "loop" \/ (pc = "closing" /\ result # "stopped")) => handled = num

(* No journal that an earlier session has left is refused.                 *)
ResumePossible == result # "open_failed"

(* When the user keeps starting sessions, at some point with strategies    *)
(* that do not give up and without interrupting them, the process stops    *)
(* dying and no journal is refused, every sector gets its verdict in the   *)
(* journal: the "operation resume possibility" of the option use_journal   *)
(* (copy.c:394).                                                           *)
AllDecided == \A l \in Lbas : journal[l] # "Unread"
ResumedToTheEnd ==
  (/\ WF_vars(Open)
   /\ []ResumePossible
   /\ <>[](read_strategy \notin SkipfailStrategies)
   /\ <>[][~(LoopInterrupted \/ Crash)]_vars) => <>AllDecided
=============================================================================
