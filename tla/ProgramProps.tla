---------------------------- MODULE ProgramProps ----------------------------
(***************************************************************************)
(* What is claimed of the two programs and of the procedures that change   *)
(* or diagnose the drive.                                                  *)
(***************************************************************************)
EXTENDS Program

(* Every variable has the values its C type and the code give it.          *)
DriveTypes ==
  /\ disk \in Disks /\ limit \in 1 .. Native /\ ksize \in 1 .. Native
  /\ zeroed \subseteq DriveSectors
  /\ dev \in Device
WzTypes ==
  /\ start_lba \in Int /\ end_lba \in Nat
  /\ lba_to_process \in Int /\ blk_index \in Nat /\ num \in Nat
  /\ den \in 0 .. Width - 1 /\ num <= den
  /\ fd_lba \in 0 .. Native * disk.logical
  /\ report \in Report /\ seeks_ok \in BOOLEAN /\ write_failed \in BOOLEAN
ProcTypes ==
  /\ max_lba \in Int /\ set_failed \in BOOLEAN /\ lost \in BOOLEAN
  /\ limit_before \in 0 .. Native
  /\ candidate \in 1 .. 4 /\ conclusion \in Conclusions
  /\ readahead \in {0, disk.readahead} /\ old_readahead \in {0, disk.readahead}
  /\ disturbed \in BOOLEAN
MenuTypes ==
  /\ frontend \in Frontends /\ procedure \in Procedures \cup {"none"}
  /\ pc \in {"list", "device", "confirm", "option", "open", "loop", "close",
             "set_native", "set_max_lba", "query_pi", "sample", "files", "scan",
             "verdict", "exited"}
  /\ option \in Int /\ consents \in 0 .. 2
TypeOK == DriveTypes /\ WzTypes /\ ProcTypes /\ MenuTypes

-----------------------------------------------------------------------------
(* Write zeros                                                             *)

(* As long as the descriptor could be put where it was meant to be, a      *)
(* block reported as good is zero, and nothing outside the range is        *)
(* touched, through any failures and whatever the kernel's and the         *)
(* library's ideas of the size ("fd position is undefined, set it to write *)
(* to next block", posix_write_zeros.c:92).                                *)
ReportedSectors == Sectors(report.lba, report.sectors_processed)
WrittenAsReported ==
  seeks_ok =>
    /\ report.blk_status = "eOk" => ReportedSectors \subseteq zeroed
    /\ zeroed \subseteq start_lba .. end_lba - 1

(* When the loop has come to its end, no block was reported as failed, and *)
(* the device list knows of the whole device, the whole of it from         *)
(* start_lba on is zero: "Fills device space with zeros"                   *)
(* (posix_write_zeros.c:123).                                              *)
FillsDeviceSpace ==
  (pc = "close" /\ procedure = "posix_write_zeros" /\ num = den /\ ~write_failed /\ seeks_ok
     /\ dev.capacity >= DriveEnd)
    => start_lba .. DriveEnd - 1 \subseteq zeroed

(* No sector before the one to begin from is overwritten: "set LBA address *)
(* to begin from" (posix_write_zeros.c:116).                               *)
ZeroesFromStartLba == \A s \in zeroed : s >= start_lba

-----------------------------------------------------------------------------
(* Host protected area                                                     *)

(* If neither command got lost, the limit is the one asked for unless a    *)
(* failure was logged, and then, provided the native capacity in the list  *)
(* is right, nothing that could be reached before has become unreachable.  *)
(* Between the two commands, when the process may die, too.                *)
HpaSettles ==
  (procedure = "hpa_set" /\ pc \in {"set_max_lba", "close"} /\ ~lost) =>
    IF pc = "close" /\ ~set_failed
    THEN limit = (max_lba % AddressSpan) + 1
    ELSE dev.native_capacity = Native => limit >= limit_before

-----------------------------------------------------------------------------
(* Diagnosis                                                               *)

(* A pass says what it seems to say: the first, the middle and the last    *)
(* sector were really read, and "no issue" only when the drive is known to *)
(* have no protection information and the sizes agree: "An unsupported PI  *)
(* query is reported as unknown rather than disabled" (README.md:44).      *)
NoIssueIsEarned ==
  /\ conclusion \in {"inconclusive", "pi_enabled", "no_issue"} =>
       { Candidates[i] : i \in 1 .. 3 } \subseteq really_read
  /\ conclusion = "no_issue" =>
       /\ ~disk.prot_en /\ disk.block_length = disk.logical
       /\ found.pi_known

-----------------------------------------------------------------------------
(* Read-ahead                                                              *)

(* Through any sequence of copies and read tests the device keeps its own  *)
(* read-ahead ("Restoring block device readahead setting", copy.c:377),    *)
(* unless an ioctl() failed, copying failed to open a file, the renderer   *)
(* did not open (render.c:53), or the process died while it was off, once: *)
(* what the next sessions restore is then 0.                               *)
ReadAheadReturns ==
  pc \in {"verdict", "list", "device", "exited"} =>
    (readahead = disk.readahead \/ disturbed)

-----------------------------------------------------------------------------
(* The menus                                                               *)

(* Nothing changes the contents or the limit of the drive that the user    *)
(* has not said yes to for this very choice, twice when the device was     *)
(* mounted as the list was built.                                          *)
Consented == consents >= IF dev.mounted THEN 2 ELSE 1
InvasiveConsented ==
  [][(limit' # limit \/ ~(zeroed' \subseteq zeroed)) => Consented]_vars

(* A procedure that was begun comes to its end, through any failures: then *)
(* whdd shows the verdict or a menu.  Write zeros with a start beyond the  *)
(* end of the device is left out, whose negative rest makes of 2^64 blocks *)
(* or so what the width of the instance makes a handful of.                *)
Running ==
  pc \in {"loop", "set_native", "set_max_lba", "query_pi", "sample", "files", "scan", "close"}
ProcedureEnds == (Running /\ lba_to_process >= 0) ~> ~Running
-----------------------------------------------------------------------------
(* The inductive invariant behind these.                                   *)

(* What the place in the program says of the choice that led there.        *)
PlaceInv ==
  /\ pc \in {"verdict", "list", "device", "exited"} => procedure = "none" /\ consents = 0
  /\ pc = "confirm" => procedure \in Invasive /\ (consents = 0 \/ (consents = 1 /\ dev.mounted))
  /\ pc \in {"option", "open", "loop", "set_native", "set_max_lba"} =>
       (procedure \in Invasive => Consented)
  /\ pc = "open" /\ procedure = "posix_write_zeros" => option \in {0} \cup StartLbas
  /\ pc = "loop" => procedure = "posix_write_zeros"
  /\ pc \in {"set_native", "set_max_lba"} => procedure = "hpa_set"
  /\ pc \in {"query_pi", "sample"} => procedure = "quick_diagnosis"
  /\ pc = "files" => procedure = "copy"
  /\ pc = "scan" => procedure \in {"copy", "read_test"}

(* The sizes in the device list are those of drives, or what the buffer    *)
(* held.                                                                   *)
SizesInv == dev.capacity < Width \div 2

(* While lseek() has not failed, the descriptor is at the block that comes *)
(* next, the sectors up to it have been gone through, and the integers of  *)
(* the code have not run over.                                             *)
WriteInv ==
  seeks_ok =>
    /\ start_lba \in 0 .. Width \div 2 - 1 /\ end_lba < Width \div 2
    /\ lba_to_process >= -(Width \div 2) /\ lba_to_process < Width \div 2
    /\ lba_to_process < 0 => end_lba < start_lba
    /\ lba_to_process > 0 =>
         /\ fd_lba = start_lba + SectorsAtOnce * blk_index
         /\ fd_lba = end_lba - lba_to_process
    /\ zeroed \subseteq start_lba .. end_lba - 1
    /\ report.blk_status = "eOk" => ReportedSectors \subseteq zeroed
    /\ ~write_failed /\ lba_to_process >= 0 =>
         start_lba .. end_lba - lba_to_process - 1 \subseteq zeroed
CountInv ==
  (procedure = "posix_write_zeros" /\ pc \in {"loop", "close"}) =>
    /\ end_lba = dev.capacity /\ num = blk_index
    /\ den = Blocks(end_lba - start_lba)

LimitInv ==
  /\ HpaSettles
  /\ pc = "set_native" => limit = limit_before

(* What has been found out, and that a candidate gone by was read or has   *)
(* failed.                                                                 *)
Found == [geometry_ok : BOOLEAN, physical_known : BOOLEAN, sector_count : Nat,
          pi_known : BOOLEAN, pi_mismatch : BOOLEAN, prot_en : BOOLEAN]
DiagnosisInv ==
  /\ found \in Found
  /\ pc \notin {"sample", "close"} =>
       candidate = 1 /\ conclusion = "none" /\ ~found.pi_known
  /\ pc = "sample" => conclusion = "none"
  /\ found.pi_known =>
       /\ found.prot_en = disk.prot_en
       /\ found.geometry_ok /\ ~found.pi_mismatch => disk.block_length = disk.logical
  /\ \A i \in 1 .. candidate - 1 :
       (i <= 3 /\ ~SampleFailure) => Candidates[i] \in really_read
  /\ NoIssueIsEarned

(* While it is off, Close knows what to put back.                          *)
SettingInv ==
  (IF pc \in {"files", "scan"} THEN old_readahead ELSE readahead) = disk.readahead
    \/ disturbed

ProgramInv ==
  /\ TypeOK /\ PlaceInv /\ SizesInv /\ WriteInv /\ CountInv
  /\ LimitInv /\ DiagnosisInv /\ SettingInv

=============================================================================
