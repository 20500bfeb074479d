--------------------------- MODULE QuickDiagnosis ---------------------------
(***************************************************************************)
(* The procedure "Quick disk diagnosis" (quick_diagnosis.c) with the       *)
(* queries and the one-sector reads it makes (blk_probe.c, scsi.c): all of *)
(* it happens in Open.  Every query opens the device anew, so the kernel   *)
(* may have changed its mind in between.                                   *)
(***************************************************************************)
EXTENDS HpaSet

VARIABLES
  found,       \* what the queries told: the fields of QuickDiagnosisPriv
  candidate,   \* the next of the candidates to be sampled, from 1
  samples,     \* the samples taken: sector and status
  really_read, \* the sectors a pread() has delivered (history)
  conclusion

qdVars == <<found, candidate, samples, really_read, conclusion>>

Unknown == [geometry_ok |-> FALSE, physical_known |-> FALSE, sector_count |-> 0,
            pi_known |-> FALSE, pi_mismatch |-> FALSE, prot_en |-> FALSE]
Conclusions == {"none", "sample_failed", "compatibility", "inconclusive",
                "pi_enabled", "no_issue"}

QdIdle ==
  /\ found = Unknown /\ candidate = 1 /\ samples = {} /\ really_read = {}
  /\ conclusion = "none"

QdForget ==
  /\ found' = Unknown /\ candidate' = 1 /\ samples' = {} /\ really_read' = {}
  /\ conclusion' = "none"

(* BLKSSZGET with BLKGETSIZE64, and BLKPBSZGET; each may fail.             *)
QueryGeometry ==
  /\ \E sizes, physical \in BOOLEAN :
       found' = [Unknown EXCEPT !.geometry_ok = sizes,
                                !.sector_count = IF sizes THEN ksize ELSE 0,
                                !.physical_known = physical]
  /\ UNCHANGED <<candidate, samples, really_read, conclusion>>

(* The answer to READ CAPACITY(16), which may come from the drive or from  *)
(* the kernel's translation, differs from the geometry of the kernel.      *)
PiMismatch(sectors) ==
  found.geometry_ok
    /\ (disk.block_length # disk.logical \/ sectors # found.sector_count)

(* Only a command that succeeded in every status, with a block length.     *)
PiKnown(done) == done /\ disk.block_length # 0

QueryPi ==
  /\ \E done \in BOOLEAN, sectors \in {limit, ksize} :
       found' = [found EXCEPT
                   !.pi_known = PiKnown(done),
                   !.pi_mismatch = PiKnown(done) /\ PiMismatch(sectors),
                   !.prot_en = done /\ disk.prot_en]
  /\ UNCHANGED <<candidate, samples, really_read, conclusion>>

(* The sectors to be sampled; what occurs twice is read once.              *)
Candidates == <<0, found.sector_count \div 2, found.sector_count - 1>>
NoneLeft == candidate > 3 \/ ~found.geometry_ok
Duplicate == \E i \in 1 .. candidate - 1 : Candidates[i] = Candidates[candidate]

(* dc_blk_read of one sector: the sizes are asked again and the sector     *)
(* must be inside them; then pread() must deliver it.                      *)
Delivers(lba) == lba < ksize /\ lba < limit
TakeSample ==
  /\ ~NoneLeft
  /\ candidate' = candidate + 1
  /\ LET lba == Candidates[candidate]
     IN \/ Duplicate /\ UNCHANGED <<samples, really_read>>
        \/ /\ ~Duplicate /\ Delivers(lba)
           /\ samples' = samples \cup {[lba |-> lba, blk_status |-> "eOk"]}
           /\ really_read' = really_read \cup {lba}
        \/ /\ ~Duplicate
           /\ samples' = samples \cup {[lba |-> lba, blk_status |-> "eError"]}
           /\ UNCHANGED really_read
  /\ UNCHANGED <<found, conclusion>>

(* 512n, 512e and 4Kn have names, when the physical size is known; a       *)
(* logical size of 2 stands for the 4096 bytes of 4Kn.                     *)
Named ==
  \/ disk.logical = 1 /\ disk.physical >= 1
  \/ disk.logical = 2 /\ disk.physical = 2
GeometryWarning == ~found.geometry_ok \/ ~found.physical_known \/ ~Named

SampleFailure == \E s \in samples : s.blk_status # "eOk"

\* Mutant of PiVerdict: the flag of a query that failed is believed.
PiVerdictUnchecked == IF found.prot_en THEN "pi_enabled" ELSE "no_issue"

PiVerdict ==
  IF ~found.pi_known THEN "inconclusive"
  ELSE IF found.prot_en THEN "pi_enabled" ELSE "no_issue"

Conclude ==
  /\ NoneLeft
  /\ conclusion' =
       IF SampleFailure THEN "sample_failed"
       ELSE IF GeometryWarning \/ found.pi_mismatch THEN "compatibility"
       ELSE PiVerdict
  /\ UNCHANGED <<found, candidate, samples, really_read>>
=============================================================================
