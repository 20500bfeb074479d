----------------------------- MODULE MCProgram -----------------------------
(***************************************************************************)
(* Instances of Program for TLC.                                           *)
(***************************************************************************)
EXTENDS ProgramProps

Drive(ata, lba48, logical, physical, block_length, prot_en, ahead) ==
  [ata |-> ata, lba48 |-> lba48, logical |-> logical, physical |-> physical,
   block_length |-> block_length, prot_en |-> prot_en, readahead |-> ahead]

(* A 512e ATA drive, a 4Kn one, one without 48-bit addresses, a SCSI drive *)
(* with protection information, and two whose transports translate sizes.  *)
(* The fourth has its read-ahead on.                                       *)
MCDisks ==
  { Drive(TRUE, TRUE, 1, 2, 1, FALSE, 0),
    Drive(TRUE, TRUE, 2, 2, 2, FALSE, 0),
    Drive(TRUE, FALSE, 1, 1, 1, FALSE, 0),
    Drive(FALSE, FALSE, 1, 1, 1, TRUE, 1),
    Drive(FALSE, FALSE, 2, 2, 1, FALSE, 0),
    Drive(FALSE, FALSE, 2, 1, 2, FALSE, 0) }

(* Before, inside and far beyond the drive.                                *)
MCStartLbas == {-1, 1, 9}

(* The commonest drive by itself, and the sector after the first two.      *)
OneAtaDrive == { Drive(TRUE, TRUE, 1, 2, 1, FALSE, 0) }
StartInside == {3}
=============================================================================
