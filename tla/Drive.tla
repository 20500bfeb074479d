-------------------------------- MODULE Drive --------------------------------
(***************************************************************************)
(* The drive and what the kernel knows of it, as far as the library sees   *)
(* them through its system calls, and the part of the library that sends   *)
(* commands to the drive and decodes its answers (scsi.c, utils.c).        *)
(*                                                                         *)
(* The library counts in sectors of 512 bytes; a logical sector of the     *)
(* drive holds disk.logical of them.  limit and ksize are in logical       *)
(* sectors, positions of descriptors in sectors of the library.            *)
(***************************************************************************)
EXTENDS Integers, FiniteSets

CONSTANTS
  Native,      \* logical sectors the drive has
  Disks,       \* the kinds of drive, with the read-ahead the kernel gives them
  AddressSpan, \* 2^48: values of the address field of a command
  Garbage      \* capacities an unwritten IDENTIFY buffer may happen to hold

ASSUME NativeAssumption == Native \in Nat \ {0}
ASSUME AddressAssumption == AddressSpan \in Nat /\ AddressSpan > Native
ASSUME GarbageAssumption == Garbage \subseteq Nat
ASSUME DisksAssumption ==
  Disks \subseteq [ata : BOOLEAN, lba48 : BOOLEAN, logical : Nat \ {0},
                   physical : Nat \ {0}, block_length : Nat, prot_en : BOOLEAN,
                   readahead : Nat]

VARIABLES
  disk,    \* the kind of the drive
  limit,   \* how many logical sectors the drive lets be reached
  ksize,   \* how many the kernel believes there are
  zeroed   \* the sectors overwritten by the procedure now running

driveVars == <<disk, limit, ksize, zeroed>>

DriveSectors == 0 .. Native * disk.logical - 1
KernelEnd == ksize * disk.logical
DriveEnd == limit * disk.logical

DriveInit ==
  /\ disk \in Disks
  /\ limit \in 1 .. Native /\ ksize = limit
  /\ zeroed = {}

(* The kernel looks at the drive again (a rescan, a reset of the bus).     *)
Revalidate ==
  /\ ksize # limit
  /\ ksize' = limit
  /\ UNCHANGED <<disk, limit, zeroed>>

-----------------------------------------------------------------------------
(* Commands by SG_IO                                                       *)

(* How a command may come back.  Done: executed, the registers are in the  *)
(* sense data.  Refused: the same with the error bit.  Illegal: no ATA     *)
(* device behind the transport.  Lost: it timed out or the transport       *)
(* failed, which only host_status tells.  Ioctl: ioctl() itself failed.    *)
Answers ==
  IF disk.ata THEN {"done", "refused", "lost", "ioctl"}
  ELSE {"illegal", "lost", "ioctl"}

Format(answer) ==
  CASE answer \in {"done", "refused"} -> "descriptor"
    [] answer = "illegal" -> "fixed"
    [] OTHER -> "none"

(* The sense key, or -1 when there is no sense data.                       *)
SenseKey(answer) ==
  IF Format(answer) = "none" THEN -1
  ELSE CASE answer = "done" -> 1 [] answer = "refused" -> 11 [] OTHER -> 5

(* The registers are read from where a descriptor has them, whatever the   *)
(* format: zeros, when there is no descriptor.                             *)
ReturnStatusErr(answer) == Format(answer) = "descriptor" /\ answer = "refused"
ReturnLba(answer, lba) ==
  IF Format(answer) = "descriptor" /\ ~ReturnStatusErr(answer) THEN lba ELSE 0

(* What the library takes for success: an ioctl() that worked, no error    *)
(* bit and no sense key above 1.                                           *)
Succeeds(answer) ==
  answer # "ioctl" /\ ~(ReturnStatusErr(answer) \/ SenseKey(answer) > 1)

(* SET MAX ADDRESS EXT: the address field has 48 bits, and the drive does  *)
(* not move beyond its native size.  A command that got lost may have been *)
(* executed.                                                               *)
Reachable(max_lba) == disk.lba48 /\ max_lba % AddressSpan < Native
SetMax(answer, max_lba) ==
  \/ /\ answer \in {"done", "lost"} /\ Reachable(max_lba) /\ disk.ata
     /\ limit' = (max_lba % AddressSpan) + 1
  \/ /\ answer # "done"
     /\ limit' = limit

-----------------------------------------------------------------------------
(* A descriptor of the block device                                        *)

(* Where lseek() leaves a descriptor that is at from: positions beyond the *)
(* kernel's size, and negative ones, are refused.                          *)
SeekAccepts(to) == to \in 0 .. KernelEnd
Seek(from, to) == IF SeekAccepts(to) THEN to ELSE from

(* A write() of direct I/O that is aligned and inside the device.          *)
WriteFits(at, count) ==
  /\ at % disk.logical = 0 /\ count % disk.logical = 0
  /\ at + count <= KernelEnd /\ at + count <= DriveEnd

(* What a write() that falls short may have written.                       *)
WrittenBefore(at, count) ==
  { n \in 0 .. count : n % disk.logical = 0 /\ (n = 0 \/ WriteFits(at, n)) }
=============================================================================
