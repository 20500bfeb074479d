----------------------------- MODULE DeviceList -----------------------------
(***************************************************************************)
(* The list of devices (libdevcheck.c): what dc_dev_list finds out about   *)
(* the device and keeps until the list is built again.                     *)
(***************************************************************************)
EXTENDS Drive

VARIABLE dev   \* the DC_Dev of the list last built

Device == [ata_capable : BOOLEAN, capacity : Nat, native_capacity : Nat,
           mounted : BOOLEAN]
NoDevice == [ata_capable |-> FALSE, capacity |-> 0, native_capacity |-> 0,
             mounted |-> FALSE]

(* /proc/partitions counts in KiB: two sectors.                            *)
PartitionsCapacity == (KernelEnd \div 2) * 2

(* The capacity a drive gives in words 100-102 of IDENTIFY, taken for      *)
(* sectors of 512 bytes; a drive without 48-bit addresses has 0 there.     *)
(* After a command that got lost the buffer is what the stack held.        *)
IdentifyCapacity(answer) ==
  IF answer = "done" THEN {IF disk.lba48 THEN limit ELSE 0} ELSE Garbage

(* READ NATIVE MAX ADDRESS: only a failed ioctl() counts as a failure.     *)
NativeCapacity(answer) ==
  IF answer = "ioctl" THEN 0
  ELSE ReturnLba(answer, Native - 1) + 1

MtabLines == {"partition", "longer_name", "mapper"}

(* A line of /etc/mtab that begins with the path of the device: one of     *)
(* its partitions, or another device whose name is longer; not a file      *)
(* system on a mapping of the device.                                      *)
DevMounted(mtab) == mtab \cap {"partition", "longer_name"} # {}

\* The second IDENTIFY and READ NATIVE MAX ADDRESS of an ATA device.
AtaInfo(again, native, words) ==
  [ata_capable |-> TRUE,
   capacity |-> IF Succeeds(again) THEN words ELSE PartitionsCapacity,
   native_capacity |-> NativeCapacity(native)]
OtherInfo ==
  [ata_capable |-> FALSE, capacity |-> PartitionsCapacity, native_capacity |-> 0]

(* Builds the list.                                                        *)
BuildDevList ==
  \E identify, again, native \in Answers, mtab \in SUBSET MtabLines :
    \E words \in IdentifyCapacity(again) :
      LET info == IF Succeeds(identify) THEN AtaInfo(again, native, words)
                  ELSE OtherInfo
      IN dev' = [ata_capable |-> info.ata_capable, capacity |-> info.capacity,
                 native_capacity |-> info.native_capacity,
                 mounted |-> DevMounted(mtab)]
=============================================================================
