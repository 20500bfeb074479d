------------------------------ MODULE ReadAhead ------------------------------
(***************************************************************************)
(* The read-ahead of the device, which copying and the read test switch    *)
(* off while they run: Open asks for it and sets it to 0, Close sets it to *)
(* what Open was told (copy.c, read_test.c).                               *)
(***************************************************************************)
EXTENDS QuickDiagnosis

VARIABLES
  readahead,      \* the kernel's setting for the device
  old_readahead,  \* what the procedure was told, 0 in a fresh context
  disturbed       \* an ioctl() failed, or Open or the renderer failed or the
                  \* process died with the setting not the drive's own (history)

raVars == <<readahead, old_readahead, disturbed>>

RaInit == readahead = disk.readahead /\ old_readahead = 0 /\ disturbed = FALSE

RaForget == old_readahead' = 0

(* The session is over against the rule.                                   *)
RaAbandon ==
  /\ RaForget
  /\ disturbed' = (readahead # disk.readahead)
  /\ UNCHANGED readahead

\* Mutant of SwitchOff: it is asked for when it is off already.
SwitchOffFirst(asked, off) ==
  /\ readahead' = IF off THEN 0 ELSE readahead
  /\ old_readahead' = IF asked THEN readahead' ELSE 0

SwitchOff(asked, off) ==
  /\ old_readahead' = IF asked THEN readahead ELSE 0
  /\ readahead' = IF off THEN 0 ELSE readahead

(* BLKRAGET and BLKRASET; a failure of either is logged only.              *)
RaOpen ==
  \E asked, off \in BOOLEAN :
    /\ SwitchOff(asked, off)
    /\ disturbed' = (disturbed \/ ~asked)

(* BLKRASET, with a warning when it fails.                                 *)
RaClose ==
  \E restored \in BOOLEAN :
    /\ readahead' = IF restored THEN old_readahead ELSE readahead
    /\ disturbed' = ((disturbed \/ ~restored) /\ readahead' # disk.readahead)
    /\ RaForget

(* The fail path of copying's Open restores it through a descriptor that   *)
(* it has just closed.                                                     *)
RaOpenFails == RaAbandon
=============================================================================
