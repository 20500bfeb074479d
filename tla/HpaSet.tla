------------------------------- MODULE HpaSet -------------------------------
(***************************************************************************)
(* The procedure "Setup Host Protected Area" (hpa_set.c): two commands,    *)
(* one that opens the whole drive and one that sets the limit asked for.   *)
(***************************************************************************)
EXTENDS WriteZeros

VARIABLES
  max_lba,      \* the option
  set_failed,   \* "Command SET MAX ADDRESS EXT failed" was logged
  lost,         \* a command got lost (history)
  limit_before  \* the limit when the procedure was opened (history)

hpaVars == <<max_lba, set_failed, lost, limit_before>>

HpaIdle == max_lba = 0 /\ set_failed = FALSE /\ lost = FALSE /\ limit_before = 0

HpaForget ==
  max_lba' = 0 /\ set_failed' = FALSE /\ lost' = FALSE /\ limit_before' = 0

(* The suggestion, and the first command's argument: the native capacity   *)
(* of the device list, whose sectors are of 512 bytes both times.          *)
NativeMaxLba == dev.native_capacity - 1

\* Mutant of FirstMaxLba: the commands are given in the other order.
FirstMaxLbaAsked == max_lba

FirstMaxLba == NativeMaxLba

HpaOpen(value) ==
  /\ max_lba' = value /\ set_failed' = FALSE /\ lost' = FALSE
  /\ limit_before' = limit

(* dc_dev_set_max_lba(native_capacity / 512 - 1): the result is ignored.   *)
HpaSetNative ==
  \E answer \in Answers :
    /\ SetMax(answer, FirstMaxLba)
    /\ lost' = (answer = "lost")
    /\ UNCHANGED <<max_lba, set_failed, limit_before>>

(* dc_dev_set_max_lba(max_lba): a failure is logged, Open succeeds anyway. *)
HpaSetMaxLba ==
  \E answer \in Answers :
    /\ SetMax(answer, max_lba)
    /\ set_failed' = ~Succeeds(answer)
    /\ lost' = (lost \/ answer = "lost")
    /\ UNCHANGED <<max_lba, limit_before>>
=============================================================================
