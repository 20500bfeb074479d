------------------------------ MODULE Program ------------------------------
(***************************************************************************)
(* The two programs around the library: whdd with its dialogs              *)
(* (cui/main.c), whdd-cli (cli/main.c), and whdd called with               *)
(* --quick-diagnosis or --smart for one device.  A loop of menus that ends *)
(* in a procedure, on a drive that keeps its state over all runs.          *)
(***************************************************************************)
EXTENDS ReadAhead

CONSTANTS
  StartLbas,   \* what the user may enter for start_lba
  MaxLbas      \* what the user may enter for max_lba besides the suggestion

ASSUME OptionsAssumption == StartLbas \subseteq Int /\ MaxLbas \subseteq Int
(* What the user enters, and the size of a drive, fit a signed integer.    *)
ASSUME SizesAssumption ==
  /\ StartLbas \subseteq -(Width \div 2) .. Width \div 2 - 1
  /\ \A d \in Disks : Native * d.logical < Width \div 2
  /\ \A size \in Garbage : size < Width \div 2

VARIABLES
  frontend, pc,
  procedure,   \* the choice of the menu
  option,      \* the value of its option
  consents     \* questions answered with yes for this choice (history)

menuVars == <<frontend, pc, procedure, option, consents>>
vars == <<driveVars, dev, wzVars, hpaVars, qdVars, raVars, menuVars>>

Frontends == {"whdd", "whdd-cli", "one_shot"}
Procedures == {"hpa_set", "posix_write_zeros", "copy", "read_test", "smart_show",
               "quick_diagnosis"}
Invasive == {"hpa_set", "posix_write_zeros"}
Looped == {"posix_write_zeros", "copy", "read_test"}  \* those with a perform
RequiresAta == {"hpa_set"}

Init ==
  /\ DriveInit /\ dev = NoDevice
  /\ WzIdle /\ HpaIdle /\ QdIdle /\ RaInit
  /\ frontend \in Frontends /\ pc = "list"
  /\ procedure = "none" /\ option = 0 /\ consents = 0

procVars == <<wzVars, hpaVars, qdVars, raVars>>

-----------------------------------------------------------------------------
(* The menus                                                               *)

(* dc_dev_list: whdd builds it once, whdd-cli before every choice.         *)
ListDevices ==
  /\ pc = "list"
  /\ BuildDevList
  /\ pc' = "device"
  /\ UNCHANGED <<driveVars, procVars, frontend, procedure, option, consents>>

(* The choice of a device is cancelled, or the device of the command line  *)
(* is not in the list.                                                     *)
NoDeviceChosen ==
  /\ pc = "device"
  /\ pc' = "exited" /\ dev' = NoDevice
  /\ UNCHANGED <<driveVars, procVars, frontend, procedure, option, consents>>

(* whdd does not offer what the device cannot do; whdd-cli offers all.     *)
Offered ==
  CASE frontend = "whdd" ->
         { p \in Procedures : p \in RequiresAta => dev.ata_capable }
    [] frontend = "whdd-cli" -> Procedures
    [] OTHER -> {"quick_diagnosis", "smart_show"}

AfterChoice(p) ==
  IF p \in Invasive THEN "confirm"
  ELSE IF p \in {"copy", "read_test"} THEN "option" ELSE "open"

ChooseProcedure ==
  /\ pc = "device"
  /\ \E p \in Offered : procedure' = p /\ pc' = AfterChoice(p)
  /\ UNCHANGED <<driveVars, dev, procVars, frontend, option, consents>>

(* The list of whdd stays as it is.                                        *)
ForgetChoice ==
  /\ dev' = IF frontend = "whdd" THEN dev ELSE NoDevice
  /\ procedure' = "none" /\ option' = 0 /\ consents' = 0
  /\ UNCHANGED frontend

(* Back to the choice of a device.                                         *)
FirstMenu ==
  CASE frontend = "whdd" -> "device"
    [] frontend = "whdd-cli" -> "list"
    [] OTHER -> "exited"
NextRound == ForgetChoice /\ pc' = FirstMenu

(* The menu of procedures is cancelled.                                    *)
NoProcedureChosen ==
  /\ pc = "device" /\ frontend # "one_shot"
  /\ pc' = IF frontend = "whdd" THEN "device" ELSE "exited"
  /\ dev' = IF frontend = "whdd" THEN dev ELSE NoDevice
  /\ UNCHANGED <<driveVars, procVars, frontend, procedure, option, consents>>

\* Mutant of AfterYes: a mounted device is not asked about again.
AfterYesAtOnce == "option"

AfterYes == IF dev.mounted /\ consents = 0 THEN "confirm" ELSE "option"

(* "Are you sure", and once more for a mounted device.                     *)
AnswerYes ==
  /\ pc = "confirm"
  /\ consents' = consents + 1 /\ pc' = AfterYes
  /\ UNCHANGED <<driveVars, dev, procVars, frontend, procedure, option>>

(* A question answered with no, an option cancelled, a value that does not *)
(* parse (from the user or from ~/.whddrc), a procedure that does not open.*)
TurnBack ==
  /\ pc \in {"confirm", "option", "open"}
  /\ NextRound
  /\ UNCHANGED <<driveVars, procVars>>

Suggested == IF procedure = "hpa_set" THEN NativeMaxLba ELSE 0
Entered ==
  CASE procedure = "hpa_set" -> MaxLbas
    [] procedure = "posix_write_zeros" -> StartLbas
    [] OTHER -> {}

(* The value comes from the user, the configuration or the suggestion.     *)
AskOption ==
  /\ pc = "option"
  /\ option' \in {Suggested} \cup Entered
  /\ pc' = "open"
  /\ UNCHANGED <<driveVars, dev, procVars, frontend, procedure, consents>>

-----------------------------------------------------------------------------
(* The procedures                                                          *)

OpenWriteZeros ==
  /\ pc = "open" /\ procedure = "posix_write_zeros"
  /\ WzOpen(option)
  /\ pc' = "loop"
  /\ UNCHANGED <<hpaVars, qdVars, raVars, frontend, procedure, option, consents>>

WriteZerosBlock ==
  /\ pc = "loop" /\ num < den
  /\ WzPerform
  /\ UNCHANGED <<hpaVars, qdVars, raVars, menuVars>>

WriteZerosDone ==
  /\ pc = "loop" /\ num >= den
  /\ pc' = "close"
  /\ UNCHANGED <<driveVars, dev, procVars, frontend, procedure, option, consents>>

OpenHpaSet ==
  /\ pc = "open" /\ procedure = "hpa_set"
  /\ HpaOpen(option)
  /\ pc' = "set_native"
  /\ UNCHANGED <<driveVars, dev, wzVars, qdVars, raVars, frontend, procedure, option,
                 consents>>

HpaNativeStep ==
  /\ pc = "set_native"
  /\ HpaSetNative
  /\ pc' = "set_max_lba"
  /\ UNCHANGED <<disk, ksize, zeroed, dev, wzVars, qdVars, raVars, frontend, procedure,
                 option, consents>>

HpaMaxLbaStep ==
  /\ pc = "set_max_lba"
  /\ HpaSetMaxLba
  /\ pc' = "close"
  /\ UNCHANGED <<disk, ksize, zeroed, dev, wzVars, qdVars, raVars, frontend, procedure,
                 option, consents>>

OpenQuickDiagnosis ==
  /\ pc = "open" /\ procedure = "quick_diagnosis"
  /\ QueryGeometry
  /\ pc' = "query_pi"
  /\ UNCHANGED <<driveVars, dev, wzVars, hpaVars, raVars, frontend, procedure, option,
                 consents>>

QuickDiagnosisStep ==
  /\ \/ pc = "query_pi" /\ QueryPi /\ pc' = "sample"
     \/ pc = "sample" /\ TakeSample /\ UNCHANGED pc
     \/ pc = "sample" /\ Conclude /\ pc' = "close"
  /\ UNCHANGED <<driveVars, dev, wzVars, hpaVars, raVars, frontend, procedure, option,
                 consents>>

(* smart_show hands the text of smartctl to the log.                       *)
ShowSmart ==
  /\ pc = "open" /\ procedure = "smart_show"
  /\ pc' = "close"
  /\ UNCHANGED <<driveVars, dev, procVars, frontend, procedure, option, consents>>

(* Copying and the read test have modules of their own.  Here they change  *)
(* nothing of the drive but its read-ahead; copying then opens its files.  *)
OpenScan ==
  /\ pc = "open" /\ procedure \in {"copy", "read_test"}
  /\ RaOpen
  /\ pc' = IF procedure = "copy" THEN "files" ELSE "scan"
  /\ UNCHANGED <<driveVars, dev, wzVars, hpaVars, qdVars, frontend, procedure, option,
                 consents>>

OpenFiles ==
  /\ pc = "files"
  /\ \/ /\ pc' = "scan"
        /\ UNCHANGED <<dev, raVars, frontend, procedure, option, consents>>
     \/ RaOpenFails /\ NextRound
  /\ UNCHANGED <<driveVars, wzVars, hpaVars, qdVars>>

(* The loop ends, by itself or by SIGINT.                                  *)
CloseScan ==
  /\ pc = "scan"
  /\ RaClose
  /\ pc' = "close"
  /\ UNCHANGED <<driveVars, dev, wzVars, hpaVars, qdVars, frontend, procedure, option,
                 consents>>

ForgetSession ==
  /\ WzForget /\ HpaForget /\ QdForget /\ zeroed' = {}
  /\ UNCHANGED <<disk, limit, ksize>>

(* SIGINT during the loop, seen before the next block.                     *)
Interrupted ==
  /\ pc = "loop"
  /\ pc' = "close"
  /\ UNCHANGED <<driveVars, dev, procVars, frontend, procedure, option, consents>>

(* render_procedure of whdd when the renderer does not open, in a terminal *)
(* too small for it: it returns before the first block, and what Open has  *)
(* begun is never closed.                                                  *)
RendererFails ==
  /\ frontend = "whdd"
  /\ pc = "scan" \/ (pc = "loop" /\ num = 0)
  /\ ForgetSession /\ RaAbandon /\ NextRound

(* dc_procedure_close, after which the renderer of whdd shows its verdict. *)
CloseProcedure ==
  /\ pc = "close"
  /\ ForgetSession /\ ForgetChoice
  /\ pc' = IF frontend = "whdd" /\ procedure \in Looped THEN "verdict" ELSE FirstMenu
  /\ UNCHANGED raVars

(* "Press 'm' for menu"                                                    *)
PressM ==
  /\ pc = "verdict"
  /\ pc' = "device"
  /\ UNCHANGED <<driveVars, dev, procVars, frontend, procedure, option, consents>>

-----------------------------------------------------------------------------
(* The process dies.                                                       *)
Killed ==
  /\ pc # "exited"
  /\ ForgetSession /\ RaAbandon
  /\ pc' = "exited" /\ dev' = NoDevice
  /\ procedure' = "none" /\ option' = 0 /\ consents' = 0
  /\ UNCHANGED frontend

StartProgram ==
  /\ pc = "exited"
  /\ frontend' \in Frontends /\ pc' = "list"
  /\ UNCHANGED <<driveVars, dev, procVars, procedure, option, consents>>

Rescan == Revalidate /\ UNCHANGED <<dev, procVars, menuVars>>

MenuStep ==
  ListDevices \/ NoDeviceChosen \/ ChooseProcedure \/ NoProcedureChosen
  \/ AnswerYes \/ TurnBack \/ AskOption \/ PressM
ProcedureStep ==
  \/ OpenWriteZeros \/ WriteZerosBlock \/ WriteZerosDone
  \/ OpenHpaSet \/ HpaNativeStep \/ HpaMaxLbaStep
  \/ OpenQuickDiagnosis \/ QuickDiagnosisStep
  \/ ShowSmart \/ OpenScan \/ OpenFiles \/ CloseScan \/ CloseProcedure

Next == MenuStep \/ ProcedureStep \/ RendererFails \/ Interrupted \/ Killed
        \/ StartProgram \/ Rescan

Spec == Init /\ [][Next]_vars

(* The program goes on with what it has begun.  No answer of the user to a *)
(* menu is assumed, nor the key after a verdict; but a message of the log  *)
(* is a dialog in whdd (log_cb), and that the user puts it away is part of *)
(* the fairness of a step that may log.                                    *)
FairSpec == Spec /\ WF_vars(ListDevices) /\ WF_vars(ProcedureStep)
=============================================================================
