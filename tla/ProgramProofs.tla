---------------------------- MODULE ProgramProofs ----------------------------
(***************************************************************************)
(* The invariants of the two programs and of the procedures that change or *)
(* diagnose the drive, for every kind and size of drive, every width of    *)
(* the integers, and every value the user may enter.                       *)
(***************************************************************************)
EXTENDS ProgramProps, TLAPS

-----------------------------------------------------------------------------
(* Which step changes what.                                                *)

LEMMA MenuFrame ==
  ASSUME MenuStep
  PROVE  /\ UNCHANGED <<driveVars, procVars>>
         /\ dev' = dev \/ procedure' = "none" \/ pc' = "device" \/ pc' = "exited"
         /\ dev' = dev \/ dev' = NoDevice \/ BuildDevList
BY DEF MenuStep, PressM, ListDevices, NoDeviceChosen, ChooseProcedure, NoProcedureChosen,
       AnswerYes, TurnBack, AskOption, NextRound, ForgetChoice, FirstMenu

(* The drive keeps its kind; its limit is changed by the two commands of   *)
(* hpa_set alone, its sectors by write zeros alone.                        *)
LEMMA DriveFrame ==
  ASSUME [Next]_vars
  PROVE  /\ disk' = disk
         /\ limit' = limit \/ HpaNativeStep \/ HpaMaxLbaStep
         /\ ksize' = ksize \/ ksize' = limit
         /\ dev' = dev \/ dev' = NoDevice \/ BuildDevList
<1>1. CASE MenuStep
  BY <1>1, MenuFrame DEF driveVars
<1>2. CASE OpenWriteZeros \/ WriteZerosBlock \/ WriteZerosDone
  BY <1>2 DEF OpenWriteZeros, WriteZerosBlock, WriteZerosDone, WzOpen, WzPerform, driveVars
<1>3. CASE OpenHpaSet \/ HpaNativeStep \/ HpaMaxLbaStep
  BY <1>3 DEF OpenHpaSet, HpaNativeStep, HpaMaxLbaStep, driveVars
<1>4. CASE OpenQuickDiagnosis \/ QuickDiagnosisStep \/ ShowSmart \/ OpenScan \/ CloseScan
  BY <1>4 DEF OpenQuickDiagnosis, QuickDiagnosisStep, ShowSmart, OpenScan, CloseScan, driveVars
<1>5. CASE OpenFiles \/ RendererFails \/ CloseProcedure
  BY <1>5 DEF OpenFiles, RendererFails, CloseProcedure, NextRound, ForgetChoice, FirstMenu,
              ForgetSession, driveVars
<1>6. CASE Interrupted \/ Killed \/ StartProgram \/ Rescan
  BY <1>6 DEF Interrupted, Killed, StartProgram, Rescan, ForgetSession, Revalidate, driveVars
<1>7. CASE UNCHANGED vars
  BY <1>7 DEF vars, driveVars
<1> QED
  BY <1>1, <1>2, <1>3, <1>4, <1>5, <1>6, <1>7 DEF Next, ProcedureStep

LEMMA ProcedureFrame ==
  ASSUME [Next]_vars
  PROVE  /\ \/ UNCHANGED <<wzVars, zeroed>> \/ OpenWriteZeros \/ WriteZerosBlock
            \/ (WzForget /\ zeroed' = {})
         /\ \/ UNCHANGED hpaVars \/ OpenHpaSet \/ HpaNativeStep \/ HpaMaxLbaStep \/ HpaForget
         /\ \/ UNCHANGED qdVars \/ OpenQuickDiagnosis \/ QuickDiagnosisStep \/ QdForget
         /\ \/ UNCHANGED raVars \/ OpenScan \/ OpenFiles \/ CloseScan \/ RendererFails \/ Killed
<1>1. CASE MenuStep
  BY <1>1, MenuFrame DEF driveVars, procVars
<1>2. CASE OpenWriteZeros \/ WriteZerosBlock \/ WriteZerosDone
  BY <1>2 DEF OpenWriteZeros, WriteZerosBlock, WriteZerosDone, procVars, driveVars
<1>3. CASE OpenHpaSet \/ HpaNativeStep \/ HpaMaxLbaStep
  BY <1>3 DEF OpenHpaSet, HpaNativeStep, HpaMaxLbaStep, driveVars
<1>4. CASE OpenQuickDiagnosis \/ QuickDiagnosisStep \/ ShowSmart \/ OpenScan \/ CloseScan
  BY <1>4 DEF OpenQuickDiagnosis, QuickDiagnosisStep, ShowSmart, OpenScan, CloseScan,
              driveVars, procVars
<1>5. CASE OpenFiles \/ RendererFails \/ CloseProcedure
  BY <1>5 DEF OpenFiles, RendererFails, CloseProcedure, ForgetSession, driveVars
<1>6. CASE Interrupted \/ Killed \/ StartProgram \/ Rescan
  BY <1>6 DEF Interrupted, Killed, StartProgram, Rescan, ForgetSession, Revalidate, driveVars,
              procVars
<1>7. CASE UNCHANGED vars
  BY <1>7 DEF vars, driveVars
<1> QED
  BY <1>1, <1>2, <1>3, <1>4, <1>5, <1>6, <1>7 DEF Next, ProcedureStep

-----------------------------------------------------------------------------
(* The menus.                                                              *)

LEMMA MenuTypesStep ==
  ASSUME ProgramInv, [Next]_vars
  PROVE  MenuTypes'
<1>1. /\ frontend \in Frontends /\ procedure \in Procedures \cup {"none"}
      /\ option \in Int /\ consents \in 0 .. 2 /\ MenuTypes /\ dev \in Device
      /\ (pc = "confirm" => consents \in {0, 1})
  BY DEF ProgramInv, TypeOK, MenuTypes, PlaceInv, DriveTypes
<1>2. CASE MenuStep
  <2>1. CASE ListDevices \/ NoDeviceChosen \/ NoProcedureChosen \/ TurnBack \/ PressM
    BY <1>1, <2>1 DEF ListDevices, NoDeviceChosen, NoProcedureChosen, TurnBack, PressM,
                      NextRound, ForgetChoice, FirstMenu, MenuTypes
  <2>2. CASE ChooseProcedure
    BY <1>1, <2>2 DEF ChooseProcedure, Offered, AfterChoice, Procedures, MenuTypes
  <2>3. CASE AnswerYes
    BY <1>1, <2>3 DEF AnswerYes, AfterYes, MenuTypes
  <2>4. CASE AskOption
    <3>1. Suggested \in Int /\ Entered \subseteq Int
      BY <1>1, OptionsAssumption DEF Suggested, Entered, NativeMaxLba, Device
    <3>2. option' \in Int
      BY <2>4, <3>1 DEF AskOption
    <3> QED
      BY <1>1, <2>4, <3>2 DEF AskOption, MenuTypes
  <2> QED
    BY <1>2, <2>1, <2>2, <2>3, <2>4 DEF MenuStep
<1>3. CASE OpenWriteZeros \/ WriteZerosBlock \/ WriteZerosDone \/ OpenHpaSet \/ HpaNativeStep
             \/ HpaMaxLbaStep
  BY <1>1, <1>3 DEF OpenWriteZeros, WriteZerosBlock, WriteZerosDone, OpenHpaSet, HpaNativeStep,
                    HpaMaxLbaStep, menuVars, MenuTypes
<1>4. CASE OpenQuickDiagnosis \/ QuickDiagnosisStep \/ ShowSmart \/ OpenScan \/ CloseScan
  BY <1>1, <1>4 DEF OpenQuickDiagnosis, QuickDiagnosisStep, ShowSmart, OpenScan, CloseScan,
                    MenuTypes
<1>5. CASE OpenFiles \/ RendererFails \/ CloseProcedure
  BY <1>1, <1>5 DEF OpenFiles, RendererFails, CloseProcedure, NextRound, ForgetChoice,
                    FirstMenu, MenuTypes
<1>6. CASE Interrupted \/ Killed \/ StartProgram \/ Rescan \/ UNCHANGED vars
  BY <1>1, <1>6 DEF Interrupted, Killed, StartProgram, Rescan, vars, menuVars, MenuTypes
<1> QED
  BY <1>2, <1>3, <1>4, <1>5, <1>6 DEF Next, ProcedureStep

LEMMA PlaceStep ==
  ASSUME ProgramInv, [Next]_vars
  PROVE  PlaceInv'
<1>1. PlaceInv /\ consents \in 0 .. 2
  BY DEF ProgramInv, TypeOK, MenuTypes
<1>2. CASE MenuStep
  <2>1. CASE ListDevices \/ NoDeviceChosen \/ NoProcedureChosen \/ TurnBack \/ PressM
    BY <1>1, <2>1 DEF ListDevices, NoDeviceChosen, NoProcedureChosen, TurnBack, PressM,
                      NextRound, ForgetChoice, FirstMenu, PlaceInv, Consented
  <2>2. CASE ChooseProcedure
    BY <1>1, <2>2 DEF ChooseProcedure, AfterChoice, PlaceInv, Consented, Invasive
  <2>3. CASE AnswerYes
    BY <1>1, <2>3 DEF AnswerYes, AfterYes, PlaceInv, Consented
  <2>4. CASE AskOption
    <3>1. procedure = "posix_write_zeros" => option' \in {0} \cup StartLbas
      BY <2>4 DEF AskOption, Suggested, Entered
    <3> QED
      BY <1>1, <2>4, <3>1 DEF AskOption, PlaceInv, Consented
  <2> QED
    BY <1>2, <2>1, <2>2, <2>3, <2>4 DEF MenuStep
<1>3. CASE OpenWriteZeros \/ WriteZerosBlock \/ WriteZerosDone
  BY <1>1, <1>3 DEF OpenWriteZeros, WriteZerosBlock, WriteZerosDone, WzOpen, WzPerform,
                    menuVars, PlaceInv, Consented
<1>4. CASE OpenHpaSet \/ HpaNativeStep \/ HpaMaxLbaStep
  BY <1>1, <1>4 DEF OpenHpaSet, HpaNativeStep, HpaMaxLbaStep, PlaceInv, Consented
<1>5. CASE OpenQuickDiagnosis \/ QuickDiagnosisStep \/ ShowSmart \/ OpenScan \/ CloseScan
  BY <1>1, <1>5 DEF OpenQuickDiagnosis, QuickDiagnosisStep, ShowSmart, OpenScan, CloseScan,
                    PlaceInv, Consented
<1>6. CASE OpenFiles \/ RendererFails \/ CloseProcedure
  BY <1>1, <1>6 DEF OpenFiles, RendererFails, CloseProcedure, NextRound, ForgetChoice,
                    FirstMenu, PlaceInv, Consented
<1>7. CASE Interrupted \/ Killed \/ StartProgram \/ Rescan \/ UNCHANGED vars
  BY <1>1, <1>7 DEF Interrupted, Killed, StartProgram, Rescan, vars, menuVars, PlaceInv,
                    Consented
<1> QED
  BY <1>2, <1>3, <1>4, <1>5, <1>6, <1>7 DEF Next, ProcedureStep
-----------------------------------------------------------------------------
(* The drive and the device list.                                          *)

LEMMA Scaled ==
  ASSUME NEW a \in Nat, NEW b \in Nat, NEW n \in Nat, a <= b
  PROVE  a * n \in Nat /\ a * n <= b * n
<1>1. PICK c \in Nat : b = a + c
  <2>1. b - a \in Nat /\ b = a + (b - a)
    OBVIOUS
  <2> QED
    BY <2>1
<1>2. b * n = a * n + c * n
  BY <1>1
<1>3. c * n \in Nat /\ a * n \in Nat
  BY <1>1
<1> QED
  BY <1>2, <1>3

(* Neither the drive nor the kernel goes beyond the native size.           *)
LEMMA Ends ==
  ASSUME DriveTypes
  PROVE  /\ KernelEnd \in Nat /\ DriveEnd \in Nat /\ Native * disk.logical \in Nat
         /\ KernelEnd <= Native * disk.logical /\ DriveEnd <= Native * disk.logical
         /\ limit <= Native * disk.logical
         /\ disk.logical \in Nat \ {0}
         /\ Native * disk.logical < Width \div 2
<1>1. /\ disk.logical \in Nat \ {0} /\ limit \in Nat /\ ksize \in Nat /\ Native \in Nat
      /\ limit <= Native /\ ksize <= Native
  BY DisksAssumption, NativeAssumption DEF DriveTypes
<1>2. KernelEnd \in Nat /\ KernelEnd <= Native * disk.logical
  BY <1>1, Scaled DEF KernelEnd
<1>3. DriveEnd \in Nat /\ DriveEnd <= Native * disk.logical
  BY <1>1, Scaled DEF DriveEnd
<1>4. 1 * Native <= disk.logical * Native
  BY <1>1, Scaled
<1>5. 1 * Native = Native /\ disk.logical * Native = Native * disk.logical
      /\ Native * disk.logical \in Nat
  BY <1>1
<1>6. Native * disk.logical < Width \div 2
  BY SizesAssumption DEF DriveTypes
<1> QED
  BY <1>1, <1>2, <1>3, <1>4, <1>5, <1>6

LEMMA Halves == Width \div 2 \in Nat /\ Width = 2 * (Width \div 2) /\ Width \div 2 > SectorsAtOnce
BY WidthAssumption, SectorsAtOnceAssumption

(* An entry of the list is one of a device, of a size that fits.           *)
LEMMA ListEntry ==
  ASSUME DriveTypes, BuildDevList
  PROVE  dev' \in Device /\ dev'.capacity < Width \div 2
<1>1. PICK identify \in Answers, again \in Answers, native \in Answers, mtab \in SUBSET MtabLines :
        \E words \in IdentifyCapacity(again) :
          LET info == IF Succeeds(identify) THEN AtaInfo(again, native, words) ELSE OtherInfo
          IN dev' = [ata_capable |-> info.ata_capable, capacity |-> info.capacity,
                     native_capacity |-> info.native_capacity, mounted |-> DevMounted(mtab)]
  BY DEF BuildDevList
<1>2. PICK words \in IdentifyCapacity(again) :
          LET info == IF Succeeds(identify) THEN AtaInfo(again, native, words) ELSE OtherInfo
          IN dev' = [ata_capable |-> info.ata_capable, capacity |-> info.capacity,
                     native_capacity |-> info.native_capacity, mounted |-> DevMounted(mtab)]
  BY <1>1
<1>3. words \in Nat /\ words < Width \div 2
  <2>1. words = limit \/ words = 0 \/ words \in Garbage
    BY DEF IdentifyCapacity
  <2>2. limit \in Nat /\ limit < Width \div 2 /\ 0 < Width \div 2
    BY Ends, Halves, NativeAssumption, SectorsAtOnceAssumption DEF DriveTypes
  <2>3. words \in Garbage => words \in Nat /\ words < Width \div 2
    BY GarbageAssumption, SizesAssumption
  <2> QED
    BY <2>1, <2>2, <2>3
<1>4. PartitionsCapacity \in Nat /\ PartitionsCapacity < Width \div 2
  <2>1. KernelEnd \in Nat /\ KernelEnd < Width \div 2 /\ Width \div 2 \in Nat
    BY Ends, Halves
  <2>2. (KernelEnd \div 2) * 2 \in Nat /\ (KernelEnd \div 2) * 2 <= KernelEnd
    BY <2>1
  <2> QED
    BY <2>1, <2>2 DEF PartitionsCapacity
<1>5. NativeCapacity(native) \in Nat
  BY NativeAssumption DEF NativeCapacity, ReturnLba
<1>6. DevMounted(mtab) \in BOOLEAN
  BY DEF DevMounted
<1>7. CASE Succeeds(identify)
  <2>1. dev' = [ata_capable |-> TRUE,
                capacity |-> IF Succeeds(again) THEN words ELSE PartitionsCapacity,
                native_capacity |-> NativeCapacity(native), mounted |-> DevMounted(mtab)]
    BY <1>2, <1>7 DEF AtaInfo
  <2> QED
    BY <1>3, <1>4, <1>5, <1>6, <2>1 DEF Device
<1>8. CASE ~Succeeds(identify)
  <2>1. dev' = [ata_capable |-> FALSE, capacity |-> PartitionsCapacity,
                native_capacity |-> 0, mounted |-> DevMounted(mtab)]
    BY <1>2, <1>8 DEF OtherInfo
  <2> QED
    BY <1>4, <1>6, <2>1 DEF Device
<1> QED
  BY <1>7, <1>8

(* SET MAX ADDRESS EXT leaves the limit within the drive.                  *)
LEMMA LimitType ==
  ASSUME DriveTypes, NEW answer, NEW value \in Int, SetMax(answer, value)
  PROVE  limit' \in 1 .. Native
<1>1. value % AddressSpan \in Nat
  BY AddressAssumption, NativeAssumption
<1> QED
  BY <1>1, NativeAssumption DEF SetMax, Reachable, DriveTypes

LEMMA WrittenInside ==
  ASSUME DriveTypes, WzTypes, WriteFull \/ WriteShort
  PROVE  /\ zeroed' \subseteq DriveSectors
         /\ fd_lba' \in 0 .. Native * disk.logical
<1>1. /\ fd_lba \in Nat /\ fd_lba <= Native * disk.logical /\ Native * disk.logical \in Nat
      /\ KernelEnd \in Nat /\ KernelEnd <= Native * disk.logical /\ DriveEnd \in Nat
      /\ zeroed \subseteq DriveSectors
  BY Ends DEF DriveTypes, WzTypes
<1>2. ASSUME NEW n \in Nat, n = 0 \/ WriteFits(fd_lba, n)
      PROVE  Sectors(fd_lba, n) \subseteq DriveSectors /\ fd_lba + n \in 0 .. Native * disk.logical
  <2>1. fd_lba + n <= Native * disk.logical
    BY <1>1, <1>2 DEF WriteFits
  <2> QED
    BY <1>1, <2>1 DEF Sectors, DriveSectors
<1>3. SectorsToWrite \in Nat
  <2>1. lba_to_process \in Int /\ SectorsAtOnce \in Int /\ Width \in Nat /\ Width > 0
    BY SectorsAtOnceAssumption, WidthAssumption DEF WzTypes
  <2> QED
    BY <2>1 DEF SectorsToWrite, Unsigned
<1>4. CASE WriteFull
  <2>1. SectorsToWrite = 0 \/ WriteFits(fd_lba, SectorsToWrite)
    BY <1>4 DEF WriteFull
  <2>2. zeroed' = zeroed \cup Sectors(fd_lba, SectorsToWrite) /\ fd_lba' = fd_lba + SectorsToWrite
    BY <1>4 DEF WriteFull
  <2> QED
    BY <1>1, <1>2, <1>3, <2>1, <2>2
<1>5. CASE WriteShort
  <2>1. PICK written \in IF SectorsToWrite < Width \div 2
                         THEN WrittenBefore(fd_lba, SectorsToWrite) ELSE {0} :
          /\ zeroed' = zeroed \cup Sectors(fd_lba, written)
          /\ \E at \in {fd_lba, fd_lba + written} : fd_lba' = Seek(at, BlockAfter)
    BY <1>5 DEF WriteShort
  <2>2. written \in Nat /\ (written = 0 \/ WriteFits(fd_lba, written))
    BY <1>3, <2>1 DEF WrittenBefore
  <2>3. fd_lba' \in 0 .. KernelEnd \/ fd_lba' = fd_lba \/ fd_lba' = fd_lba + written
    BY <2>1 DEF Seek, SeekAccepts
  <2>4. Sectors(fd_lba, written) \subseteq DriveSectors
        /\ fd_lba + written \in 0 .. Native * disk.logical
    BY <1>2, <2>2
  <2> QED
    BY <1>1, <2>1, <2>3, <2>4
<1> QED
  BY <1>4, <1>5

LEMMA DriveStep ==
  ASSUME ProgramInv, [Next]_vars
  PROVE  DriveTypes' /\ SizesInv'
<1>1. DriveTypes /\ WzTypes /\ ProcTypes /\ SizesInv
  BY DEF ProgramInv, TypeOK
<1>2. disk' = disk
  BY DriveFrame
<1>3. limit' \in 1 .. Native
  <2>1. CASE HpaNativeStep
    <3>1. FirstMaxLba \in Int
      BY <1>1 DEF FirstMaxLba, NativeMaxLba, DriveTypes, Device
    <3> QED
      BY <1>1, <2>1, <3>1, LimitType DEF HpaNativeStep, HpaSetNative
  <2>2. CASE HpaMaxLbaStep
    <3>1. max_lba \in Int
      BY <1>1 DEF ProcTypes
    <3> QED
      BY <1>1, <2>2, <3>1, LimitType DEF HpaMaxLbaStep, HpaSetMaxLba
  <2> QED
    BY <1>1, <2>1, <2>2, DriveFrame DEF DriveTypes
<1>4. ksize' \in 1 .. Native
  BY <1>1, DriveFrame DEF DriveTypes
<1>5. dev' \in Device /\ dev'.capacity < Width \div 2
  <2>1. NoDevice \in Device /\ NoDevice.capacity < Width \div 2
    BY Halves, SectorsAtOnceAssumption DEF NoDevice, Device
  <2> QED
    BY <1>1, <2>1, DriveFrame, ListEntry DEF DriveTypes, SizesInv
<1>6. zeroed' \subseteq DriveSectors
  <2>1. CASE WriteZerosBlock
    BY <1>1, <2>1, WrittenInside DEF WriteZerosBlock, WzPerform
  <2>2. CASE zeroed' = {} \/ zeroed' = zeroed
    BY <1>1, <2>2 DEF DriveTypes
  <2> QED
    BY <2>1, <2>2, ProcedureFrame DEF OpenWriteZeros, WzOpen
<1> QED
  BY <1>1, <1>2, <1>3, <1>4, <1>5, <1>6 DEF DriveTypes, DriveSectors, SizesInv
-----------------------------------------------------------------------------
(* Write zeros.                                                            *)

(* Integers of the code: what an unsigned one holds, and that a signed one *)
(* is itself as long as it has not run over.                               *)
LEMMA UnsignedType == \A i \in Int : Unsigned(i) \in 0 .. Width - 1
<1>1. Width \in Nat /\ Width > 0
  BY WidthAssumption, SectorsAtOnceAssumption
<1> QED
  BY <1>1 DEF Unsigned

LEMMA NoOverflow ==
  ASSUME NEW i \in Int, i >= -(Width \div 2), i < Width \div 2
  PROVE  /\ i >= 0 => Unsigned(i) = i
         /\ i < 0 => Unsigned(i) = i + Width
         /\ Signed(Unsigned(i)) = i
<1> DEFINE h == Width \div 2
<1>1. h \in Nat /\ Width = 2 * h /\ h > 0 /\ Width \in Nat
  BY Halves, SectorsAtOnceAssumption, WidthAssumption
<1> HIDE DEF h
<1>2. i >= 0 => i % Width = i
  BY <1>1 DEF h
<1>3. i < 0 => i % Width = i + Width
  BY <1>1 DEF h
<1> QED
  BY <1>1, <1>2, <1>3 DEF Unsigned, Signed, h

LEMMA SignedType == \A i \in Int : Signed(Unsigned(i)) \in Int
BY UnsignedType, Halves DEF Signed

LEMMA QuotientType ==
  ASSUME NEW a \in Int
  PROVE  /\ Quotient(a, SectorsAtOnce) \in Int /\ Blocks(a) \in 0 .. Width - 1
<1>1. SectorsAtOnce \in Nat \ {0}
  BY SectorsAtOnceAssumption
<1>2. Quotient(a, SectorsAtOnce) \in Int
  <2>1. \A x \in Int : x \div SectorsAtOnce \in Int
    BY <1>1
  <2>2. -a \in Int
    OBVIOUS
  <2> QED
    BY <2>1, <2>2 DEF Quotient
<1>3. Quotient(a, SectorsAtOnce) + (IF a % SectorsAtOnce = 0 THEN 0 ELSE 1) \in Int
  BY <1>2
<1> QED
  BY <1>2, <1>3, UnsignedType DEF Blocks

(* The number of blocks of a range is the one that reaches its end.        *)
LEMMA BlocksReach ==
  ASSUME NEW x \in Nat, x < Width \div 2, NEW n \in Nat, n >= Blocks(x)
  PROVE  x <= SectorsAtOnce * n
<1> DEFINE q == x \div SectorsAtOnce
           m == x % SectorsAtOnce
           c == IF m = 0 THEN q ELSE q + 1
<1>1. SectorsAtOnce \in Nat /\ SectorsAtOnce > 0
  BY SectorsAtOnceAssumption
<1>2. q \in Nat /\ m \in Nat /\ m < SectorsAtOnce /\ x = SectorsAtOnce * q + m
  BY <1>1
<1>3. Blocks(x) = Unsigned(c)
  <2>1. Quotient(x, SectorsAtOnce) = q
    BY DEF Quotient
  <2>2. Quotient(x, SectorsAtOnce) + (IF m = 0 THEN 0 ELSE 1) = c
    BY <1>2, <2>1
  <2> QED
    BY <2>2 DEF Blocks
<1> HIDE DEF q, m
<1>4. q <= SectorsAtOnce * q
  <2>1. 1 * q <= SectorsAtOnce * q
    BY <1>1, <1>2, Scaled
  <2> QED
    BY <1>2, <2>1
<1>5. SectorsAtOnce * q \in Nat
  BY <1>1, <1>2
<1>6. c \in Nat /\ c <= x
  BY <1>2, <1>4, <1>5
<1>7. Unsigned(c) = c
  BY <1>6, NoOverflow, Halves
<1>8. x <= c * SectorsAtOnce
  <2>1. SectorsAtOnce * q = q * SectorsAtOnce /\ (q + 1) * SectorsAtOnce = q * SectorsAtOnce + SectorsAtOnce
    BY <1>1, <1>2
  <2> QED
    BY <1>1, <1>2, <1>5, <2>1
<1>9. c * SectorsAtOnce \in Nat /\ c * SectorsAtOnce <= n * SectorsAtOnce
  BY <1>1, <1>3, <1>6, <1>7, Scaled
<1>10. n * SectorsAtOnce = SectorsAtOnce * n /\ SectorsAtOnce * n \in Nat
  BY <1>1
<1> HIDE DEF c
<1> QED
  BY <1>8, <1>9, <1>10

LEMMA WzTypesStep ==
  ASSUME ProgramInv, [Next]_vars
  PROVE  WzTypes'
<1>1. DriveTypes /\ WzTypes /\ option \in Int /\ disk' = disk
  BY DriveFrame DEF ProgramInv, TypeOK, MenuTypes
<1>2. CASE OpenWriteZeros
  <2>1. dev.capacity \in Nat /\ dev.capacity - option \in Int
    BY <1>1 DEF DriveTypes, Device
  <2>2. Blocks(dev.capacity - option) \in 0 .. Width - 1
    BY <2>1, QuotientType
  <2>3. Seek(0, option) \in 0 .. Native * disk.logical
    BY <1>1, Ends DEF Seek, SeekAccepts
  <2>4. EmptyReport \in Report
    BY DEF EmptyReport, Report
  <2>5. SeekAccepts(option) \in BOOLEAN
    BY DEF SeekAccepts
  <2>6. /\ start_lba' = option /\ end_lba' = dev.capacity /\ lba_to_process' = dev.capacity - option
        /\ blk_index' = 0 /\ num' = 0 /\ den' = Blocks(dev.capacity - option)
        /\ fd_lba' = Seek(0, option) /\ seeks_ok' = SeekAccepts(option)
        /\ report' = EmptyReport /\ write_failed' = FALSE
    BY <1>2 DEF OpenWriteZeros, WzOpen
  <2>7. fd_lba' \in 0 .. Native * disk'.logical
    BY <1>1, <2>3, <2>6
  <2>8. den' \in 0 .. Width - 1 /\ num' <= den'
    BY <2>2, <2>6
  <2> QED
    BY <1>1, <2>1, <2>4, <2>5, <2>6, <2>7, <2>8 DEF WzTypes
<1>3. CASE WriteZerosBlock
  <2>1. num < den /\ (WriteFull \/ WriteShort) /\ Advance /\ UNCHANGED <<start_lba, end_lba, den>>
    BY <1>3 DEF WriteZerosBlock, WzPerform
  <2>2. fd_lba' \in 0 .. Native * disk.logical
    BY <1>1, <2>1, WrittenInside
  <2>3. SectorsToWrite \in Nat
    BY <1>1, UnsignedType, SectorsAtOnceAssumption DEF SectorsToWrite, WzTypes
  <2>4. blk_index' \in Nat /\ num' \in Nat /\ num' <= den /\ lba_to_process' \in Int
    BY <1>1, <2>1, <2>3, SignedType DEF Advance, WzTypes
  <2>5. report' \in Report
    <3>1. start_lba + SectorsAtOnce * blk_index \in Int
      BY <1>1, SectorsAtOnceAssumption DEF WzTypes
    <3>2. Unsigned(start_lba + SectorsAtOnce * blk_index) \in Nat
      BY <3>1, UnsignedType
    <3>3. \A s \in {"eOk", "eError"} : BlockReport(s) \in Report
      BY <2>3, <3>2 DEF BlockReport, Report
    <3> QED
      BY <2>1, <3>3 DEF WriteFull, WriteShort
  <2>6. seeks_ok' \in BOOLEAN /\ write_failed' \in BOOLEAN
    BY <1>1, <2>1 DEF WriteFull, WriteShort, WzTypes, SeekAccepts
  <2> QED
    BY <1>1, <2>1, <2>2, <2>4, <2>5, <2>6 DEF WzTypes
<1>4. CASE WzForget
  <2>1. EmptyReport \in Report
    BY DEF EmptyReport, Report
  <2>2. 0 \in 0 .. Width - 1 /\ 0 \in 0 .. Native * disk.logical
    BY <1>1, Ends, WidthAssumption, SectorsAtOnceAssumption
  <2>3. fd_lba' \in 0 .. Native * disk'.logical /\ den' \in 0 .. Width - 1 /\ num' <= den'
    BY <1>1, <1>4, <2>2 DEF WzForget
  <2>4. /\ start_lba' \in Int /\ end_lba' \in Nat /\ lba_to_process' \in Int
        /\ blk_index' \in Nat /\ num' \in Nat
    BY <1>4 DEF WzForget
  <2>5. /\ report' = EmptyReport /\ seeks_ok' = TRUE /\ write_failed' = FALSE
    BY <1>4 DEF WzForget
  <2>6. report' \in Report /\ seeks_ok' \in BOOLEAN /\ write_failed' \in BOOLEAN
    BY <2>1, <2>5
  <2> QED
    BY <2>3, <2>4, <2>6 DEF WzTypes
<1>5. CASE UNCHANGED wzVars
  BY <1>1, <1>5 DEF wzVars, wzCursor, WzTypes
<1> QED
  BY <1>2, <1>3, <1>4, <1>5, ProcedureFrame
(* A block that is left to be written: it is where the descriptor is, and  *)
(* inside the range.                                                       *)
LEMMA BlockStep ==
  ASSUME WzTypes, WriteInv, seeks_ok, seeks_ok', lba_to_process > 0,
         WriteFull \/ WriteShort, Advance, UNCHANGED <<start_lba, end_lba>>
  PROVE  WriteInv'
<1> DEFINE h == Width \div 2
           count == SectorsToWrite
<1>1. /\ h \in Nat /\ SectorsAtOnce \in Nat /\ SectorsAtOnce > 0 /\ SectorsAtOnce < h
      /\ start_lba \in Nat /\ start_lba < h /\ end_lba \in Nat /\ end_lba < h
      /\ lba_to_process \in Int /\ lba_to_process < h /\ blk_index \in Nat
      /\ fd_lba = end_lba - lba_to_process /\ fd_lba = start_lba + SectorsAtOnce * blk_index
      /\ zeroed \subseteq start_lba .. end_lba - 1
      /\ ~write_failed => start_lba .. end_lba - lba_to_process - 1 \subseteq zeroed
      /\ SectorsAtOnce * blk_index \in Nat
  BY Halves, SectorsAtOnceAssumption DEF WzTypes, WriteInv
<1>2. count = IF lba_to_process < SectorsAtOnce THEN lba_to_process ELSE SectorsAtOnce
  BY <1>1, NoOverflow DEF SectorsToWrite
<1> HIDE DEF h, count
<1>3. count \in Nat /\ count > 0 /\ count <= lba_to_process /\ count < h
  BY <1>1, <1>2
<1>4. lba_to_process' = lba_to_process - count /\ blk_index' = blk_index + 1
  <2>1. lba_to_process - count \in Int /\ lba_to_process - count >= -h /\ lba_to_process - count < h
    BY <1>1, <1>3
  <2>2. Signed(Unsigned(lba_to_process - count)) = lba_to_process - count
    BY <2>1, NoOverflow DEF h
  <2> QED
    BY <2>2 DEF Advance, count
<1>5. fd_lba \in Nat /\ fd_lba < h /\ fd_lba >= start_lba /\ Unsigned(fd_lba) = fd_lba
  <2>1. fd_lba \in Nat /\ fd_lba < h /\ fd_lba >= start_lba
    BY <1>1
  <2>2. fd_lba \in Int /\ fd_lba >= -h
    BY <1>1, <2>1
  <2> QED
    BY <2>1, <2>2, NoOverflow DEF h
<1>6. lba_to_process' > 0 => count = SectorsAtOnce
  BY <1>1, <1>2, <1>4
<1>7. BlockAfter = fd_lba + SectorsAtOnce
  <2>1. SectorsAtOnce * (blk_index + 1) = SectorsAtOnce * blk_index + SectorsAtOnce
    BY <1>1
  <2> QED
    BY <1>1, <2>1 DEF BlockAfter
<1>8. /\ lba_to_process' \in Int /\ lba_to_process' >= 0 /\ lba_to_process' < h
      /\ end_lba' - lba_to_process' = fd_lba + count
      /\ fd_lba + count <= end_lba /\ end_lba' = end_lba /\ start_lba' = start_lba
      /\ start_lba' + SectorsAtOnce * blk_index' = fd_lba + SectorsAtOnce
  BY <1>1, <1>3, <1>4, <1>7 DEF BlockAfter
<1>9. ASSUME NEW n \in 0 .. count
      PROVE  Sectors(fd_lba, n) \subseteq start_lba .. end_lba - 1
  BY <1>1, <1>3, <1>5, <1>8 DEF Sectors
<1>10. CASE WriteFull
  <2> DEFINE next == fd_lba + count
  <2>0. next \in Nat /\ next = end_lba' - lba_to_process'
    <3>1. next \in Nat
      BY <1>1, <1>3, <1>5
    <3>2. next = end_lba' - lba_to_process'
      BY <1>8, Zenon
    <3> QED
      BY <3>1, <3>2
  <2>1. /\ zeroed' = zeroed \cup Sectors(fd_lba, count) /\ fd_lba' = fd_lba + count
        /\ report' = BlockReport("eOk") /\ write_failed' = write_failed
    BY <1>10 DEF WriteFull, count
  <2>2. report'.lba = fd_lba /\ report'.sectors_processed = count
    BY <1>1, <1>5, <2>1 DEF BlockReport, count
  <2>3. ReportedSectors' = Sectors(fd_lba, count)
    BY <2>2 DEF ReportedSectors, Sectors
  <2>4. zeroed' \subseteq start_lba .. end_lba - 1
    <3>1. count \in 0 .. count
      BY <1>3
    <3>2. Sectors(fd_lba, count) \subseteq start_lba .. end_lba - 1
      BY <1>9, <3>1
    <3> QED
      BY <1>1, <2>1, <3>2
  <2>5. ~write_failed => start_lba .. next - 1 \subseteq zeroed'
    <3>1. ASSUME ~write_failed, NEW s \in start_lba .. next - 1
          PROVE  s \in zeroed'
      <4>1. s \in start_lba .. fd_lba - 1 \/ s \in Sectors(fd_lba, count)
        BY <1>1, <1>3, <1>5, <3>1 DEF Sectors
      <4>2. end_lba - lba_to_process - 1 = fd_lba - 1
        BY <1>1
      <4> QED
        BY <1>1, <2>1, <3>1, <4>1, <4>2
    <3> QED
      BY <3>1
  <2> HIDE DEF next
  <2>6. lba_to_process' > 0 => fd_lba' = start_lba' + SectorsAtOnce * blk_index'
                               /\ fd_lba' = end_lba' - lba_to_process'
    BY <1>6, <1>8, <2>1
  <2>7. end_lba' - lba_to_process' - 1 = next - 1
    BY <1>1, <1>8, <2>0
  <2>8. ReportedSectors' \subseteq zeroed'
    BY <2>1, <2>3
  <2>9. lba_to_process' >= -h /\ ~(lba_to_process' < 0)
    BY <1>1, <1>8
  <2> QED
    BY <1>1, <1>8, <2>1, <2>4, <2>5, <2>6, <2>7, <2>8, <2>9 DEF WriteInv, h
<1>11. CASE WriteShort
  <2>1. PICK written \in IF SectorsToWrite < Width \div 2
                         THEN WrittenBefore(fd_lba, SectorsToWrite) ELSE {0} :
          /\ zeroed' = zeroed \cup Sectors(fd_lba, written)
          /\ \E at \in {fd_lba, fd_lba + written} : fd_lba' = Seek(at, BlockAfter)
    BY <1>11 DEF WriteShort
  <2>2. written \in 0 .. count
    BY <1>3, <2>1 DEF WrittenBefore, count
  <2>3. /\ SeekAccepts(BlockAfter) /\ report'.blk_status = "eError" /\ write_failed'
    BY <1>11 DEF WriteShort, BlockReport
  <2>4. fd_lba' = fd_lba + SectorsAtOnce
    BY <1>7, <2>1, <2>3 DEF Seek
  <2>5. zeroed' \subseteq start_lba .. end_lba - 1
    BY <1>1, <1>9, <2>1, <2>2
  <2>6. lba_to_process' > 0 => fd_lba' = start_lba' + SectorsAtOnce * blk_index'
                               /\ fd_lba' = end_lba' - lba_to_process'
    BY <1>6, <1>8, <2>4
  <2>7. lba_to_process' >= -h
    BY <1>1, <1>8
  <2> QED
    BY <1>1, <1>8, <2>3, <2>5, <2>6, <2>7 DEF WriteInv, h
<1> QED
  BY <1>10, <1>11

(* Nothing left, or less than nothing: the range ended before it began.    *)
LEMMA EmptyBlockStep ==
  ASSUME WzTypes, WriteInv, seeks_ok, seeks_ok', lba_to_process <= 0,
         WriteFull \/ WriteShort, Advance, UNCHANGED <<start_lba, end_lba>>
  PROVE  WriteInv'
<1> DEFINE h == Width \div 2
<1>1. /\ h \in Nat /\ Width = 2 * h /\ SectorsAtOnce \in Nat /\ SectorsAtOnce > 0 /\ h > 0
      /\ Width \in Nat
      /\ start_lba \in 0 .. h - 1 /\ end_lba \in Nat /\ end_lba < h
      /\ lba_to_process \in Int /\ lba_to_process >= -h
      /\ zeroed \subseteq start_lba .. end_lba - 1
      /\ ~write_failed /\ lba_to_process = 0 => start_lba .. end_lba - 0 - 1 \subseteq zeroed
  BY Halves, SectorsAtOnceAssumption, WidthAssumption DEF WzTypes, WriteInv
<1>2. SectorsToWrite = Unsigned(lba_to_process)
  BY <1>1 DEF SectorsToWrite
<1>3. CASE lba_to_process = 0
  <2>1. SectorsToWrite = 0
    BY <1>1, <1>2, <1>3, NoOverflow
  <2>2. WriteFull
    BY <2>1 DEF WriteShort
  <2>3. Sectors(fd_lba, 0) = {}
    BY DEF Sectors, WzTypes
  <2>4. zeroed' = zeroed /\ write_failed' = write_failed /\ report' = BlockReport("eOk")
    BY <2>1, <2>2, <2>3 DEF WriteFull
  <2>5. ReportedSectors' = {}
    <3>1. report'.sectors_processed = 0 /\ report'.lba = Unsigned(start_lba + SectorsAtOnce * blk_index)
      BY <2>1, <2>4 DEF BlockReport
    <3>2. report'.lba \in Int
      <4>1. start_lba + SectorsAtOnce * blk_index \in Int
        BY <1>1 DEF WzTypes
      <4> QED
        BY <3>1, <4>1, UnsignedType
    <3> QED
      BY <3>1, <3>2 DEF ReportedSectors, Sectors
  <2>6. lba_to_process' = 0
    <3>1. Signed(Unsigned(0)) = 0
      BY <1>1, NoOverflow
    <3>2. lba_to_process - SectorsToWrite = 0
      BY <1>3, <2>1
    <3> QED
      BY <3>1, <3>2 DEF Advance
  <2>7. 0 >= -h
    BY <1>1
  <2> QED
    BY <1>1, <1>3, <2>4, <2>5, <2>6, <2>7 DEF WriteInv, h
<1>4. CASE lba_to_process < 0
  <2>1. SectorsToWrite = lba_to_process + Width
    BY <1>1, <1>2, <1>4, NoOverflow
  <2>2. ~(SectorsToWrite < h) /\ SectorsToWrite # 0
    BY <1>1, <2>1
  <2>3. WriteShort /\ ~WriteFull
    BY <2>2 DEF WriteFull, h
  <2>4. zeroed' = zeroed \cup Sectors(fd_lba, 0)
    BY <2>2, <2>3 DEF WriteShort, h
  <2>5. zeroed' = zeroed /\ write_failed' /\ report'.blk_status = "eError"
    <3>1. Sectors(fd_lba, 0) = {}
      BY DEF Sectors, WzTypes
    <3> QED
      BY <2>3, <2>4, <3>1 DEF WriteShort, BlockReport
  <2>6. lba_to_process' = 0
    <3>1. lba_to_process - SectorsToWrite = -Width
      BY <1>1, <2>1
    <3>2. Unsigned(-Width) = 0
      BY <1>1 DEF Unsigned
    <3>3. Signed(0) = 0
      BY <1>1 DEF Signed, h
    <3> QED
      BY <3>1, <3>2, <3>3 DEF Advance
  <2>7. 0 >= -h
    BY <1>1
  <2> QED
    BY <1>1, <2>5, <2>6, <2>7 DEF WriteInv, h
<1> QED
  BY <1>1, <1>3, <1>4

LEMMA WriteStep ==
  ASSUME ProgramInv, [Next]_vars
  PROVE  WriteInv'
<1>1. WriteInv /\ WzTypes /\ DriveTypes /\ SizesInv /\ PlaceInv
  BY DEF ProgramInv, TypeOK
<1>2. CASE WriteZerosBlock
  <2>1. /\ WriteFull \/ WriteShort
        /\ Advance /\ UNCHANGED <<start_lba, end_lba>>
    BY <1>2 DEF WriteZerosBlock, WzPerform
  <2>2. seeks_ok' => seeks_ok
    BY <2>1 DEF WriteFull, WriteShort
  <2>3. ~seeks_ok' => WriteInv'
    BY DEF WriteInv
  <2>4. lba_to_process \in Int
    BY <1>1 DEF WzTypes
  <2> QED
    BY <1>1, <2>1, <2>2, <2>3, <2>4, BlockStep, EmptyBlockStep
<1>3. CASE OpenWriteZeros
  <2> SUFFICES ASSUME seeks_ok' PROVE WriteInv'
    BY DEF WriteInv
  <2> DEFINE h == Width \div 2
  <2>1. /\ start_lba' = option /\ end_lba' = dev.capacity
        /\ lba_to_process' = dev.capacity - option /\ blk_index' = 0
        /\ fd_lba' = Seek(0, option) /\ seeks_ok' = SeekAccepts(option)
        /\ report' = EmptyReport /\ write_failed' = FALSE /\ zeroed' = {}
    BY <1>3 DEF OpenWriteZeros, WzOpen
  <2>2. option \in 0 .. KernelEnd
    BY <2>1 DEF SeekAccepts
  <2>3. /\ h \in Nat /\ option \in Nat /\ option < h /\ dev.capacity \in Nat /\ dev.capacity < h
    BY <1>1, <2>2, Halves, Ends DEF SizesInv, DriveTypes, Device
  <2>4. fd_lba' = option
    BY <2>1, <2>2 DEF Seek, SeekAccepts
  <2>5. ReportedSectors' = {}
    BY <2>1 DEF ReportedSectors, Sectors, EmptyReport
  <2> HIDE DEF h
  <2>6. /\ start_lba' \in 0 .. h - 1 /\ end_lba' < h
        /\ lba_to_process' >= -h /\ lba_to_process' < h
        /\ fd_lba' = start_lba' + SectorsAtOnce * blk_index'
        /\ fd_lba' = end_lba' - lba_to_process'
        /\ lba_to_process' < 0 => end_lba' < start_lba'
        /\ start_lba' .. end_lba' - lba_to_process' - 1 = {}
    BY <2>1, <2>3, <2>4, SectorsAtOnceAssumption
  <2> QED
    BY <2>1, <2>5, <2>6 DEF WriteInv, h
<1>4. CASE WzForget /\ zeroed' = {}
  <2> DEFINE h == Width \div 2
  <2>1. h \in Nat /\ h > 0
    BY Halves, SectorsAtOnceAssumption
  <2>2. ReportedSectors' = {}
    BY <1>4 DEF ReportedSectors, Sectors, EmptyReport, WzForget
  <2> HIDE DEF h
  <2>3. /\ start_lba' \in 0 .. h - 1 /\ end_lba' < h
        /\ lba_to_process' >= -h /\ lba_to_process' < h /\ ~(lba_to_process' > 0)
        /\ ~(lba_to_process' < 0)
        /\ start_lba' .. end_lba' - lba_to_process' - 1 = {}
    BY <1>4, <2>1 DEF WzForget
  <2> QED
    BY <1>4, <2>2, <2>3 DEF WriteInv, h
<1>5. CASE UNCHANGED <<wzVars, zeroed>>
  BY <1>1, <1>5 DEF wzVars, wzCursor, WriteInv, ReportedSectors, Sectors
<1> QED
  BY <1>2, <1>3, <1>4, <1>5, ProcedureFrame

(* The loop is to go through the blocks of the range.                      *)
LEMMA CountStep ==
  ASSUME ProgramInv, [Next]_vars
  PROVE  CountInv'
<1>1. CountInv /\ PlaceInv
  BY DEF ProgramInv
<1>2. CASE OpenWriteZeros
  BY <1>2 DEF OpenWriteZeros, WzOpen, CountInv, Blocks, Unsigned
<1>3. CASE WriteZerosBlock
  BY <1>1, <1>3 DEF WriteZerosBlock, WzPerform, Advance, CountInv, menuVars, Blocks, Unsigned
<1>4. CASE WriteZerosDone \/ Interrupted
  BY <1>1, <1>4 DEF WriteZerosDone, Interrupted, procVars, wzVars, wzCursor, CountInv, PlaceInv,
                    Blocks, Unsigned
<1>5. CASE Rescan \/ UNCHANGED vars
  BY <1>1, <1>5 DEF Rescan, procVars, wzVars, wzCursor, vars, menuVars, CountInv, Blocks,
                    Unsigned
<1>6. CASE MenuStep \/ OpenHpaSet \/ HpaNativeStep \/ HpaMaxLbaStep \/ OpenQuickDiagnosis
             \/ QuickDiagnosisStep \/ ShowSmart \/ OpenScan \/ OpenFiles \/ CloseScan
             \/ RendererFails \/ CloseProcedure \/ Killed \/ StartProgram
  <2>1. procedure' # "posix_write_zeros" \/ pc' \notin {"loop", "close"}
    <3>1. CASE MenuStep
      BY <3>1 DEF MenuStep, PressM, ListDevices, NoDeviceChosen, ChooseProcedure, AfterChoice,
                  AnswerYes, NoProcedureChosen, AfterYes, TurnBack, NextRound, ForgetChoice,
                  FirstMenu, AskOption
    <3>2. CASE OpenHpaSet \/ HpaNativeStep \/ HpaMaxLbaStep
      BY <1>1, <3>2 DEF OpenHpaSet, HpaNativeStep, HpaMaxLbaStep, PlaceInv
    <3>3. CASE OpenQuickDiagnosis \/ QuickDiagnosisStep \/ ShowSmart \/ OpenScan \/ CloseScan
      BY <1>1, <3>3 DEF OpenQuickDiagnosis, QuickDiagnosisStep, ShowSmart, OpenScan, CloseScan,
                        PlaceInv
    <3>4. CASE OpenFiles \/ RendererFails \/ CloseProcedure \/ Killed \/ StartProgram
      BY <1>1, <3>4 DEF OpenFiles, RendererFails, CloseProcedure, NextRound, ForgetChoice,
                        FirstMenu, Killed, StartProgram, PlaceInv
    <3> QED
      BY <1>6, <3>1, <3>2, <3>3, <3>4
  <2> QED
    BY <2>1 DEF CountInv
<1> QED
  BY <1>2, <1>3, <1>4, <1>5, <1>6 DEF Next, ProcedureStep
-----------------------------------------------------------------------------
(* Host protected area.                                                    *)

(* A command the library takes for a success was executed, or got lost.    *)
LEMMA OnlyDoneSucceeds ==
  ASSUME NEW answer \in Answers, answer # "lost"
  PROVE  Succeeds(answer) <=> answer = "done"
BY DEF Answers, Succeeds, ReturnStatusErr, SenseKey, Format

LEMMA LimitStep ==
  ASSUME ProgramInv, [Next]_vars
  PROVE  LimitInv'
<1>1. LimitInv /\ PlaceInv /\ limit \in 1 .. Native /\ limit_before \in 0 .. Native
      /\ Native \in Nat \ {0}
  BY NativeAssumption DEF ProgramInv, TypeOK, DriveTypes, ProcTypes
<1>2. CASE OpenHpaSet
  BY <1>2 DEF OpenHpaSet, HpaOpen, LimitInv, HpaSettles, driveVars
<1>3. CASE HpaNativeStep
  <2>1. PICK answer \in Answers :
          /\ SetMax(answer, FirstMaxLba)
          /\ lost' = (answer = "lost")
          /\ UNCHANGED <<max_lba, set_failed, limit_before>>
    BY <1>3 DEF HpaNativeStep, HpaSetNative
  <2>2. pc = "set_native" /\ pc' = "set_max_lba" /\ dev' = dev
    BY <1>3 DEF HpaNativeStep
  <2>3. limit = limit_before
    BY <1>1, <2>2 DEF LimitInv
  <2>4. dev.native_capacity = Native => limit' >= limit_before
    <3>1. CASE limit' = limit
      BY <1>1, <2>3, <3>1
    <3>2. CASE limit' = (FirstMaxLba % AddressSpan) + 1
      <4>1. ASSUME dev.native_capacity = Native PROVE FirstMaxLba % AddressSpan = Native - 1
        <5>1. FirstMaxLba = Native - 1
          BY <4>1 DEF FirstMaxLba, NativeMaxLba
        <5> QED
          BY <1>1, <5>1, AddressAssumption
      <4> QED
        BY <1>1, <3>2, <4>1
    <3> QED
      BY <2>1, <3>1, <3>2 DEF SetMax
  <2> QED
    BY <2>1, <2>2, <2>4 DEF LimitInv, HpaSettles
<1>4. CASE HpaMaxLbaStep
  <2>1. PICK answer \in Answers :
          /\ SetMax(answer, max_lba)
          /\ set_failed' = ~Succeeds(answer)
          /\ lost' = (lost \/ answer = "lost")
          /\ UNCHANGED <<max_lba, limit_before>>
    BY <1>4 DEF HpaMaxLbaStep, HpaSetMaxLba
  <2>2. pc = "set_max_lba" /\ pc' = "close" /\ dev' = dev /\ procedure = "hpa_set"
    BY <1>1, <1>4 DEF HpaMaxLbaStep, PlaceInv
  <2> SUFFICES ASSUME ~lost' PROVE LimitInv'
    BY <2>2 DEF LimitInv, HpaSettles
  <2>3. ~lost /\ answer # "lost"
    BY <2>1
  <2>4. dev.native_capacity = Native => limit >= limit_before
    BY <1>1, <2>2, <2>3 DEF LimitInv, HpaSettles
  <2>5. CASE answer = "done"
    <3>1. Succeeds(answer) /\ limit' = (max_lba % AddressSpan) + 1
      BY <2>1, <2>3, <2>5, OnlyDoneSucceeds DEF SetMax
    <3> QED
      BY <2>1, <2>2, <3>1 DEF LimitInv, HpaSettles
  <2>6. CASE answer # "done"
    <3>1. ~Succeeds(answer) /\ limit' = limit
      BY <2>1, <2>3, <2>6, OnlyDoneSucceeds DEF SetMax
    <3> QED
      BY <2>1, <2>2, <2>4, <3>1 DEF LimitInv, HpaSettles
  <2> QED
    BY <2>5, <2>6
<1>5. CASE Rescan \/ UNCHANGED vars
  BY <1>1, <1>5 DEF Rescan, Revalidate, procVars, hpaVars, vars, menuVars, driveVars, LimitInv,
                    HpaSettles
<1>6. CASE MenuStep \/ OpenWriteZeros \/ WriteZerosBlock \/ WriteZerosDone \/ OpenQuickDiagnosis
             \/ QuickDiagnosisStep \/ ShowSmart \/ OpenScan \/ OpenFiles \/ CloseScan
             \/ RendererFails \/ CloseProcedure \/ Interrupted \/ Killed \/ StartProgram
  <2>1. /\ procedure' # "hpa_set" \/ pc' \notin {"set_max_lba", "close"}
        /\ pc' # "set_native"
    <3>1. CASE MenuStep
      BY <3>1 DEF MenuStep, PressM, ListDevices, NoDeviceChosen, ChooseProcedure, AfterChoice,
                  AnswerYes, NoProcedureChosen, AfterYes, TurnBack, NextRound, ForgetChoice,
                  FirstMenu, AskOption
    <3>2. CASE OpenWriteZeros \/ WriteZerosBlock \/ WriteZerosDone \/ Interrupted
      BY <1>1, <3>2 DEF OpenWriteZeros, WriteZerosBlock, WriteZerosDone, Interrupted, menuVars,
                        PlaceInv
    <3>3. CASE OpenQuickDiagnosis \/ QuickDiagnosisStep \/ ShowSmart \/ OpenScan \/ CloseScan
      BY <1>1, <3>3 DEF OpenQuickDiagnosis, QuickDiagnosisStep, ShowSmart, OpenScan, CloseScan,
                        PlaceInv
    <3>4. CASE OpenFiles \/ RendererFails \/ CloseProcedure \/ Killed \/ StartProgram
      BY <1>1, <3>4 DEF OpenFiles, RendererFails, CloseProcedure, NextRound, ForgetChoice,
                        FirstMenu, Killed, StartProgram, PlaceInv
    <3> QED
      BY <1>6, <3>1, <3>2, <3>3, <3>4
  <2> QED
    BY <2>1 DEF LimitInv, HpaSettles
<1> QED
  BY <1>2, <1>3, <1>4, <1>5, <1>6 DEF Next, ProcedureStep

-----------------------------------------------------------------------------
(* Read-ahead.                                                             *)

LEMMA SettingStep ==
  ASSUME ProgramInv, [Next]_vars
  PROVE  /\ SettingInv'
         /\ readahead' \in {0, disk'.readahead} /\ old_readahead' \in {0, disk'.readahead}
         /\ disturbed' \in BOOLEAN
<1>1. /\ SettingInv /\ PlaceInv /\ disk' = disk
      /\ readahead \in {0, disk.readahead} /\ old_readahead \in {0, disk.readahead}
      /\ disturbed \in BOOLEAN
  BY DriveFrame DEF ProgramInv, TypeOK, ProcTypes
<1>2. CASE OpenScan
  <2>1. PICK asked \in BOOLEAN, off \in BOOLEAN :
          SwitchOff(asked, off) /\ disturbed' = (disturbed \/ ~asked)
    BY <1>2 DEF OpenScan, RaOpen
  <2>2. /\ old_readahead' = IF asked THEN readahead ELSE 0
        /\ readahead' = IF off THEN 0 ELSE readahead
    BY <2>1 DEF SwitchOff
  <2>3. pc = "open" /\ pc' \in {"files", "scan"}
    BY <1>2 DEF OpenScan
  <2> QED
    BY <1>1, <2>1, <2>2, <2>3 DEF SettingInv
<1>3. CASE CloseScan
  <2>1. PICK restored \in BOOLEAN :
          /\ readahead' = IF restored THEN old_readahead ELSE readahead
          /\ disturbed' = ((disturbed \/ ~restored) /\ readahead' # disk.readahead)
          /\ old_readahead' = 0
    BY <1>3 DEF CloseScan, RaClose, RaForget
  <2>2. pc = "scan" /\ pc' = "close"
    BY <1>3 DEF CloseScan
  <2> QED
    BY <1>1, <2>1, <2>2 DEF SettingInv
<1>4. CASE RaAbandon /\ pc' \notin {"files", "scan"}
  <2>1. old_readahead' = 0 /\ disturbed' = (readahead # disk.readahead) /\ readahead' = readahead
    BY <1>4 DEF RaAbandon, RaForget
  <2> QED
    BY <1>1, <1>4, <2>1 DEF SettingInv
<1>5. CASE UNCHANGED raVars /\ (pc' \in {"files", "scan"} <=> pc \in {"files", "scan"})
  BY <1>1, <1>5 DEF SettingInv, raVars
<1>6. CASE OpenFiles
  BY <1>4, <1>5, <1>6 DEF OpenFiles, RaOpenFails, NextRound, ForgetChoice, FirstMenu
<1>7. CASE RendererFails \/ Killed
  BY <1>4, <1>7 DEF RendererFails, Killed, NextRound, ForgetChoice, FirstMenu
<1>8. CASE MenuStep
  <2>1. pc \notin {"files", "scan"} /\ pc' \notin {"files", "scan"}
    BY <1>8 DEF MenuStep, PressM, ListDevices, NoDeviceChosen, ChooseProcedure, AfterChoice,
                AnswerYes, NoProcedureChosen, AfterYes, TurnBack, NextRound, ForgetChoice,
                FirstMenu, AskOption
  <2> QED
    BY <1>5, <1>8, <2>1, MenuFrame DEF procVars
<1>9. CASE OpenWriteZeros \/ WriteZerosBlock \/ WriteZerosDone \/ OpenHpaSet \/ HpaNativeStep
             \/ HpaMaxLbaStep
  <2>1. pc \notin {"files", "scan"} /\ pc' \notin {"files", "scan"} /\ UNCHANGED raVars
    BY <1>9 DEF OpenWriteZeros, WriteZerosBlock, WriteZerosDone, OpenHpaSet, HpaNativeStep,
                HpaMaxLbaStep, menuVars, procVars
  <2> QED
    BY <1>5, <2>1
<1>10. CASE OpenQuickDiagnosis \/ QuickDiagnosisStep \/ ShowSmart \/ CloseProcedure
              \/ Interrupted \/ StartProgram
  <2>1. pc \notin {"files", "scan"} /\ pc' \notin {"files", "scan"} /\ UNCHANGED raVars
    BY <1>10 DEF OpenQuickDiagnosis, QuickDiagnosisStep, ShowSmart, CloseProcedure, NextRound,
                 ForgetChoice, FirstMenu, Interrupted, StartProgram, procVars
  <2> QED
    BY <1>5, <2>1
<1>11. CASE Rescan \/ UNCHANGED vars
  BY <1>5, <1>11 DEF Rescan, procVars, vars, menuVars
<1> QED
  BY <1>2, <1>3, <1>6, <1>7, <1>8, <1>9, <1>10, <1>11 DEF Next, ProcedureStep
-----------------------------------------------------------------------------
(* Diagnosis.                                                              *)

(* Nothing found out, nothing sampled.                                     *)
LEMMA NothingFound ==
  found = Unknown /\ candidate = 1 /\ samples = {} /\ really_read = {} /\ conclusion = "none"
    => DiagnosisInv
<1> SUFFICES ASSUME found = Unknown, candidate = 1, conclusion = "none"
             PROVE  DiagnosisInv
  OBVIOUS
<1>1. found \in Found /\ ~found.pi_known
  BY DEF Unknown, Found
<1>2. 1 .. candidate - 1 = {}
  OBVIOUS
<1> QED
  BY <1>1, <1>2 DEF DiagnosisInv, NoIssueIsEarned

(* The place may change, as long as the diagnosis does not begin or end.   *)
LEMMA DiagnosisKept ==
  ASSUME DiagnosisInv, UNCHANGED <<qdVars, disk>>,
         pc' = pc \/ (pc \notin {"sample", "close"} /\ pc' # "sample")
  PROVE  DiagnosisInv'
BY DEF DiagnosisInv, NoIssueIsEarned, SampleFailure, Candidates, qdVars

LEMMA QueriesStep ==
  ASSUME DiagnosisInv, DriveTypes, disk' = disk, limit' = limit, ksize' = ksize,
         \/ pc = "open" /\ QueryGeometry /\ pc' = "query_pi"
         \/ pc = "query_pi" /\ QueryPi /\ pc' = "sample"
  PROVE  DiagnosisInv'
<1>1. /\ found \in Found /\ candidate = 1 /\ conclusion = "none"
      /\ UNCHANGED <<candidate, samples, really_read, conclusion>>
  BY DEF DiagnosisInv, QueryGeometry, QueryPi
<1>2. 1 .. candidate' - 1 = {} /\ candidate' = 1 /\ conclusion' = "none" /\ pc' # "close"
  BY <1>1
<1>3. disk.prot_en \in BOOLEAN /\ ksize \in Nat
  BY DisksAssumption, NativeAssumption DEF DriveTypes
<1>4. CASE pc = "open" /\ QueryGeometry /\ pc' = "query_pi"
  <2>1. PICK sizes \in BOOLEAN, physical \in BOOLEAN :
          found' = [Unknown EXCEPT !.geometry_ok = sizes,
                                   !.sector_count = IF sizes THEN ksize ELSE 0,
                                   !.physical_known = physical]
    BY <1>4 DEF QueryGeometry
  <2>2. found' = [geometry_ok |-> sizes, physical_known |-> physical,
                  sector_count |-> IF sizes THEN ksize ELSE 0,
                  pi_known |-> FALSE, pi_mismatch |-> FALSE, prot_en |-> FALSE]
    BY <2>1 DEF Unknown
  <2>3. found' \in Found /\ ~found'.pi_known
    BY <1>3, <2>2 DEF Found
  <2> QED
    BY <1>2, <2>3 DEF DiagnosisInv, NoIssueIsEarned
<1>5. CASE pc = "query_pi" /\ QueryPi /\ pc' = "sample"
  <2>1. PICK done \in BOOLEAN, sectors \in {limit, ksize} :
          found' = [found EXCEPT
                      !.pi_known = PiKnown(done),
                      !.pi_mismatch = PiKnown(done) /\ PiMismatch(sectors),
                      !.prot_en = done /\ disk.prot_en]
    BY <1>5 DEF QueryPi
  <2> DEFINE known == PiKnown(done)
             mismatch == PiKnown(done) /\ PiMismatch(sectors)
             enabled == done /\ disk.prot_en
  <2>2. known \in BOOLEAN /\ mismatch \in BOOLEAN /\ enabled \in BOOLEAN
    BY <1>3 DEF PiKnown, PiMismatch
  <2>3. known => done
    BY DEF PiKnown
  <2>4. found.geometry_ok /\ known /\ ~mismatch => disk.block_length = disk.logical
    BY DEF PiMismatch
  <2>5. known => enabled = disk.prot_en
    BY <1>3, <2>3
  <2> HIDE DEF known, mismatch, enabled
  <2>6. found' = [found EXCEPT !.pi_known = known, !.pi_mismatch = mismatch, !.prot_en = enabled]
    BY <2>1, Zenon DEF known, mismatch, enabled
  <2>7. /\ found' \in Found /\ found'.geometry_ok = found.geometry_ok
        /\ found'.pi_known = known /\ found'.pi_mismatch = mismatch /\ found'.prot_en = enabled
    BY <1>1, <2>2, <2>6 DEF Found
  <2> QED
    BY <1>2, <1>5, <2>4, <2>5, <2>7 DEF DiagnosisInv, NoIssueIsEarned
<1> QED
  BY <1>4, <1>5

LEMMA SampleStep ==
  ASSUME DiagnosisInv, candidate \in 1 .. 4, pc = "sample", pc' = "sample", TakeSample,
         disk' = disk
  PROVE  DiagnosisInv' /\ candidate' \in 1 .. 4
<1>1. /\ candidate <= 3 /\ candidate' = candidate + 1 /\ UNCHANGED <<found, conclusion>>
      /\ conclusion = "none"
  BY DEF TakeSample, NoneLeft, DiagnosisInv
<1>2. Candidates' = Candidates
  BY <1>1 DEF Candidates
<1>3. ~SampleFailure' => ~SampleFailure /\ really_read \subseteq really_read'
                         /\ Candidates[candidate] \in really_read'
  <2>1. CASE Duplicate /\ UNCHANGED <<samples, really_read>>
    <3>1. PICK i \in 1 .. candidate - 1 : Candidates[i] = Candidates[candidate]
      BY <2>1 DEF Duplicate
    <3>2. i <= 3
      BY <1>1, <3>1
    <3>3. ~SampleFailure => Candidates[i] \in really_read
      BY <3>1, <3>2 DEF DiagnosisInv
    <3> QED
      BY <2>1, <3>1, <3>3 DEF SampleFailure
  <2>2. CASE /\ samples' = samples \cup {[lba |-> Candidates[candidate], blk_status |-> "eOk"]}
             /\ really_read' = really_read \cup {Candidates[candidate]}
    BY <2>2 DEF SampleFailure
  <2>3. CASE samples' = samples \cup {[lba |-> Candidates[candidate], blk_status |-> "eError"]}
    <3> DEFINE failed == [lba |-> Candidates[candidate], blk_status |-> "eError"]
    <3>1. SampleFailure'
      <4>1. failed \in samples' /\ failed.blk_status # "eOk"
        BY <2>3
      <4> HIDE DEF failed
      <4> QED
        BY <4>1 DEF SampleFailure
    <3> QED
      BY <3>1
  <2> QED
    BY <2>1, <2>2, <2>3 DEF TakeSample
<1>4. ASSUME NEW i \in 1 .. candidate' - 1, i <= 3, ~SampleFailure'
      PROVE  Candidates'[i] \in really_read'
  <2>1. i \in 1 .. candidate - 1 \/ i = candidate
    BY <1>1
  <2>2. CASE i \in 1 .. candidate - 1
    <3>1. Candidates[i] \in really_read
      BY <1>3, <1>4, <2>2 DEF DiagnosisInv
    <3> QED
      BY <1>2, <1>3, <1>4, <3>1
  <2> QED
    BY <1>2, <1>3, <1>4, <2>1, <2>2
<1>5. found' = found /\ conclusion' = "none" /\ found \in Found
  BY <1>1 DEF DiagnosisInv
<1>6. found.pi_known => /\ found.prot_en = disk.prot_en
                        /\ found.geometry_ok /\ ~found.pi_mismatch
                             => disk.block_length = disk.logical
  BY DEF DiagnosisInv
<1> QED
  BY <1>1, <1>4, <1>5, <1>6 DEF DiagnosisInv, NoIssueIsEarned

LEMMA ConcludeStep ==
  ASSUME DiagnosisInv, candidate \in 1 .. 4, pc = "sample", pc' = "close", Conclude,
         disk' = disk
  PROVE  DiagnosisInv'
<1>1. /\ NoneLeft /\ UNCHANGED <<found, candidate, samples, really_read>>
      /\ conclusion' = IF SampleFailure THEN "sample_failed"
                       ELSE IF GeometryWarning \/ found.pi_mismatch THEN "compatibility"
                       ELSE PiVerdict
  BY DEF Conclude
<1>2. Candidates' = Candidates /\ (SampleFailure' <=> SampleFailure)
  BY <1>1 DEF Candidates, SampleFailure
<1>3. conclusion' \in {"inconclusive", "pi_enabled", "no_issue"} =>
        ~SampleFailure /\ found.geometry_ok /\ ~found.pi_mismatch /\ conclusion' = PiVerdict
  BY <1>1 DEF GeometryWarning
<1>4. conclusion' \in {"inconclusive", "pi_enabled", "no_issue"} =>
        \A i \in 1 .. 3 : Candidates[i] \in really_read
  <2>1. found.geometry_ok => candidate > 3
    BY <1>1 DEF NoneLeft
  <2> QED
    BY <1>3, <2>1 DEF DiagnosisInv
<1>5. conclusion' = "no_issue" =>
        ~disk.prot_en /\ disk.block_length = disk.logical /\ found.pi_known
  <2>1. PiVerdict = "no_issue" => found.pi_known /\ ~found.prot_en
    BY DEF PiVerdict
  <2> QED
    BY <1>3, <2>1 DEF DiagnosisInv
<1>6. NoIssueIsEarned'
  <2>1. conclusion' \in {"inconclusive", "pi_enabled", "no_issue"} =>
          { Candidates'[i] : i \in 1 .. 3 } \subseteq really_read'
    BY <1>1, <1>2, <1>4
  <2> QED
    BY <1>1, <1>5, <2>1 DEF NoIssueIsEarned
<1>7. \A i \in 1 .. candidate' - 1 :
        (i <= 3 /\ ~SampleFailure') => Candidates'[i] \in really_read'
  BY <1>1, <1>2 DEF DiagnosisInv
<1> QED
  BY <1>1, <1>6, <1>7 DEF DiagnosisInv

LEMMA DiagnosisStep ==
  ASSUME ProgramInv, [Next]_vars
  PROVE  DiagnosisInv' /\ candidate' \in 1 .. 4 /\ conclusion' \in Conclusions
<1>1. /\ DiagnosisInv /\ PlaceInv /\ DriveTypes /\ disk' = disk
      /\ candidate \in 1 .. 4 /\ conclusion \in Conclusions
  BY DriveFrame DEF ProgramInv, TypeOK, ProcTypes
<1>2. CASE OpenQuickDiagnosis
  <2>1. /\ pc = "open" /\ QueryGeometry /\ pc' = "query_pi" /\ limit' = limit /\ ksize' = ksize
        /\ UNCHANGED <<candidate, conclusion>>
    BY <1>2 DEF OpenQuickDiagnosis, driveVars, QueryGeometry
  <2> QED
    BY <1>1, <2>1, QueriesStep
<1>3. CASE QuickDiagnosisStep
  <2>1. limit' = limit /\ ksize' = ksize
    BY <1>3 DEF QuickDiagnosisStep, driveVars
  <2>2. CASE pc = "query_pi" /\ QueryPi /\ pc' = "sample"
    BY <1>1, <2>1, <2>2, QueriesStep DEF QueryPi
  <2>3. CASE pc = "sample" /\ TakeSample /\ UNCHANGED pc
    BY <1>1, <2>3, SampleStep DEF TakeSample
  <2>4. CASE pc = "sample" /\ Conclude /\ pc' = "close"
    <3>1. conclusion' \in Conclusions /\ candidate' = candidate
      BY <2>4 DEF Conclude, PiVerdict, Conclusions
    <3> QED
      BY <1>1, <2>4, <3>1, ConcludeStep
  <2> QED
    BY <1>3, <2>2, <2>3, <2>4 DEF QuickDiagnosisStep
<1>4. CASE QdForget
  <2>1. (found = Unknown /\ candidate = 1 /\ samples = {} /\ really_read = {}
           /\ conclusion = "none" => DiagnosisInv)'
    BY NothingFound, PTL
  <2> QED
    BY <1>4, <2>1 DEF QdForget, Conclusions
<1>5. CASE UNCHANGED qdVars /\ (pc' = pc \/ (pc \notin {"sample", "close"} /\ pc' # "sample"))
  BY <1>1, <1>5, DiagnosisKept DEF qdVars
<1>6. CASE MenuStep
  <2>1. pc \notin {"sample", "close"} /\ pc' # "sample"
    BY <1>6 DEF MenuStep, PressM, ListDevices, NoDeviceChosen, ChooseProcedure, AfterChoice,
                AnswerYes, NoProcedureChosen, AfterYes, TurnBack, NextRound, ForgetChoice,
                FirstMenu, AskOption
  <2> QED
    BY <1>5, <1>6, <2>1, MenuFrame DEF procVars
<1>7. CASE OpenWriteZeros \/ WriteZerosBlock \/ WriteZerosDone \/ OpenHpaSet \/ HpaNativeStep
             \/ HpaMaxLbaStep \/ Interrupted \/ StartProgram \/ ShowSmart \/ OpenScan \/ CloseScan
  <2>1. pc \notin {"sample", "close"} /\ pc' # "sample" /\ UNCHANGED qdVars
    BY <1>7 DEF OpenWriteZeros, WriteZerosBlock, WriteZerosDone, OpenHpaSet, HpaNativeStep,
                HpaMaxLbaStep, Interrupted, StartProgram, ShowSmart, OpenScan, CloseScan,
                menuVars, procVars
  <2> QED
    BY <1>5, <2>1
<1>8. CASE OpenFiles
  <2>1. pc \notin {"sample", "close"} /\ pc' # "sample" /\ UNCHANGED qdVars
    BY <1>8 DEF OpenFiles, NextRound, ForgetChoice, FirstMenu
  <2> QED
    BY <1>5, <2>1
<1>9. CASE RendererFails \/ CloseProcedure \/ Killed
  BY <1>4, <1>9 DEF RendererFails, CloseProcedure, Killed, ForgetSession
<1>10. CASE Rescan \/ UNCHANGED vars
  BY <1>5, <1>10 DEF Rescan, procVars, vars, menuVars
<1> QED
  BY <1>2, <1>3, <1>6, <1>7, <1>8, <1>9, <1>10 DEF Next, ProcedureStep
-----------------------------------------------------------------------------
(* The theorems.                                                           *)

LEMMA ProcTypesStep ==
  ASSUME ProgramInv, [Next]_vars
  PROVE  ProcTypes'
<1>1. ProcTypes /\ limit \in 1 .. Native /\ option \in Int /\ Native \in Nat
  BY NativeAssumption DEF ProgramInv, TypeOK, DriveTypes, MenuTypes
<1>2. max_lba' \in Int /\ limit_before' \in 0 .. Native
  <2>1. CASE OpenHpaSet
    BY <1>1, <2>1 DEF OpenHpaSet, HpaOpen
  <2>2. CASE HpaNativeStep \/ HpaMaxLbaStep
    BY <1>1, <2>2 DEF HpaNativeStep, HpaMaxLbaStep, HpaSetNative, HpaSetMaxLba, ProcTypes
  <2>3. CASE HpaForget
    BY <1>1, <2>3 DEF HpaForget
  <2>4. CASE UNCHANGED hpaVars
    BY <1>1, <2>4 DEF hpaVars, ProcTypes
  <2> QED
    BY <2>1, <2>2, <2>3, <2>4, ProcedureFrame
<1>3. set_failed' \in BOOLEAN /\ lost' \in BOOLEAN
  <2>1. CASE OpenHpaSet \/ HpaForget
    <3>1. set_failed' = FALSE /\ lost' = FALSE
      BY <2>1 DEF OpenHpaSet, HpaOpen, HpaForget
    <3> QED
      BY <3>1
  <2>2. CASE HpaNativeStep
    BY <1>1, <2>2 DEF HpaNativeStep, HpaSetNative, ProcTypes
  <2>3. CASE HpaMaxLbaStep
    BY <1>1, <2>3 DEF HpaMaxLbaStep, HpaSetMaxLba, ProcTypes, Succeeds
  <2>4. CASE UNCHANGED hpaVars
    BY <1>1, <2>4 DEF hpaVars, ProcTypes
  <2> QED
    BY <2>1, <2>2, <2>3, <2>4, ProcedureFrame
<1> QED
  BY <1>2, <1>3, SettingStep, DiagnosisStep DEF ProcTypes

LEMMA InitHolds == Init => ProgramInv
<1> SUFFICES ASSUME Init PROVE ProgramInv
  OBVIOUS
<1>1. DriveTypes /\ SizesInv
  <2>1. NoDevice \in Device /\ NoDevice.capacity < Width \div 2
    BY Halves, SectorsAtOnceAssumption DEF NoDevice, Device
  <2> QED
    BY <2>1 DEF Init, DriveInit, DriveTypes, SizesInv
<1>2. /\ start_lba = 0 /\ end_lba = 0 /\ lba_to_process = 0 /\ blk_index = 0
      /\ num = 0 /\ den = 0 /\ fd_lba = 0 /\ report = EmptyReport
      /\ seeks_ok = TRUE /\ write_failed = FALSE /\ zeroed = {}
  BY DEF Init, WzIdle, DriveInit
<1>3. WzTypes
  <2>1. EmptyReport \in Report
    BY DEF EmptyReport, Report
  <2>2. 0 \in 0 .. Width - 1 /\ 0 \in 0 .. Native * disk.logical
    BY <1>1, Ends, WidthAssumption, SectorsAtOnceAssumption
  <2>3. fd_lba \in 0 .. Native * disk.logical /\ den \in 0 .. Width - 1 /\ num <= den
    BY <1>2, <2>2
  <2>4. report \in Report /\ seeks_ok \in BOOLEAN /\ write_failed \in BOOLEAN
    BY <1>2, <2>1
  <2>5. /\ start_lba \in Int /\ end_lba \in Nat /\ lba_to_process \in Int
        /\ blk_index \in Nat /\ num \in Nat
    BY <1>2
  <2> QED
    BY <2>3, <2>4, <2>5 DEF WzTypes
<1>4. /\ max_lba = 0 /\ set_failed = FALSE /\ lost = FALSE /\ limit_before = 0
      /\ candidate = 1 /\ conclusion = "none" /\ disturbed = FALSE
      /\ readahead = disk.readahead /\ old_readahead = 0
      /\ frontend \in Frontends /\ pc = "list" /\ procedure = "none"
      /\ option = 0 /\ consents = 0
  BY DEF Init, HpaIdle, QdIdle, RaInit
<1>5. ProcTypes
  <2>1. set_failed \in BOOLEAN /\ lost \in BOOLEAN /\ disturbed \in BOOLEAN
    BY <1>4, Zenon
  <2>2. /\ max_lba \in Int /\ candidate \in 1 .. 4 /\ conclusion \in Conclusions
        /\ limit_before \in 0 .. Native
    BY <1>4, NativeAssumption DEF Conclusions
  <2>3. readahead \in {0, disk.readahead} /\ old_readahead \in {0, disk.readahead}
    BY <1>4
  <2> QED
    BY <2>1, <2>2, <2>3 DEF ProcTypes
<1>6. MenuTypes
  BY <1>4 DEF MenuTypes
<1>7. PlaceInv /\ CountInv /\ LimitInv /\ SettingInv
  BY <1>4 DEF PlaceInv, CountInv, LimitInv, HpaSettles, SettingInv
<1>8. DiagnosisInv
  BY NothingFound DEF Init, QdIdle
<1>9. WriteInv
  <2> DEFINE h == Width \div 2
  <2>1. h \in Nat /\ h > 0
    BY Halves, SectorsAtOnceAssumption
  <2>2. ReportedSectors = {}
    BY <1>2 DEF ReportedSectors, Sectors, EmptyReport
  <2> HIDE DEF h
  <2>3. /\ start_lba \in 0 .. h - 1 /\ end_lba < h
        /\ lba_to_process >= -h /\ lba_to_process < h /\ ~(lba_to_process > 0)
        /\ start_lba .. end_lba - lba_to_process - 1 = {}
    BY <1>2, <2>1
  <2> QED
    BY <1>2, <2>2, <2>3 DEF WriteInv, h
<1> QED
  BY <1>1, <1>3, <1>5, <1>6, <1>7, <1>8, <1>9 DEF ProgramInv, TypeOK

LEMMA StepPreserves == ProgramInv /\ [Next]_vars => ProgramInv'
<1> SUFFICES ASSUME ProgramInv, [Next]_vars PROVE ProgramInv'
  OBVIOUS
<1>1. TypeOK' /\ SizesInv'
  BY DriveStep, WzTypesStep, ProcTypesStep, MenuTypesStep DEF TypeOK
<1>2. PlaceInv' /\ WriteInv' /\ CountInv' /\ LimitInv' /\ DiagnosisInv' /\ SettingInv'
  BY PlaceStep, WriteStep, CountStep, LimitStep, DiagnosisStep, SettingStep
<1> QED
  BY <1>1, <1>2 DEF ProgramInv

(* The inductive invariant of the programs.                                *)
THEOREM ProgramInvariant == Spec => []ProgramInv
BY InitHolds, StepPreserves, PTL DEF Spec

(* Every variable stays within its type: no descriptor beyond the drive,   *)
(* no sector written that the drive does not have, no more blocks than     *)
(* were counted.                                                           *)
THEOREM ProgramTypes == Spec => []TypeOK
<1>1. ProgramInv => TypeOK
  BY DEF ProgramInv
<1> QED
  BY <1>1, ProgramInvariant, PTL

(* Only what the user has consented to, as often as it takes, changes the  *)
(* contents of the drive or its limit.                                     *)
THEOREM InvasiveStepsAreConsented == Spec => InvasiveConsented
<1>1. ASSUME ProgramInv, [Next]_vars
      PROVE  [(limit' # limit \/ ~(zeroed' \subseteq zeroed)) => Consented]_vars
  <2>1. CASE HpaNativeStep \/ HpaMaxLbaStep
    <3>1. Consented
      BY <1>1, <2>1 DEF HpaNativeStep, HpaMaxLbaStep, ProgramInv, PlaceInv, Invasive
    <3> QED
      BY <3>1
  <2>2. CASE WriteZerosBlock
    <3>1. Consented
      BY <1>1, <2>2 DEF WriteZerosBlock, ProgramInv, PlaceInv, Invasive
    <3> QED
      BY <3>1
  <2>3. CASE ~(HpaNativeStep \/ HpaMaxLbaStep \/ WriteZerosBlock)
    <3>1. limit' = limit
      BY <1>1, <2>3, DriveFrame
    <3>2. zeroed' \subseteq zeroed
      BY <1>1, <2>3, ProcedureFrame DEF OpenWriteZeros, WzOpen
    <3> QED
      BY <3>1, <3>2
  <2> QED
    BY <2>1, <2>2, <2>3
<1>2. ProgramInv /\ [Next]_vars
        => [(limit' # limit \/ ~(zeroed' \subseteq zeroed)) => Consented]_vars
  BY <1>1
<1> QED
  BY <1>2, ProgramInvariant, PTL DEF Spec, InvasiveConsented

(* What write zeros reports as good is zero, and nothing outside the range *)
(* is touched, as long as no lseek() has failed.                           *)
THEOREM GoodBlocksAreZero == Spec => []WrittenAsReported
<1>1. ProgramInv => WrittenAsReported
  BY DEF ProgramInv, WriteInv, WrittenAsReported
<1> QED
  BY <1>1, ProgramInvariant, PTL

(* Without a failed block the whole device is zero when the loop has come  *)
(* to its end.                                                             *)
THEOREM WholeDeviceIsZero == Spec => []FillsDeviceSpace
<1>1. ProgramInv => FillsDeviceSpace
  <2> SUFFICES ASSUME ProgramInv, pc = "close", procedure = "posix_write_zeros", num = den,
                      ~write_failed, seeks_ok, dev.capacity >= DriveEnd
               PROVE  start_lba .. DriveEnd - 1 \subseteq zeroed
    BY DEF FillsDeviceSpace
  <2>1. /\ end_lba = dev.capacity /\ num = blk_index /\ den = Blocks(end_lba - start_lba)
    BY DEF ProgramInv, CountInv
  <2>2. /\ start_lba \in Nat /\ end_lba \in Nat /\ end_lba < Width \div 2
        /\ lba_to_process \in Int /\ blk_index \in Nat /\ num \in Nat /\ DriveEnd \in Nat
        /\ Width \div 2 \in Nat
        /\ lba_to_process > 0 => start_lba + SectorsAtOnce * blk_index = end_lba - lba_to_process
        /\ lba_to_process < 0 => end_lba < start_lba
        /\ lba_to_process >= 0 => start_lba .. end_lba - lba_to_process - 1 \subseteq zeroed
    BY Halves, Ends DEF ProgramInv, TypeOK, WzTypes, WriteInv
  <2>3. CASE start_lba >= DriveEnd
    BY <2>2, <2>3
  <2>4. CASE start_lba < DriveEnd
    <3>1. end_lba - start_lba \in Nat /\ end_lba - start_lba < Width \div 2
      BY <2>1, <2>2, <2>4
    <3>2. end_lba - start_lba <= SectorsAtOnce * num
      <4> DEFINE range == end_lba - start_lba
      <4>1. num = Blocks(range)
        BY <2>1
      <4>2. range \in Nat /\ range < Width \div 2 /\ num \in Nat /\ num >= num
        BY <2>2, <3>1
      <4> HIDE DEF range
      <4>3. range <= SectorsAtOnce * num
        BY <4>1, <4>2, BlocksReach
      <4> QED
        BY <4>3 DEF range
    <3>3. SectorsAtOnce * num \in Nat
      BY <2>2, SectorsAtOnceAssumption
    <3>4. lba_to_process = 0
      BY <2>1, <2>2, <2>4, <3>2, <3>3
    <3> QED
      BY <2>1, <2>2, <3>4
  <2> QED
    BY <2>2, <2>3, <2>4
<1> QED
  BY <1>1, ProgramInvariant, PTL

(* Where the two commands of hpa_set leave the limit of the drive.         *)
THEOREM LimitSettles == Spec => []HpaSettles
<1>1. ProgramInv => HpaSettles
  BY DEF ProgramInv, LimitInv
<1> QED
  BY <1>1, ProgramInvariant, PTL

(* "No issue" and the other passes are earned by what was read and told.   *)
THEOREM PassesAreEarned == Spec => []NoIssueIsEarned
<1>1. ProgramInv => NoIssueIsEarned
  BY DEF ProgramInv, DiagnosisInv
<1> QED
  BY <1>1, ProgramInvariant, PTL

(* The read-ahead of the device is its own again between the procedures,   *)
(* unless one of the exceptions that ReadAheadReturns names has happened:  *)
(* a renderer that does not open is one of them.                           *)
THEOREM ReadAheadIsRestored == Spec => []ReadAheadReturns
<1>1. ProgramInv => ReadAheadReturns
  BY DEF ProgramInv, SettingInv, ReadAheadReturns
<1> QED
  BY <1>1, ProgramInvariant, PTL
=============================================================================
