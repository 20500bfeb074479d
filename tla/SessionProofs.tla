---------------------------- MODULE SessionProofs ----------------------------
(***************************************************************************)
(* The safety of a session, for every number of blocks, every length of    *)
(* the ring of reports and every moment of a signal or a resize.           *)
(***************************************************************************)
EXTENDS SessionProps, SequenceTheorems, TLAPS

(* Two sequence numbers less than a ring apart have different slots.       *)
LEMMA SlotsDiffer ==
  ASSUME NEW a \in Nat, NEW b \in Nat, a < b, b < a + Slots
  PROVE  Slot(a) # Slot(b)
<1> DEFINE p == a \div Slots
           q == b \div Slots
<1>1. Slots \in Nat /\ Slots > 0
  BY SlotsAssumption
<1>2. /\ p \in Int /\ q \in Int
      /\ a = Slots * p + (a % Slots)
      /\ b = Slots * q + (b % Slots)
  BY <1>1
<1>3. SUFFICES ASSUME a % Slots = b % Slots PROVE FALSE
  BY DEF Slot
<1> HIDE DEF p, q
<1>4. b - a = Slots * (q - p)
  BY <1>1, <1>2, <1>3
<1>5. CASE q - p <= 0
  <2>1. Slots * (q - p) <= 0
    BY <1>1, <1>2, <1>5
  <2> QED
    BY <2>1, <1>4
<1>6. CASE q - p >= 1
  <2>1. Slots * (q - p) >= Slots
    BY <1>1, <1>2, <1>6
  <2> QED
    BY <2>1, <1>1, <1>4
<1> QED
  BY <1>2, <1>5, <1>6

(* A sequence number has a slot.                                           *)
LEMMA SlotInRing ==
  ASSUME NEW a \in Nat
  PROVE  Slot(a) \in 0 .. Slots - 1
BY SlotsAssumption DEF Slot

-----------------------------------------------------------------------------
(* The initial state, and the states with fresh contexts.                  *)

(* Nothing handed over, an empty queue.                                    *)
Blank ==
  /\ interrupt = FALSE /\ finished = FALSE /\ num = 0 /\ perform_ret = 0
  /\ reports = [s \in 0 .. Slots - 1 |-> 0]
  /\ seqno_write = 0 /\ seqno_read = 0 /\ queue_length = 0
  /\ order_hangup = FALSE /\ caught = FALSE /\ layout_ok = TRUE
  /\ handed = <<>> /\ rendered = <<>> /\ overrun = FALSE
  /\ checked = TRUE /\ late = 0

LEMMA BlankInv ==
  Blank /\ worker = "none" /\ render \in {"none", "check"} =>
    RingTypes /\ HandedInv /\ QueueInv
<1> SUFFICES ASSUME Blank, worker = "none", render \in {"none", "check"}
             PROVE  RingTypes /\ HandedInv /\ QueueInv
  OBVIOUS
<1>1. RingTypes
  <2>1. 0 \in BlockNumbers
    BY NumBlocksAssumption DEF BlockNumbers
  <2>2. reports \in [0 .. Slots - 1 -> BlockNumbers]
    BY <2>1 DEF Blank
  <2>3. handed \in Seq(BlockNumbers) /\ rendered \in Seq(BlockNumbers)
    BY EmptySeq DEF Blank
  <2> QED
    BY <2>1, <2>2, <2>3 DEF Blank, RingTypes
<1>2. HandedInv
  <2>1. Unfilled = 0
    BY DEF Unfilled
  <2>2. num = Len(handed) /\ seqno_write = num - Unfilled /\ num >= Unfilled
    BY <2>1, EmptySeq DEF Blank
  <2> QED
    BY <2>2, NumBlocksAssumption DEF Blank, HandedInv
<1>3. QueueInv
  BY EmptySeq DEF Blank, QueueInv, Taken
<1> QED
  BY <1>1, <1>2, <1>3

LEMMA InitInv == Init => SessionInv
<1> SUFFICES ASSUME Init PROVE SessionInv
  OBVIOUS
<1>1. Blank /\ worker = "none" /\ render = "none"
  BY DEF Init, Blank
<1>2. TypeOK
  BY <1>1, BlankInv DEF Init, TypeOK, ControlTypes
<1>3. ThreadsInv
  BY DEF Init, ThreadsInv, Working
<1> QED
  BY <1>1, <1>2, <1>3, BlankInv DEF SessionInv

(* A session begins, ends in the menu, or dies with its process.           *)
LEMMA FreshStep ==
  ASSUME SessionInv, OpenRenderer \/ BackToMenu \/ Killed
  PROVE  SessionInv'
<1>1. /\ Blank' /\ worker' = "none"
      /\ render' \in {"none", "check"}
  BY DEF OpenRenderer, BackToMenu, Killed, FreshContexts, Blank
<1>2. (RingTypes /\ HandedInv /\ QueueInv)'
  <2>1. (Blank /\ worker = "none" /\ render \in {"none", "check"} =>
           RingTypes /\ HandedInv /\ QueueInv)'
    BY BlankInv, PTL
  <2> QED
    BY <1>1, <2>1
<1>3. TypeOK'
  <2> USE <1>1, <1>2 DEF TypeOK, ControlTypes, SessionInv, Blank
  <2>1. CASE OpenRenderer
    BY <2>1 DEF OpenRenderer, signals
  <2>2. CASE BackToMenu
    BY <2>2 DEF BackToMenu
  <2>3. CASE Killed
    BY <2>3 DEF Killed
  <2> QED
    BY <2>1, <2>2, <2>3
<1>4. ThreadsInv'
  BY <1>1 DEF OpenRenderer, BackToMenu, Killed, Blank, ThreadsInv, Working
<1> QED
  BY <1>2, <1>3, <1>4 DEF SessionInv

-----------------------------------------------------------------------------
(* The steps that leave the ring, its reader and what was handed over as   *)
(* they are.                                                               *)
QuietStep ==
  \/ MainStep \/ OpenRendererFails
  \/ WorkerStops \/ WorkerGoesOn \/ WorkerGivesUp
  \/ ReadFlag \/ ClearFlag \/ AskSize \/ RenderedAll \/ RenderHangsUp
  \/ TerminationSignal \/ Resize

LEMMA QuietFacts ==
  ASSUME SessionInv, QuietStep
  PROVE  /\ UNCHANGED <<ring, reader, num, handed, overrun, late>>
         /\ Unfilled' = Unfilled
         /\ worker' = "finalize" => worker = "finalize"
         /\ worker' = "perform" => num < NumBlocks /\ (worker = "perform" \/ ~interrupt)
         /\ interrupt => interrupt'
<1> USE DEF QuietStep, threads, signals, procedure, ring, reader, display, history,
            Unfilled, SessionInv, TypeOK, ControlTypes, RingTypes
<1>1. CASE MainStep
  BY <1>1 DEF MainStep, InstallHandlers, PollInterrupted, PollFinished, UnsetHandlers,
              CloseProcedure, HangUp, JoinRender, SessionInv, ThreadsInv, HandedInv
<1>2. CASE OpenRendererFails \/ TerminationSignal \/ Resize
  BY <1>2 DEF OpenRendererFails, TerminationSignal, Resize, HandedInv
<1>3. CASE WorkerStops \/ WorkerGoesOn \/ WorkerGivesUp
  BY <1>3, NumBlocksAssumption
  DEF WorkerStops, WorkerGoesOn, WorkerGivesUp, MustStop, BlockNumbers
<1>4. CASE ReadFlag \/ ClearFlag \/ AskSize \/ RenderedAll \/ RenderHangsUp
  BY <1>4 DEF ReadFlag, ClearFlag, AskSize, RenderedAll, RenderHangsUp, HandedInv
<1> QED
  BY <1>1, <1>2, <1>3, <1>4

(* Such steps keep the parts of the invariant that are about the ring; the *)
(* render thread ends only when its queue is empty.                        *)
LEMMA QuietRing ==
  ASSUME SessionInv, QuietStep
  PROVE  HandedInv' /\ QueueInv'
<1>1. /\ UNCHANGED <<reports, seqno_write, seqno_read, queue_length, rendered, num,
                     handed, overrun, late>>
      /\ Unfilled' = Unfilled
      /\ worker' = "finalize" => worker = "finalize"
      /\ worker' = "perform" => num < NumBlocks /\ (worker = "perform" \/ ~interrupt)
      /\ interrupt => interrupt'
  BY QuietFacts DEF ring, reader
<1>2. HandedInv'
  BY <1>1 DEF SessionInv, HandedInv, TypeOK, Slot
<1>3. /\ render' \in {"drain_last", "show_last"} => render \in {"drain_last", "show_last"}
      /\ Taken' = Taken
      /\ render' = "done" => render = "done" \/ (render = "drain_last" /\ queue_length = 0)
  BY DEF QuietStep, MainStep, InstallHandlers, PollInterrupted, PollFinished,
         UnsetHandlers, CloseProcedure, HangUp, JoinRender, OpenRendererFails,
         WorkerStops, WorkerGoesOn, WorkerGivesUp, ReadFlag, ClearFlag, AskSize,
         RenderedAll, RenderHangsUp, AfterHangup, TerminationSignal, Resize, threads,
         SessionInv, TypeOK, ControlTypes, RingTypes, Taken
<1>4. QueueInv'
  BY <1>1, <1>3, NumBlocksAssumption DEF SessionInv, QueueInv, TypeOK, Slot, BlockNumbers
<1> QED
  BY <1>2, <1>4

LEMMA QuietThreads ==
  ASSUME SessionInv, QuietStep
  PROVE  ThreadsInv'
<1> USE DEF SessionInv, TypeOK, ControlTypes, RingTypes, ThreadsInv, Working, threads, signals, procedure, ring,
            reader, display, history
<1>1. CASE MainStep
  BY <1>1 DEF MainStep, InstallHandlers, PollInterrupted, PollFinished, UnsetHandlers,
              CloseProcedure, WorkerJoined, HangUp, JoinRender
<1>2. CASE OpenRendererFails \/ TerminationSignal \/ Resize
  BY <1>2, ResizeAtAssumption DEF OpenRendererFails, TerminationSignal, Resize
<1>3. CASE WorkerStops \/ WorkerGoesOn \/ WorkerGivesUp
  BY <1>3 DEF WorkerStops, WorkerGoesOn, WorkerGivesUp
<1>4. CASE ReadFlag \/ ClearFlag \/ AskSize \/ RenderedAll \/ RenderHangsUp
  BY <1>4 DEF ReadFlag, ClearFlag, AskSize, RenderedAll, RenderHangsUp, AfterHangup
<1> QED
  BY <1>1, <1>2, <1>3, <1>4 DEF QuietStep

LEMMA QuietTypes ==
  ASSUME SessionInv, QuietStep
  PROVE  TypeOK'
<1>1. RingTypes'
  BY QuietFacts DEF SessionInv, TypeOK, RingTypes, ring, reader
<1>2. ControlTypes'
  <2>0. ControlTypes
    BY DEF SessionInv, TypeOK
  <2> USE DEF ControlTypes, threads, signals, procedure, ring, reader, display, history
  <2>1. InstallHandlers => ControlTypes'
    BY <2>0 DEF InstallHandlers
  <2>2. PollInterrupted => ControlTypes'
    BY <2>0 DEF PollInterrupted
  <2>3. PollFinished => ControlTypes'
    BY <2>0 DEF PollFinished
  <2>4. UnsetHandlers => ControlTypes'
    BY <2>0 DEF UnsetHandlers
  <2>5. CloseProcedure => ControlTypes'
    BY <2>0 DEF CloseProcedure
  <2>6. HangUp => ControlTypes'
    BY <2>0 DEF HangUp
  <2>7. JoinRender => ControlTypes'
    BY <2>0 DEF JoinRender
  <2>8. OpenRendererFails => ControlTypes'
    BY <2>0 DEF OpenRendererFails
  <2>9. TerminationSignal => ControlTypes'
    BY <2>0 DEF TerminationSignal
  <2>10. Resize => ControlTypes'
    BY <2>0 DEF Resize
  <2>11. WorkerStops => ControlTypes'
    BY <2>0 DEF WorkerStops
  <2>12. WorkerGoesOn => ControlTypes'
    BY <2>0 DEF WorkerGoesOn
  <2>13. WorkerGivesUp => ControlTypes'
    BY <2>0 DEF WorkerGivesUp
  <2>14. ReadFlag => ControlTypes'
    BY <2>0 DEF ReadFlag
  <2>15. ClearFlag => ControlTypes'
    BY <2>0 DEF ClearFlag
  <2>16. AskSize => ControlTypes'
    BY <2>0 DEF AskSize
  <2>17. RenderedAll => ControlTypes'
    BY <2>0 DEF RenderedAll
  <2>18. RenderHangsUp => ControlTypes'
    BY <2>0 DEF RenderHangsUp, AfterHangup
  <2> QED
    BY <2>1, <2>2, <2>3, <2>4, <2>5, <2>6, <2>7, <2>8, <2>9,
       <2>10, <2>11, <2>12, <2>13, <2>14, <2>15, <2>16, <2>17, <2>18 DEF QuietStep, MainStep
<1> QED
  BY <1>1, <1>2 DEF TypeOK

(* The numbers of writer and reader.                                       *)
LEMMA ReaderFacts ==
  ASSUME SessionInv
  PROVE  /\ seqno_write \in BlockNumbers /\ seqno_read \in Nat /\ queue_length \in Nat
         /\ seqno_write \in Nat /\ seqno_write <= NumBlocks /\ NumBlocks \in Nat
         /\ rendered \in Seq(BlockNumbers) /\ Len(rendered) \in Nat
         /\ Taken \in {0, 1}
         /\ seqno_read = Len(rendered) + Taken /\ queue_length >= Taken
         /\ Len(rendered) + queue_length <= seqno_write
BY NumBlocksAssumption DEF SessionInv, TypeOK, RingTypes, BlockNumbers, QueueInv, Taken

-----------------------------------------------------------------------------
(* The worker's steps on the ring.                                         *)

LEMMA PerformStep == ASSUME SessionInv, WorkerPerforms PROVE SessionInv'
<1> USE DEF WorkerPerforms, SessionInv
<1>0. /\ num \in Nat /\ num < NumBlocks /\ num + 1 \in BlockNumbers
      /\ handed \in Seq(BlockNumbers) /\ num = Len(handed)
  BY NumBlocksAssumption DEF TypeOK, RingTypes, HandedInv, BlockNumbers
<1>1. /\ handed' \in Seq(BlockNumbers) /\ num' = Len(handed')
      /\ \A i \in 1 .. num' : handed'[i] = i
  BY <1>0 DEF HandedInv
<1>2. TypeOK'
  <2>1. ControlTypes'
    BY DEF TypeOK, ControlTypes, signals, ring, reader, display
  <2>2. RingTypes'
    BY <1>0, <1>1 DEF TypeOK, RingTypes, ring, reader
  <2> QED
    BY <2>1, <2>2 DEF TypeOK
<1>3. ThreadsInv'
  BY DEF ThreadsInv, Working, TypeOK, ControlTypes, display
<1>4. HandedInv'
  <2>1. Unfilled = 0 /\ Unfilled' = 1
    BY DEF Unfilled
  <2>2. (num >= Unfilled /\ seqno_write = num - Unfilled)'
    BY <1>0, <2>1 DEF HandedInv, ring
  <2>3. late' <= 1
    BY DEF HandedInv, TypeOK, ControlTypes, RingTypes
  <2>4. (worker = "perform" \/ ~interrupt => late = 0)'
    BY DEF HandedInv, TypeOK, ControlTypes, RingTypes
  <2> QED
    BY <1>0, <1>1, <2>2, <2>3, <2>4, NumBlocksAssumption DEF HandedInv
<1>5. QueueInv'
  BY DEF QueueInv, Taken, ring, reader, Slot
<1> QED
  BY <1>2, <1>3, <1>4, <1>5

LEMMA FillStep == ASSUME SessionInv, FillSlot PROVE SessionInv'
<1> USE DEF FillSlot, SessionInv
<1>0. /\ num \in Nat /\ num \in BlockNumbers /\ Slot(seqno_write) \in 0 .. Slots - 1
      /\ seqno_write \in Nat /\ Len(rendered) \in Nat /\ queue_length \in Nat
      /\ seqno_write + 1 = num
      /\ reports \in [0 .. Slots - 1 -> BlockNumbers]
  <2>1. Unfilled = 1
    BY DEF Unfilled
  <2>2. Len(rendered) \in Nat /\ seqno_write \in Nat /\ queue_length \in Nat
    BY ReaderFacts
  <2>3. num \in Nat /\ num \in BlockNumbers /\ reports \in [0 .. Slots - 1 -> BlockNumbers]
    BY NumBlocksAssumption DEF TypeOK, RingTypes, BlockNumbers
  <2>4. Slot(seqno_write) \in 0 .. Slots - 1
    BY <2>2, SlotInRing
  <2>5. seqno_write + 1 = num
    BY <2>1, <2>2, <2>3 DEF HandedInv
  <2> QED
    BY <2>2, <2>3, <2>4, <2>5
<1>1. TypeOK'
  <2>1. ControlTypes'
    BY DEF TypeOK, ControlTypes, threads, signals, procedure, reader, display
  <2>2. overrun' \in BOOLEAN
    BY DEF TypeOK, RingTypes
  <2>3. reports' \in [0 .. Slots - 1 -> BlockNumbers]
    BY <1>0
  <2> QED
    BY <2>1, <2>2, <2>3 DEF TypeOK, RingTypes, procedure, reader
<1>2. ThreadsInv'
  BY DEF ThreadsInv, Working, TypeOK, ControlTypes, procedure, display
<1>3. HandedInv'
  <2>1. Unfilled = 1 /\ Unfilled' = 1
    BY DEF Unfilled
  <2>2. reports'[Slot(seqno_write)] = num
    BY <1>0
  <2> QED
    BY <2>1, <2>2 DEF HandedInv, procedure, Slot
<1>4. QueueInv'
  <2>1. ASSUME ~overrun', NEW q \in Len(rendered) .. seqno_write - 1
        PROVE  reports'[Slot(q)] = q + 1
    <3>0. ~overrun' => ~overrun /\ ~(seqno_write - Len(rendered) >= Slots)
      OBVIOUS
    <3>1. q \in Nat /\ q < seqno_write /\ seqno_write < q + Slots
      BY <1>0, <2>1, <3>0, SlotsAssumption
    <3>2. Slot(q) # Slot(seqno_write) /\ Slot(q) \in 0 .. Slots - 1
      BY <1>0, <3>1, SlotsDiffer, SlotInRing
    <3>3. reports[Slot(q)] = q + 1
      BY <2>1 DEF QueueInv
    <3> QED
      BY <1>0, <3>2, <3>3
  <2> QED
    BY <2>1 DEF QueueInv, Taken, reader, Slot
<1> QED
  BY <1>1, <1>2, <1>3, <1>4

LEMMA FinalizeStep == ASSUME SessionInv, FinalizeSlot PROVE SessionInv'
<1> USE DEF FinalizeSlot, SessionInv
<1>0. /\ num \in BlockNumbers /\ seqno_write \in Nat /\ Len(rendered) \in Nat
      /\ queue_length \in Nat /\ seqno_write + 1 = num
      /\ reports[Slot(seqno_write)] = seqno_write + 1
      /\ Unfilled' = 0
  <2>1. Unfilled = 1 /\ Unfilled' = 0
    BY DEF Unfilled
  <2> QED
    BY <2>1, NumBlocksAssumption DEF TypeOK, RingTypes, HandedInv, BlockNumbers
<1>1. TypeOK'
  <2>1. ControlTypes'
    BY DEF TypeOK, ControlTypes, signals, procedure, reader, display
  <2> QED
    BY <1>0, <2>1 DEF TypeOK, RingTypes, procedure, reader, history
<1>2. ThreadsInv'
  BY DEF ThreadsInv, Working, TypeOK, ControlTypes, procedure, display
<1>3. HandedInv'
  BY <1>0, NumBlocksAssumption DEF HandedInv, procedure, history, BlockNumbers
<1>4. QueueInv'
  <2>1. render \notin {"drain_last", "show_last", "done"}
    BY DEF ThreadsInv
  <2>2. ASSUME ~overrun, NEW q \in Len(rendered) .. seqno_write
        PROVE  reports[Slot(q)] = q + 1
    <3>1. CASE q = seqno_write
      BY <1>0, <3>1
    <3>2. CASE q # seqno_write
      BY <1>0, <2>2, <3>2 DEF QueueInv
    <3> QED
      BY <3>1, <3>2
  <2> QED
    BY <1>0, <2>1, <2>2 DEF QueueInv, Taken, reader, history, Slot
<1> QED
  BY <1>1, <1>2, <1>3, <1>4

-----------------------------------------------------------------------------
(* The reader's steps on the ring.                                         *)

LEMMA TakeLengthStep == ASSUME SessionInv, TakeLength PROVE SessionInv'
<1> USE DEF TakeLength, QueueLength, SessionInv
<1>0. /\ Taken = 0 /\ Taken' = 0
      /\ queue_length' \in BlockNumbers /\ Len(rendered) + queue_length' = seqno_write
  BY ReaderFacts DEF Taken, BlockNumbers
<1>1. TypeOK'
  <2>1. ControlTypes'
    BY DEF TypeOK, ControlTypes, signals, procedure, display
  <2> QED
    BY <1>0, <2>1 DEF TypeOK, RingTypes, procedure, ring, history
<1>2. ThreadsInv'
  BY DEF ThreadsInv, Working, TypeOK, ControlTypes, procedure, display
<1>3. HandedInv'
  BY DEF HandedInv, Unfilled, procedure, ring, history, Slot
<1>4. QueueInv'
  BY <1>0, ReaderFacts DEF QueueInv, ring, history, Slot
<1> QED
  BY <1>1, <1>2, <1>3, <1>4

LEMMA TakeNextStep == ASSUME SessionInv, TakeNext PROVE SessionInv'
<1> USE DEF TakeNext, SessionInv
<1>0. /\ Taken = 0 /\ Taken' = 1 /\ queue_length >= 1
      /\ seqno_read' = Len(rendered) + 1 /\ seqno_read' \in BlockNumbers
  BY ReaderFacts DEF Taken, BlockNumbers
<1>1. TypeOK'
  <2>1. ControlTypes'
    BY DEF TypeOK, ControlTypes, signals, procedure, display
  <2> QED
    BY <1>0, <2>1 DEF TypeOK, RingTypes, procedure, ring, history
<1>2. ThreadsInv'
  BY DEF ThreadsInv, Working, TypeOK, ControlTypes, procedure, display
<1>3. HandedInv'
  BY DEF HandedInv, Unfilled, procedure, ring, history, Slot
<1>4. QueueInv'
  BY <1>0 DEF QueueInv, ring, history, Slot
<1> QED
  BY <1>1, <1>2, <1>3, <1>4

LEMMA RenderTakenStep == ASSUME SessionInv, RenderTaken PROVE SessionInv'
<1> USE DEF RenderTaken, SessionInv
<1>0. /\ Taken = 1 /\ Taken' = 0 /\ seqno_read - 1 = Len(rendered)
      /\ queue_length - 1 \in BlockNumbers /\ Len(rendered) < seqno_write
      /\ reports[Slot(Len(rendered))] \in BlockNumbers
  <2>1. Taken = 1 /\ Taken' = 0
    BY DEF Taken
  <2>2. reports[Slot(Len(rendered))] \in BlockNumbers
    BY ReaderFacts, SlotInRing DEF TypeOK, RingTypes
  <2> QED
    BY <2>1, <2>2, ReaderFacts DEF BlockNumbers
<1>1. /\ rendered' \in Seq(BlockNumbers) /\ Len(rendered') = Len(rendered) + 1
      /\ rendered'[Len(rendered) + 1] = reports[Slot(Len(rendered))]
      /\ \A i \in 1 .. Len(rendered) : rendered'[i] = rendered[i]
  BY <1>0, ReaderFacts
<1>2. TypeOK'
  <2>1. ControlTypes'
    BY DEF TypeOK, ControlTypes, signals, procedure, display
  <2> QED
    BY <1>0, <1>1, <2>1 DEF TypeOK, RingTypes, procedure, ring, history
<1>3. ThreadsInv'
  BY DEF ThreadsInv, Working, TypeOK, ControlTypes, procedure, display
<1>4. HandedInv'
  BY DEF HandedInv, Unfilled, procedure, ring, history, Slot
<1>5. QueueInv'
  <2>1. /\ (seqno_read = Len(rendered) + Taken)' /\ (queue_length >= Taken)'
        /\ Len(rendered)' + queue_length' = Len(rendered) + queue_length
    BY <1>0, <1>1, ReaderFacts
  <2>2. ASSUME ~overrun, NEW i \in 1 .. Len(rendered) + 1
        PROVE  rendered'[i] = i
    <3>1. CASE i = Len(rendered) + 1
      <4>1. reports[Slot(Len(rendered))] = Len(rendered) + 1
        BY <1>0, <2>2, ReaderFacts DEF QueueInv
      <4> QED
        BY <1>1, <3>1, <4>1
    <3>2. CASE i # Len(rendered) + 1
      BY <1>1, <2>2, <3>2, ReaderFacts DEF QueueInv
    <3> QED
      BY <3>1, <3>2
  <2>3. ASSUME ~overrun, NEW q \in Len(rendered) + 1 .. seqno_write - 1
        PROVE  reports[Slot(q)] = q + 1
    BY <2>3, ReaderFacts DEF QueueInv
  <2> QED
    BY <1>1, <2>1, <2>2, <2>3, ReaderFacts DEF QueueInv, ring, history, Slot
<1> QED
  BY <1>2, <1>3, <1>4, <1>5

-----------------------------------------------------------------------------
(* The invariant and what follows from it.                                 *)

LEMMA StutterStep == ASSUME SessionInv, UNCHANGED vars PROVE SessionInv'
<1> USE DEF vars, threads, signals, procedure, ring, reader, display, history, SessionInv
<1>1. TypeOK'
  BY DEF TypeOK, ControlTypes, RingTypes
<1>2. ThreadsInv'
  BY DEF ThreadsInv, Working
<1>3. HandedInv'
  BY DEF HandedInv, Unfilled, Slot
<1>4. QueueInv'
  BY DEF QueueInv, Taken, Slot
<1> QED
  BY <1>1, <1>2, <1>3, <1>4

LEMMA NextInv == SessionInv /\ [Next]_vars => SessionInv'
<1> SUFFICES ASSUME SessionInv, [Next]_vars PROVE SessionInv'
  OBVIOUS
<1>1. CASE OpenRenderer \/ BackToMenu \/ Killed
  BY <1>1, FreshStep
<1>2. CASE QuietStep
  BY <1>2, QuietTypes, QuietThreads, QuietRing DEF SessionInv
<1>3. CASE WorkerPerforms
  BY <1>3, PerformStep
<1>4. CASE FillSlot
  BY <1>4, FillStep
<1>5. CASE FinalizeSlot
  BY <1>5, FinalizeStep
<1>6. CASE TakeLength
  BY <1>6, TakeLengthStep
<1>7. CASE TakeNext
  BY <1>7, TakeNextStep
<1>8. CASE RenderTaken
  BY <1>8, RenderTakenStep
<1>9. CASE UNCHANGED vars
  BY <1>9, StutterStep
<1> QED
  BY <1>1, <1>2, <1>3, <1>4, <1>5, <1>6, <1>7, <1>8, <1>9
  DEF Next, WorkerStep, RenderStep, User, QuietStep

(* The conjunction of all parts is an invariant of the three threads.      *)
THEOREM SessionInvariant == Spec => []SessionInv
<1>1. Init => SessionInv
  BY InitInv
<1>2. SessionInv /\ [Next]_vars => SessionInv'
  BY NextInv
<1> QED
  BY <1>1, <1>2, PTL DEF Spec

(* Every variable of a session keeps its type: no sequence number runs     *)
(* away, the length of the queue never becomes negative.                   *)
THEOREM SessionTypes == Spec => []TypeOK
<1>1. SessionInv => TypeOK
  BY DEF SessionInv
<1> QED
  BY <1>1, SessionInvariant, PTL

(* Without an overrun the reports are rendered in the order they were      *)
(* handed over, whatever the two threads' stores interleave to: HandleReport *)
(* fills the slot before it moves the sequence number on.                  *)
THEOREM RenderingKeepsOrder == Spec => []RenderedInOrder
<1>1. SessionInv => RenderedInOrder
  <2> SUFFICES ASSUME SessionInv, ~overrun
               PROVE  IsPrefix(rendered, handed)
    BY DEF RenderedInOrder
  <2>1. /\ rendered \in Seq(BlockNumbers) /\ handed \in Seq(BlockNumbers)
        /\ Len(rendered) \in Nat /\ Len(handed) \in Nat
        /\ Len(rendered) <= Len(handed)
    <3>1. Unfilled \in {0, 1}
      BY DEF Unfilled
    <3> QED
      BY <3>1, NumBlocksAssumption
      DEF SessionInv, TypeOK, RingTypes, HandedInv, QueueInv, BlockNumbers
  <2>2. \A i \in 1 .. Len(rendered) : rendered[i] = handed[i]
    BY <2>1 DEF SessionInv, HandedInv, QueueInv
  <2>3. SubSeq(rendered, 1, Len(rendered)) = SubSeq(handed, 1, Len(rendered))
    BY <2>1, <2>2
  <2> QED
    BY <2>1, <2>3 DEF IsPrefix
<1> QED
  BY <1>1, SessionInvariant, PTL

(* The verdict is shown when all that was handed over has been rendered:   *)
(* the last length is taken after the worker is gone.                      *)
THEOREM NothingIsLeftUnrendered == Spec => []NothingLeftUnrendered
<1>1. SessionInv => NothingLeftUnrendered
  <2> SUFFICES ASSUME SessionInv, main = "verdict"
               PROVE  /\ Len(rendered) = Len(handed)
                      /\ ~overrun => rendered = handed
    BY DEF NothingLeftUnrendered
  <2>1. render = "done" /\ worker = "done"
    BY DEF SessionInv, ThreadsInv
  <2>2. Unfilled = 0
    BY <2>1 DEF Unfilled
  <2>3. /\ rendered \in Seq(BlockNumbers) /\ handed \in Seq(BlockNumbers)
        /\ Len(rendered) = Len(handed)
    BY <2>1, <2>2, NumBlocksAssumption
    DEF SessionInv, TypeOK, RingTypes, HandedInv, QueueInv, BlockNumbers
  <2>4. ASSUME ~overrun
        PROVE  rendered = handed
    <3>1. \A i \in 1 .. Len(rendered) : rendered[i] = handed[i]
      BY <2>3, <2>4 DEF SessionInv, HandedInv, QueueInv
    <3> QED
      BY <2>3, <3>1, SeqEqual
  <2> QED
    BY <2>3, <2>4
<1> QED
  BY <1>1, SessionInvariant, PTL

(* The main thread frees the context, and orders the hangup, only when the *)
(* worker is gone.                                                         *)
THEOREM WorkerIsGoneBeforeFree == Spec => []WorkerGoneBeforeFree
<1>1. SessionInv => WorkerGoneBeforeFree
  BY DEF SessionInv, TypeOK, ControlTypes, ThreadsInv, Working, WorkerGoneBeforeFree
<1> QED
  BY <1>1, SessionInvariant, PTL

(* After the interrupt at most the block already let through is performed. *)
THEOREM InterruptStopsWorker == Spec => []StopsAfterInterrupt
<1>1. SessionInv => StopsAfterInterrupt
  BY DEF SessionInv, HandedInv, StopsAfterInterrupt
<1> QED
  BY <1>1, SessionInvariant, PTL
=============================================================================
