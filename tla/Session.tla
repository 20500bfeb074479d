------------------------------- MODULE Session -------------------------------
(***************************************************************************)
(* One run of a procedure under the console interface, again and again:    *)
(* the main thread (render_procedure of render.c and                       *)
(* procedure_perform_until_interrupt of utils.c), the worker thread        *)
(* (dc_procedure_perform_loop of procedure.c with HandleReport of the      *)
(* renderer as its callback), the render thread of the renderer and the    *)
(* two kinds of signals.                                                   *)
(*                                                                         *)
(* The report of a block is its number.  The ring of reports and the two   *)
(* sequence numbers are shared between worker and render thread without a  *)
(* lock; the order of a thread's stores is that of the program.            *)
(***************************************************************************)
EXTENDS Integers, Sequences, SequencesExt

CONSTANTS
  NumBlocks,  \* progress.den
  Slots,      \* the 100*1000 of reports[]
  ResizeAt    \* where the main thread may be when the terminal is resized

ASSUME NumBlocksAssumption == NumBlocks \in Nat
ASSUME SlotsAssumption == Slots \in Nat \ {0}
ASSUME ResizeAtAssumption == ResizeAt \subseteq {"install", "poll", "hangup"}

VARIABLES
  main,            \* the main thread
  worker, render,  \* the other two, "none" when there is no such thread
  handlers,        \* the handler of the termination signals is installed
  winch_handler,   \* that of SIGWINCH is
  termination_signal_caught, sigwinch_flag,
  fits,            \* the terminal has room for the layout
  interrupt, finished, num, perform_ret,  \* the procedure context
  actctx,          \* it is allocated
  reports, seqno_write, seqno_read, queue_length,
  order_hangup, caught, layout_ok,
  \* history
  handed, rendered,  \* reports passed to HandleReport, reports rendered
  overrun,           \* a report was overwritten before it was rendered
  checked,           \* the render thread has polled since the last resize
  late               \* blocks performed since interrupt was set

threads == <<main, worker, render>>
signals == <<handlers, winch_handler, termination_signal_caught, sigwinch_flag>>
procedure == <<interrupt, finished, num, perform_ret, actctx>>
ring == <<reports, seqno_write>>
reader == <<seqno_read, queue_length, rendered>>
display == <<order_hangup, caught, layout_ok, checked>>
history == <<handed, overrun, late>>
vars == <<threads, signals, fits, procedure, ring, reader, display, history>>

Slot(seqno) == seqno % Slots

Init ==
  /\ main = "menu" /\ worker = "none" /\ render = "none"
  /\ handlers = FALSE /\ winch_handler = FALSE
  /\ termination_signal_caught = FALSE /\ sigwinch_flag = FALSE
  /\ fits \in BOOLEAN
  /\ interrupt = FALSE /\ finished = FALSE /\ num = 0 /\ perform_ret = 0
  /\ actctx = FALSE
  /\ reports = [s \in 0 .. Slots - 1 |-> 0]
  /\ seqno_write = 0 /\ seqno_read = 0 /\ queue_length = 0
  /\ order_hangup = FALSE /\ caught = FALSE /\ layout_ok = TRUE
  /\ handed = <<>> /\ rendered = <<>> /\ overrun = FALSE
  /\ checked = TRUE /\ late = 0

-----------------------------------------------------------------------------
(* The main thread                                                         *)

(* Both contexts as calloc leaves them.                                    *)
FreshContexts ==
  /\ interrupt' = FALSE /\ finished' = FALSE /\ num' = 0 /\ perform_ret' = 0
  /\ reports' = [s \in 0 .. Slots - 1 |-> 0]
  /\ seqno_write' = 0 /\ seqno_read' = 0 /\ queue_length' = 0
  /\ order_hangup' = FALSE /\ caught' = FALSE /\ layout_ok' = TRUE
  /\ handed' = <<>> /\ rendered' = <<>> /\ overrun' = FALSE
  /\ checked' = TRUE /\ late' = 0

(* The procedure is open; the renderer opens and starts its thread.        *)
OpenRenderer ==
  /\ main = "menu" /\ fits
  /\ main' = "install" /\ render' = "check" /\ worker' = "none"
  /\ actctx' = TRUE
  /\ FreshContexts
  /\ UNCHANGED <<signals, fits>>

(* require_terminal_size: render_procedure returns at once, the procedure  *)
(* is never closed.                                                        *)
OpenRendererFails ==
  /\ main = "menu" /\ ~fits
  /\ actctx' = TRUE
  /\ UNCHANGED <<threads, signals, fits, interrupt, finished, num, perform_ret,
                 ring, reader, display, history>>

(* render_sigwinch_install, signal_handling_setup and the worker's start.  *)
InstallHandlers ==
  /\ main = "install"
  /\ winch_handler' = TRUE /\ sigwinch_flag' = FALSE /\ handlers' = TRUE
  /\ worker' = "loop" /\ main' = "poll"
  /\ UNCHANGED <<render, termination_signal_caught, fits, procedure, ring, reader,
                 display, history>>

(* The polling loop sees the flag: it takes it and leaves the loop.        *)
PollInterrupted ==
  /\ main = "poll" /\ ~finished /\ termination_signal_caught
  /\ termination_signal_caught' = FALSE /\ interrupt' = TRUE
  /\ main' = "unset"
  /\ UNCHANGED <<worker, render, handlers, winch_handler, sigwinch_flag, fits,
                 finished, num, perform_ret, actctx, ring, reader, display, history>>

PollFinished ==
  /\ main = "poll" /\ finished
  /\ main' = "unset"
  /\ UNCHANGED <<worker, render, signals, fits, procedure, ring, reader, display, history>>

UnsetHandlers ==
  /\ main = "unset"
  /\ handlers' = FALSE /\ main' = "join"
  /\ UNCHANGED <<worker, render, winch_handler, termination_signal_caught,
                 sigwinch_flag, fits, procedure, ring, reader, display, history>>

\* Mutant of WorkerJoined: the worker is not waited for.
WorkerNotJoined == TRUE
WorkerJoined == worker = "done"

(* pthread_join and dc_procedure_close, which frees the context.           *)
CloseProcedure ==
  /\ main = "join" /\ WorkerJoined
  /\ actctx' = FALSE /\ main' = "hangup"
  /\ UNCHANGED <<worker, render, signals, fits, interrupt, finished, num, perform_ret,
                 ring, reader, display, history>>

(* The beginning of the renderer's Close.                                  *)
HangUp ==
  /\ main = "hangup" /\ ~order_hangup
  /\ order_hangup' = TRUE
  /\ UNCHANGED <<threads, signals, fits, procedure, ring, reader, caught, layout_ok,
                 checked, history>>

(* The render thread is joined, the verdict shown.                         *)
JoinRender ==
  /\ main = "hangup" /\ order_hangup /\ render = "done"
  /\ main' = "verdict"
  /\ UNCHANGED <<worker, render, signals, fits, procedure, ring, reader, display, history>>

(* The user presses 'm'; render_sigwinch_restore, and both contexts are    *)
(* gone.                                                                   *)
BackToMenu ==
  /\ main = "verdict"
  /\ main' = "menu" /\ worker' = "none" /\ render' = "none"
  /\ winch_handler' = FALSE
  /\ FreshContexts
  /\ UNCHANGED <<handlers, termination_signal_caught, sigwinch_flag, fits, actctx>>

-----------------------------------------------------------------------------
(* The worker                                                              *)

\* Mutant of MustStop: the loop looks at its progress only.
MustStopWhenDone == num >= NumBlocks
MustStop == interrupt \/ num >= NumBlocks

WorkerStops ==
  /\ worker = "loop" /\ MustStop
  /\ finished' = TRUE /\ worker' = "done"
  /\ UNCHANGED <<main, render, signals, fits, interrupt, num, perform_ret, actctx, ring,
                 reader, display, history>>

(* The test at the loop's head and the block it lets through are two       *)
(* steps: the interrupt may come in between.                               *)
WorkerGoesOn ==
  /\ worker = "loop" /\ ~MustStop
  /\ worker' = "perform"
  /\ UNCHANGED <<main, render, signals, fits, procedure, ring, reader, display, history>>

(* Perform: one block, after which the loop may have to stop.              *)
WorkerPerforms ==
  /\ worker = "perform"
  /\ num' = num + 1 /\ perform_ret' \in {0, 1}
  /\ handed' = Append(handed, num + 1)
  /\ late' = IF interrupt THEN late + 1 ELSE late
  /\ worker' = "enqueue"
  /\ UNCHANGED <<main, render, signals, fits, interrupt, finished, actctx, ring, reader,
                 display, overrun>>

(* HandleReport fills the slot, then moves the sequence number on.  Neither *)
(* looks at how far the reader has come.                                   *)
FillSlot ==
  /\ worker = "enqueue"
  /\ reports' = [reports EXCEPT ![Slot(seqno_write)] = num]
  /\ overrun' = (overrun \/ seqno_write - Len(rendered) >= Slots)
  /\ worker' = "finalize"
  /\ UNCHANGED <<main, render, signals, fits, procedure, seqno_write, reader, display,
                 handed, late>>

FinalizeSlot ==
  /\ worker = "finalize"
  /\ seqno_write' = seqno_write + 1
  /\ worker' = IF perform_ret = 0 THEN "loop" ELSE "stop"
  /\ UNCHANGED <<main, render, signals, fits, procedure, reports, reader, display, history>>

(* Perform has returned non-zero.                                          *)
WorkerGivesUp ==
  /\ worker = "stop"
  /\ finished' = TRUE /\ worker' = "done"
  /\ UNCHANGED <<main, render, signals, fits, interrupt, num, perform_ret, actctx, ring,
                 reader, display, history>>

-----------------------------------------------------------------------------
(* The render thread                                                       *)

(* The head of its loop, with the first half of render_sigwinch_caught:    *)
(* the flag is read ...                                                    *)
ReadFlag ==
  /\ render = "check" /\ ~order_hangup
  /\ caught' = sigwinch_flag /\ checked' = TRUE
  /\ render' = "clear"
  /\ UNCHANGED <<main, worker, signals, fits, procedure, ring, reader, order_hangup,
                 layout_ok, history>>

(* ... and cleared.                                                        *)
ClearFlag ==
  /\ render = "clear"
  /\ sigwinch_flag' = FALSE
  /\ render' = IF caught THEN "resize" ELSE "queue"
  /\ UNCHANGED <<main, worker, handlers, winch_handler, termination_signal_caught, fits,
                 procedure, ring, reader, display, history>>

(* The size of the terminal decides whether drawing goes on.               *)
AskSize ==
  /\ render = "resize"
  /\ layout_ok' = fits /\ render' = "queue"
  /\ UNCHANGED <<main, worker, signals, fits, procedure, ring, reader, order_hangup,
                 caught, checked, history>>

\* Mutant of QueueLength: off by one.
QueueLengthPlusOne == seqno_write - seqno_read + 1
QueueLength == seqno_write - seqno_read

(* render_queued: the length of the queue is taken once.                   *)
TakeLength ==
  /\ render \in {"queue", "last"}
  /\ queue_length' = QueueLength
  /\ render' = IF render = "queue" THEN "drain" ELSE "drain_last"
  /\ UNCHANGED <<main, worker, signals, fits, procedure, ring, seqno_read, rendered,
                 display, history>>

(* blk_rep_read moves the sequence number on and gives out the slot, which *)
(* is looked at only then.                                                 *)
TakeNext ==
  /\ render \in {"drain", "drain_last"} /\ queue_length # 0
  /\ seqno_read' = seqno_read + 1
  /\ render' = IF render = "drain" THEN "show" ELSE "show_last"
  /\ UNCHANGED <<main, worker, signals, fits, procedure, ring, queue_length, rendered,
                 display, history>>

RenderTaken ==
  /\ render \in {"show", "show_last"}
  /\ rendered' = Append(rendered, reports[Slot(seqno_read - 1)])
  /\ queue_length' = queue_length - 1
  /\ render' = IF render = "show" THEN "drain" ELSE "drain_last"
  /\ UNCHANGED <<main, worker, signals, fits, procedure, ring, seqno_read, display,
                 history>>

RenderedAll ==
  /\ render \in {"drain", "drain_last"} /\ queue_length = 0
  /\ render' = IF render = "drain" THEN "check" ELSE "done"
  /\ UNCHANGED <<main, worker, signals, fits, procedure, ring, reader, display, history>>

\* Mutants of AfterHangup: what is queued at the end is not rendered; the
\* thread goes on.
AfterHangupNothing == "done"
AfterHangupAgain == "check"
AfterHangup == "last"

RenderHangsUp ==
  /\ render = "check" /\ order_hangup
  /\ render' = AfterHangup
  /\ UNCHANGED <<main, worker, signals, fits, procedure, ring, reader, display, history>>

-----------------------------------------------------------------------------
(* Signals                                                                 *)

(* The first termination signal of a session sets the flag and puts the    *)
(* default actions back.                                                   *)
TerminationSignal ==
  /\ handlers
  /\ termination_signal_caught' = TRUE /\ handlers' = FALSE
  /\ UNCHANGED <<threads, winch_handler, sigwinch_flag, fits, procedure, ring, reader,
                 display, history>>

(* One without a handler ends the process; the user starts the program     *)
(* again.                                                                  *)
Killed ==
  /\ ~handlers
  /\ main' = "menu" /\ worker' = "none" /\ render' = "none"
  /\ winch_handler' = FALSE
  /\ termination_signal_caught' = FALSE /\ sigwinch_flag' = FALSE
  /\ actctx' = FALSE
  /\ FreshContexts
  /\ UNCHANGED <<handlers, fits>>

Resize ==
  /\ main \in ResizeAt \cup {"menu"}
  /\ fits' = ~fits
  /\ sigwinch_flag' = (sigwinch_flag \/ winch_handler)
  /\ checked' = FALSE
  /\ UNCHANGED <<threads, handlers, winch_handler, termination_signal_caught, procedure,
                 ring, reader, order_hangup, caught, layout_ok, history>>

-----------------------------------------------------------------------------
MainStep ==
  InstallHandlers \/ PollInterrupted \/ PollFinished \/ UnsetHandlers
  \/ CloseProcedure \/ HangUp \/ JoinRender
WorkerStep ==
  WorkerStops \/ WorkerGoesOn \/ WorkerPerforms \/ FillSlot \/ FinalizeSlot \/ WorkerGivesUp
RenderStep ==
  ReadFlag \/ ClearFlag \/ AskSize \/ TakeLength \/ TakeNext \/ RenderTaken \/ RenderedAll
  \/ RenderHangsUp
User == OpenRenderer \/ OpenRendererFails \/ BackToMenu
Next == MainStep \/ WorkerStep \/ RenderStep \/ User
        \/ TerminationSignal \/ Killed \/ Resize

Spec == Init /\ [][Next]_vars

(* Every thread is scheduled.  The user owes the program nothing but to    *)
(* put away the messages of the log, which are dialogs here (log_cb): the  *)
(* worker waits for that in Perform.                                       *)
FairSpec ==
  Spec /\ WF_vars(MainStep) /\ WF_vars(WorkerStep) /\ WF_vars(RenderStep)
=============================================================================
