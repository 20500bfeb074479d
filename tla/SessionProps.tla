---------------------------- MODULE SessionProps ----------------------------
(***************************************************************************)
(* What is claimed of a session and its three threads.                     *)
(***************************************************************************)
EXTENDS Session

BlockNumbers == 0 .. NumBlocks

ControlTypes ==
  /\ main \in {"menu", "install", "poll", "unset", "join", "hangup", "verdict"}
  /\ worker \in {"none", "loop", "perform", "enqueue", "finalize", "stop", "done"}
  /\ render \in {"none", "check", "clear", "resize", "queue", "drain",
                 "show", "last", "drain_last", "show_last", "done"}
  /\ handlers \in BOOLEAN /\ winch_handler \in BOOLEAN
  /\ termination_signal_caught \in BOOLEAN /\ sigwinch_flag \in BOOLEAN
  /\ fits \in BOOLEAN /\ interrupt \in BOOLEAN /\ finished \in BOOLEAN
  /\ perform_ret \in {0, 1} /\ actctx \in BOOLEAN
  /\ order_hangup \in BOOLEAN /\ caught \in BOOLEAN /\ layout_ok \in BOOLEAN
  /\ checked \in BOOLEAN

RingTypes ==
  /\ num \in BlockNumbers
  /\ reports \in [0 .. Slots - 1 -> BlockNumbers]
  /\ seqno_write \in BlockNumbers /\ seqno_read \in BlockNumbers
  /\ queue_length \in BlockNumbers
  /\ handed \in Seq(BlockNumbers) /\ rendered \in Seq(BlockNumbers)
  /\ overrun \in BOOLEAN /\ late \in Nat

(* Every variable has the values its C type and the code give it.          *)
TypeOK == ControlTypes /\ RingTypes

-----------------------------------------------------------------------------
(* The queue of reports.                                                   *)

(* As long as the worker does not come round the ring, the reports         *)
(* rendered are a beginning of the reports handed over: none skipped, none *)
(* twice, none before its slot was filled.                                 *)
RenderedInOrder == ~overrun => IsPrefix(rendered, handed)

(* When the session shows its verdict, all that was handed over has been   *)
(* rendered: "if interrupted or completed, render remainings and end       *)
(* render thread" (sliding_window_renderer.c:45).  If the ring was overrun *)
(* the number of reports still agrees, though some were counted twice and  *)
(* others not at all.                                                      *)
NothingLeftUnrendered ==
  main = "verdict" =>
    /\ Len(rendered) = Len(handed)
    /\ ~overrun => rendered = handed

-----------------------------------------------------------------------------
(* Threads.                                                                *)

(* The worker is gone before the context it works on is freed, and before  *)
(* the render thread is told that no more reports will come.               *)
WorkerGoneBeforeFree ==
  worker \notin {"none", "done"} => actctx /\ ~order_hangup

(* "if set to 1 by frontend, then looped processing must stop"             *)
(* (procedure.h:86): at most the block already begun is still performed.   *)
StopsAfterInterrupt == late <= 1

(* Every session comes to its verdict (or the process is killed): no       *)
(* thread waits for one that waits for it, with a signal at any moment.    *)
SessionCloses == (main \in {"install", "poll", "hangup"}) ~> (main \in {"verdict", "menu"})

-----------------------------------------------------------------------------
(* The inductive invariant behind these.                                   *)

Working == worker \notin {"none", "done"}

(* Who is alive: the worker lives from the installation of the handlers    *)
(* until the context is closed, the render thread from the opening of the  *)
(* renderer on, and it takes the last length only after the worker is gone *)
(* and the hangup has been ordered.                                        *)
ThreadsInv ==
  /\ main \in {"menu", "install"} <=> worker = "none"
  /\ main = "menu" <=> render = "none"
  /\ main \in {"install", "poll", "unset", "join"} => actctx /\ ~order_hangup
  /\ main \in {"menu", "hangup", "verdict"} => ~Working
  /\ render \in {"last", "drain_last", "show_last", "done"} => order_hangup
  /\ order_hangup => worker = "done"
  /\ main = "verdict" => render = "done"
  /\ main \in {"menu", "install"} => ~interrupt

(* The worker has handed over the blocks up to num, in order; its sequence *)
(* number counts those whose slot is filled.                               *)
Unfilled == IF worker \in {"enqueue", "finalize"} THEN 1 ELSE 0
HandedInv ==
  /\ num = Len(handed) /\ num <= NumBlocks
  /\ \A i \in 1 .. num : handed[i] = i
  /\ num >= Unfilled /\ seqno_write = num - Unfilled
  /\ worker = "finalize" => reports[Slot(seqno_write)] = num
  /\ worker = "perform" => num < NumBlocks
  /\ worker = "perform" \/ ~interrupt => late = 0
  /\ late <= 1

(* The reader's number counts the reports rendered and the one it has just *)
(* taken.  Without an overrun the slots from the first report not rendered *)
(* to the writer's hold the reports of the blocks after those rendered.    *)
Taken == IF render \in {"show", "show_last"} THEN 1 ELSE 0
QueueInv ==
  /\ seqno_read = Len(rendered) + Taken
  /\ queue_length >= Taken
  /\ Len(rendered) + queue_length <= seqno_write
  /\ render \in {"drain_last", "show_last"} => Len(rendered) + queue_length = seqno_write
  /\ render = "done" => Len(rendered) = seqno_write
  /\ ~overrun =>
       /\ \A q \in Len(rendered) .. seqno_write - 1 : reports[Slot(q)] = q + 1
       /\ \A i \in 1 .. Len(rendered) : rendered[i] = i

SessionInv == TypeOK /\ ThreadsInv /\ HandedInv /\ QueueInv

-----------------------------------------------------------------------------
(* "drawing simply pauses while the terminal is smaller than the layout    *)
(* and resumes automatically once it is large enough again" (README.md:24- *)
(* 26): once the render thread has polled after the last resize, it draws  *)
(* if and only if the layout fits.                                         *)
DrawsWhenItFits == (render = "queue" /\ checked) => layout_ok = fits
=============================================================================
