------------------------------- MODULE GuiProofs -------------------------------
(***************************************************************************)
(* Proofs about the requests of Gui for any number of requests, any output *)
(* and any size of pipe, buffer and message queue.                         *)
(***************************************************************************)
EXTENDS Gui, TLAPS

\* The request waiting is newer than the last one that was begun, and the worker does
\* not sleep on it.
RequestInv ==
    /\ posted \in Nat /\ ran \in 0 .. posted
    /\ g_pending = 0 \/ g_pending \in ran + 1 .. posted
    /\ upc = "start" => posted = 0
    /\ wpc = "asleep" => g_pending = 0

LEMMA RequestInitInv == GuiInit => RequestInv
BY DEF GuiInit, RequestInv

\* The steps that leave the request and the worker's place alone.
LEMMA RequestKept ==
    ASSUME RequestInv, UNCHANGED <<g_pending, posted, ran>>,
           upc' = "start" => upc = "start", wpc' = "asleep" => wpc = "asleep"
    PROVE  RequestInv'
BY DEF RequestInv

LEMMA RequestStep ==
    ASSUME RequestInv, [GuiNext]_guiVars PROVE RequestInv'
<1>1. CASE UNCHANGED guiVars
  BY <1>1, RequestKept DEF guiVars
<1>2. CASE WinMain
  BY <1>2 DEF WinMain, post_request, RequestInv
<1>3. CASE Command
  BY <1>3 DEF Command, post_request, RequestInv
<1>4. CASE append_log_line
  BY <1>4, RequestKept DEF append_log_line, threadVars
<1>5. CASE PaintBegins \/ PaintEnds \/ Destroy
  BY <1>5, RequestKept DEF PaintBegins, PaintEnds, Destroy, threadVars
<1>6. CASE worker_thread
  <2>1. CASE g_pending = 0
    BY <1>6, <2>1 DEF worker_thread, WorkerRest, RequestInv
  <2>2. CASE g_pending # 0
    BY <1>6, <2>2 DEF worker_thread, Take, WorkerRest, RequestInv
  <2> QED BY <2>1, <2>2
<1>7. CASE exec_request
  BY <1>7, RequestKept DEF exec_request
<1>8. CASE PostRefresh \/ WakesUp
  BY <1>8, RequestKept DEF PostRefresh, WakesUp, WorkerRest
<1>9. CASE Reader
  BY <1>9, RequestKept DEF Reader, reader_thread, PostLine, ReaderRest
<1> QED BY <1>1, <1>2, <1>3, <1>4, <1>5, <1>6, <1>7, <1>8, <1>9
        DEF GuiNext, Window, Worker

\* No wake-up is lost between post_request and worker_thread: the worker never sleeps
\* while a request is waiting.
THEOREM NoLostWakeup == GuiSpec => [](wpc = "asleep" => g_pending = 0)
<1>1. RequestInv /\ [GuiNext]_guiVars => RequestInv'
  BY RequestStep
<1>2. RequestInv => (wpc = "asleep" => g_pending = 0)
  BY DEF RequestInv
<1> QED BY RequestInitInv, <1>1, <1>2, PTL DEF GuiSpec

\* worker_thread begins no request twice, and none after one that was posted later.
THEOREM RequestsRunInOrder == GuiSpec => RunsInOrder
<1>1. RequestInv /\ [GuiNext]_guiVars => RequestInv'
  BY RequestStep
<1>2. RequestInv /\ [GuiNext]_guiVars
      => [wpc = "check" /\ wpc' = "run" => ran' > ran]_guiVars
  <2> SUFFICES ASSUME RequestInv, GuiNext, wpc = "check", wpc' = "run"
               PROVE  ran' > ran
    OBVIOUS
  <2>1. worker_thread
    BY DEF GuiNext, Window, Worker, Reader, WinMain, Command, post_request, append_log_line,
           PaintBegins, PaintEnds, Destroy, threadVars, exec_request, PostRefresh, WakesUp,
           reader_thread, PostLine, ReaderRest, guiVars
  <2>2. g_pending # 0 /\ ran' = g_pending
    BY <2>1 DEF worker_thread, Take
  <2> QED BY <2>2 DEF RequestInv
<1> QED BY RequestInitInv, <1>1, <1>2, PTL DEF GuiSpec, RunsInOrder
===============================================================================
