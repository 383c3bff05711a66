---------------------------------- MODULE Gui ----------------------------------
(***************************************************************************)
(* The operator console of the hosted build, Kernel/gui/gui_main.c: the    *)
(* window's thread, the worker that runs requests on the simulated kernel, *)
(* and the reader that turns what the kernel prints into log lines.        *)
(*                                                                         *)
(* A request is known by its number.  The kernel is two parts, which a     *)
(* request changes one after the other and draw_panel reads in the same    *)
(* order, without a lock.  A request prints a text, its characters being   *)
(* its number.  The text-mode pipe carries CR LF for a newline.  Windows   *)
(* is external: its message queue holds QUEUE messages and PostMessage     *)
(* fails beyond, a window is painted when no message waits, and the end of *)
(* WinMain ends the three threads.                                         *)
(***************************************************************************)
EXTENDS Integers, Sequences, SequencesExt

CONSTANTS MaxRequests,  \* bound on requests, the RESET of WinMain included
          Outputs,      \* what a request prints: 1 for its character, 0 for a newline
          PIPE,         \* characters the pipe holds
          BUF,          \* sizeof(buf) - 1 of the reader
          QUEUE

ASSUME GuiAssumption ==
    {MaxRequests, PIPE, BUF, QUEUE} \subseteq Nat \ {0} /\ \A o \in Outputs : o \in Seq({0, 1})

VARIABLES upc,       \* the window's thread: "start", "loop", "paint", "gone"
          g_pending, posted,    \* the request waiting, 0 for none; the last one posted
          wpc, req, prints,     \* the worker, its request and what that still prints
          ran,       \* the last request that was begun
          kern,      \* the kernel's two parts: the last request each has seen
          pipe, said,           \* characters in the pipe, and all ever written to it
          unposted,  \* what the reader has read and not yet posted
          queue,     \* messages: a refresh is <<>>, a log line its text
          dropped,   \* a message did not fit
          log, dirty, panel     \* the window: log text, is the panel invalid, what it shows

guiVars == <<upc, g_pending, posted, wpc, req, prints, ran, kern, pipe, said, unposted,
             queue, dropped, log, dirty, panel>>
\* What the worker and the reader keep.
threadVars == <<wpc, req, prints, ran, kern, pipe, said, unposted>>

LF == 0
CR == -1
Refresh == <<>>
Crlf(s) == FlattenSeq([i \in DOMAIN s |-> IF s[i] = LF THEN <<CR, LF>> ELSE <<s[i]>>])

GuiInit ==
    /\ upc = "start" /\ g_pending = 0 /\ posted = 0
    /\ wpc = "check" /\ req = 0 /\ prints = <<>> /\ ran = 0 /\ kern = <<0, 0>>
    /\ pipe = <<>> /\ said = <<>> /\ unposted = <<>>
    /\ queue = <<>> /\ dropped = FALSE /\ log = <<>> /\ dirty = FALSE /\ panel = <<0, 0>>

PostMessage(m) ==
    IF Len(queue) < QUEUE THEN queue' = Append(queue, m) /\ UNCHANGED dropped
    ELSE dropped' = TRUE /\ UNCHANGED queue

-------------------------------------------------------------------------------
(* The window's thread.                                                    *)

\* Mutant: nobody is woken.
PostWakesNobody(k) ==
    g_pending' = k /\ posted' = k /\ UNCHANGED wpc
\* post_request: whatever was waiting is replaced, and a sleeping worker is woken.
post_request(k) ==
    g_pending' = k /\ posted' = k /\ wpc' = IF wpc = "asleep" THEN "check" ELSE wpc

\* The end of WinMain's set-up: a RESET is posted and the panel is to be drawn.
WinMain ==
    /\ upc = "start" /\ upc' = "loop" /\ post_request(1) /\ dirty' = TRUE
    /\ UNCHANGED <<req, prints, ran, kern, pipe, said, unposted, queue, dropped, log, panel>>

\* WM_COMMAND of a button.
Command ==
    /\ upc = "loop" /\ posted < MaxRequests /\ post_request(posted + 1)
    /\ UNCHANGED <<upc, req, prints, ran, kern, pipe, said, unposted, queue, dropped, log, dirty, panel>>

\* WM_APP_LOGLINE and WM_APP_REFRESH.
append_log_line ==
    /\ upc = "loop" /\ queue # <<>> /\ queue' = Tail(queue)
    /\ IF Head(queue) = Refresh THEN dirty' = TRUE /\ UNCHANGED log
       ELSE log' = log \o Head(queue) /\ UNCHANGED dirty
    /\ UNCHANGED <<upc, g_pending, posted, threadVars, dropped, panel>>

\* draw_panel: BeginPaint makes the panel valid; the kernel is read part by part.
PaintBegins ==
    /\ upc = "loop" /\ queue = <<>> /\ dirty
    /\ upc' = "paint" /\ dirty' = FALSE /\ panel' = [panel EXCEPT ![1] = kern[1]]
    /\ UNCHANGED <<g_pending, posted, threadVars, queue, dropped, log>>
PaintEnds ==
    /\ upc = "paint" /\ upc' = "loop" /\ panel' = [panel EXCEPT ![2] = kern[2]]
    /\ UNCHANGED <<g_pending, posted, threadVars, queue, dropped, log, dirty>>

\* WM_DESTROY: once no message waits the loop of WinMain ends, and the process with it.
Destroy ==
    /\ upc = "loop" /\ queue = <<>> /\ upc' = "gone"
    /\ UNCHANGED <<g_pending, posted, threadVars, queue, dropped, log, dirty, panel>>

Window == WinMain \/ append_log_line \/ PaintBegins \/ PaintEnds

-------------------------------------------------------------------------------
(* The worker.                                                             *)

WorkerRest == <<upc, posted, pipe, said, unposted, log, dirty, panel>>

Take(text) ==
    /\ wpc' = "run" /\ req' = g_pending /\ ran' = g_pending /\ prints' = Crlf(text)
    /\ g_pending' = 0 /\ UNCHANGED kern

\* The critical section of worker_thread: it takes the request or goes to sleep.
worker_thread ==
    /\ upc # "gone" /\ wpc = "check"
    /\ IF g_pending = 0 THEN wpc' = "asleep" /\ UNCHANGED <<g_pending, req, prints, ran, kern>>
       ELSE \E text \in Outputs : Take(text)
    /\ UNCHANGED <<queue, dropped>> /\ UNCHANGED WorkerRest
\* Condition variables wake without reason.
WakesUp ==
    /\ upc # "gone" /\ wpc = "asleep" /\ wpc' = "check"
    /\ UNCHANGED <<g_pending, req, prints, ran, kern, queue, dropped>> /\ UNCHANGED WorkerRest

\* exec_request: the kernel prints, waiting while the pipe is full, and changes.
exec_request ==
    /\ upc # "gone" /\ wpc = "run"
    /\ IF prints # <<>>
       THEN /\ Len(pipe) < PIPE
            /\ pipe' = Append(pipe, Head(prints)) /\ said' = Append(said, Head(prints))
            /\ prints' = Tail(prints) /\ UNCHANGED <<wpc, kern>>
       ELSE /\ IF kern[1] # req THEN kern' = [kern EXCEPT ![1] = req] /\ UNCHANGED wpc
               ELSE kern' = [kern EXCEPT ![2] = req] /\ wpc' = "post"
            /\ UNCHANGED <<pipe, said, prints>>
    /\ UNCHANGED <<upc, g_pending, posted, req, ran, unposted, queue, dropped, log, dirty, panel>>
PostRefresh ==
    /\ upc # "gone" /\ wpc = "post" /\ wpc' = "check" /\ PostMessage(Refresh)
    /\ UNCHANGED <<g_pending, req, prints, ran, kern>> /\ UNCHANGED WorkerRest

Worker == worker_thread \/ exec_request \/ PostRefresh

-------------------------------------------------------------------------------
(* The reader.                                                             *)

ReaderRest == <<upc, g_pending, posted, wpc, req, prints, ran, kern, said, log, dirty, panel>>

\* PeekNamedPipe and ReadFile: what is there, as far as the buffer goes.
reader_thread ==
    /\ upc # "gone" /\ unposted = <<>> /\ pipe # <<>>
    /\ LET n == IF Len(pipe) < BUF THEN Len(pipe) ELSE BUF
       IN  unposted' = SubSeq(pipe, 1, n) /\ pipe' = SubSeq(pipe, n + 1, Len(pipe))
    /\ UNCHANGED <<queue, dropped>> /\ UNCHANGED ReaderRest

StripCr(s) == SubSeq(s, 1, Len(s) - (IF s # <<>> /\ Last(s) = CR THEN 1 ELSE 0))
FirstNl == SelectInSeq(unposted, LAMBDA c : c = LF)
\* Mutant: what stands after the last newline is left out.
PostWholeLines ==
    /\ upc # "gone" /\ unposted # <<>>
    /\ IF FirstNl > 0 THEN /\ PostMessage(Append(StripCr(SubSeq(unposted, 1, FirstNl - 1)), LF))
                           /\ unposted' = SubSeq(unposted, FirstNl + 1, Len(unposted))
       ELSE unposted' = <<>> /\ UNCHANGED <<queue, dropped>>
    /\ UNCHANGED pipe /\ UNCHANGED ReaderRest
\* One round of the loop over the lines, or the piece after the last newline.
PostLine ==
    /\ upc # "gone" /\ unposted # <<>>
    /\ IF FirstNl > 0 THEN /\ PostMessage(Append(StripCr(SubSeq(unposted, 1, FirstNl - 1)), LF))
                           /\ unposted' = SubSeq(unposted, FirstNl + 1, Len(unposted))
       ELSE PostMessage(Append(unposted, LF)) /\ unposted' = <<>>
    /\ UNCHANGED pipe /\ UNCHANGED ReaderRest

Reader == reader_thread \/ PostLine

GuiNext ==
    \/ Window \/ Command \/ Destroy \/ Worker \/ WakesUp \/ Reader
    \/ upc = "gone" /\ UNCHANGED guiVars

GuiSpec == GuiInit /\ [][GuiNext]_guiVars

-------------------------------------------------------------------------------
(* Properties.                                                             *)

\* The worker sleeps only while nothing is waiting, and nobody reads or prints more
\* than there is room for.
GuiTypeOK ==
    /\ wpc \in {"check", "asleep", "run", "post"} /\ g_pending \in 0 .. posted
    /\ wpc = "asleep" => g_pending = 0
    /\ Len(pipe) <= PIPE /\ Len(unposted) <= BUF /\ Len(queue) <= QUEUE

TextShown(s) == SelectSeq(s, LAMBDA c : c > 0)

\* Whatever the kernel prints reaches the log, once and in order, however it is cut
\* into pieces on the way, unless the message queue overflows.
LogKeepsText ==
    ~dropped => TextShown(said) = TextShown(log \o FlattenSeq(queue) \o unposted \o pipe)

\* A request runs at most once, and after those posted before it.
RunsInOrder == [][wpc = "check" /\ wpc' = "run" => ran' > ran]_guiVars

\* A button pressed has its effect: its request, or one posted after it, is run.
RequestRuns == \A k \in 1 .. MaxRequests : posted = k ~> (ran >= k \/ upc = "gone")

\* The panel may show a kernel half changed, but not for long: once requests stop it
\* shows the kernel as it is.
PanelSettles == (kern # panel) ~> (kern = panel \/ dropped \/ upc = "gone")

\* Nobody sleeps on a request, and the log is what the kernel has printed.
GuiSafe == GuiTypeOK /\ LogKeepsText
===============================================================================
