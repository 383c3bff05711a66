------------------------------ MODULE ShellWindow ------------------------------
(***************************************************************************)
(* The shell window: the line editor with its history ring                 *)
(* (Kernel/tui/widgets.c), and of Kernel/tui/shell.c the output buffer,    *)
(* the Enter key and the drawing of the window, with the copy of           *)
(* Kernel/tui/tui_wm.c that puts it on the screen.                         *)
(*                                                                         *)
(* A line is the sequence of its len characters, and a newline is NL.  A   *)
(* command is what it does to the output: it prints texts, or clears.  The *)
(* input row, SHELL_H - 2, is the editor's: it and the prompt are not      *)
(* drawn here.                                                             *)
(***************************************************************************)
EXTENDS Integers, Sequences, FiniteSets, SequencesExt, FiniteSetsExt

CONSTANTS Chars,        \* characters typed
          MAX_LINE,     \* TUI_READLINE_MAX_LINE
          MAX_HISTORY,  \* TUI_READLINE_MAX_HISTORY
          OUTPUT,       \* sizeof(g_shell_output)
          SLACK,        \* the 10 characters more that are shifted out
          SHELL_W, SHELL_H,  \* of the window
          Texts,        \* what commands print
          MaxKeys       \* bound on keys

ASSUME ShellAssumption ==
    /\ {MAX_LINE, MAX_HISTORY} \subseteq Nat \ {0} /\ {OUTPUT, SLACK, MaxKeys} \subseteq Nat
    /\ {SHELL_W, SHELL_H} \subseteq Nat /\ \A t \in Texts : Len(t) < OUTPUT - 1
    /\ MAX_LINE <= OUTPUT - 1

VARIABLES rl,       \* g_shell_readline
          output,   \* g_shell_output up to g_shell_output_len
          pressed,  \* keys so far
          entered,  \* the lines add_history was given, without repetitions
          draft,    \* what was being typed when the history was first asked for
          recalled, \* the last key was Up and has recalled a line
          printed,  \* everything printed since the window was cleared
          content,  \* the cells of the window's content surface
          drawn     \* has the window been drawn since the last key?

shellVars == <<rl, output, pressed, entered, draft, recalled, printed, content, drawn>>

NL == "newline"

HistorySlots == 0 .. MAX_HISTORY - 1
Room == MAX_LINE - 1
ShellCells == (0 .. SHELL_H - 1) \X (0 .. SHELL_W - 1)

ShellInit ==
    /\ rl = [line |-> <<>>, cursor |-> 0, hist |-> [i \in HistorySlots |-> <<>>],
             count |-> 0, head |-> 0, recall |-> 0, saved |-> <<>>]
    /\ output = <<>> /\ pressed = 0 /\ entered = <<>> /\ draft = <<>>
    /\ recalled = FALSE /\ printed = <<>>
    /\ content = [p \in ShellCells |-> " "] /\ drawn = TRUE

-------------------------------------------------------------------------------
(* The editor: tui_readline_key, on the editor's state r.                  *)

backspace(r) ==
    IF r.cursor = 0 THEN r
    ELSE [r EXCEPT !.line = RemoveAt(@, r.cursor), !.cursor = @ - 1]

insert(r, c) ==
    IF Len(r.line) >= Room THEN r
    ELSE [r EXCEPT !.line = InsertAt(@, r.cursor + 1, c), !.cursor = @ + 1]

Show(r, l) == [r EXCEPT !.line = l, !.cursor = Len(l)]
HistoryAt(r, k) == r.hist[(r.head + MAX_HISTORY - 1 - k) % MAX_HISTORY]

up(r) ==
    LET s == IF r.recall = 0 THEN [r EXCEPT !.saved = r.line] ELSE r
    IN  IF r.count = 0 \/ r.recall = r.count THEN r
        ELSE [Show(s, HistoryAt(s, s.recall)) EXCEPT !.recall = @ + 1]

down(r) ==
    LET s == [r EXCEPT !.recall = @ - 1]
    IN  IF r.recall = 0 THEN r
        ELSE IF s.recall = 0 THEN Show(s, s.saved) ELSE Show(s, HistoryAt(s, s.recall))

left(r) == [r EXCEPT !.cursor = IF @ > 0 THEN @ - 1 ELSE @]
right(r) == [r EXCEPT !.cursor = IF @ < Len(r.line) THEN @ + 1 ELSE @]
home(r) == [r EXCEPT !.cursor = 0]
end(r) == [r EXCEPT !.cursor = Len(r.line)]

tui_readline_clear(r) == [Show(r, <<>>) EXCEPT !.recall = 0]

Repeats(r, l) == r.count > 0 /\ HistoryAt(r, 0) = l

\* Mutant: the oldest entries stay when the ring is full.
AddHistoryUntilFull(r, l) ==
    IF l = <<>> \/ Repeats(r, l) \/ r.count = MAX_HISTORY THEN r
    ELSE [r EXCEPT !.hist[r.head] = l, !.head = (@ + 1) % MAX_HISTORY, !.count = @ + 1]
tui_readline_add_history(r, l) ==
    IF l = <<>> \/ Repeats(r, l) THEN r
    ELSE [r EXCEPT !.hist[r.head] = l, !.head = (@ + 1) % MAX_HISTORY,
                   !.count = IF @ < MAX_HISTORY THEN @ + 1 ELSE @]

-------------------------------------------------------------------------------
(* The output.                                                             *)

shell_append_output(o, t) ==
    LET shift == IF Len(t) + SLACK > Len(o) THEN Len(o) ELSE Len(t) + SLACK
    IN  (IF Len(o) + Len(t) >= OUTPUT - 1 THEN SubSeq(o, shift + 1, Len(o)) ELSE o) \o t

\* Where the loop of shell_draw is after the characters of o: row, column, and cells.
DrawChar(s, c) ==
    IF s.line >= SHELL_H - 2 THEN s
    ELSE IF c = NL THEN [s EXCEPT !.line = @ + 1, !.col = 0]
    ELSE IF s.col < SHELL_W - 2
    THEN [s EXCEPT !.cells[<<s.line, s.col>>] = c, !.col = @ + 1]
    ELSE s

shell_draw ==
    /\ ~drawn /\ drawn' = TRUE
    /\ content' = FoldLeft(DrawChar, [line |-> 0, col |-> 0, cells |-> content], output).cells
    /\ UNCHANGED <<rl, output, pressed, entered, draft, recalled, printed>>

\* The frame takes the first row and column: draw_window_border calls shell_draw and puts
\* on the screen, without a shift, the part of the content inside of the frame.
ShownCells == (1 .. SHELL_H - 2) \X (1 .. SHELL_W - 2)
ShownWindow == [p \in ShownCells |-> content[p]]

-------------------------------------------------------------------------------
Press == pressed < MaxKeys /\ pressed' = pressed + 1 /\ drawn' = FALSE /\ UNCHANGED content

\* A key that edits.
Edits(r) ==
    /\ Press /\ rl' = r /\ recalled' = FALSE
    /\ UNCHANGED <<output, entered, draft, printed>>

tui_readline_key ==
    \/ \E c \in Chars : Edits(insert(rl, c))
    \/ Edits(backspace(rl)) \/ Edits(home(rl)) \/ Edits(end(rl))
    \/ Edits(left(rl)) \/ Edits(right(rl)) \/ Edits(down(rl))

UpKey ==
    /\ Press /\ rl' = up(rl)
    /\ draft' = IF rl.recall = 0 /\ rl.count > 0 THEN rl.line ELSE draft
    /\ recalled' = (rl.recall < rl.count)
    /\ UNCHANGED <<output, entered, printed>>

\* cmd_clear, or a command that prints text: what vga_shell_run_tui does to output o.
vga_shell_run_tui(o, clears, text) == IF clears THEN <<>> ELSE shell_append_output(o, text)

\* Enter in shell_key: the line is echoed, the command run and the line emptied; an empty
\* line is no command.
shell_key(clears, text) ==
    LET l == rl.line
        echo == shell_append_output(shell_append_output(output, l), <<NL>>)
        run == l # <<>>
    IN  /\ Press
        /\ rl' = tui_readline_clear(tui_readline_add_history(rl, l))
        /\ output' = IF run THEN vga_shell_run_tui(echo, clears, text) ELSE echo
        /\ printed' = IF run /\ clears THEN <<>>
                      ELSE printed \o l \o <<NL>> \o (IF run THEN text ELSE <<>>)
        /\ entered' = IF l = <<>> \/ (entered # <<>> /\ Last(entered) = l) THEN entered
                      ELSE Append(entered, l)
        /\ recalled' = FALSE /\ UNCHANGED draft

ShellNext ==
    \/ tui_readline_key \/ UpKey \/ shell_draw
    \/ \E clears \in BOOLEAN, text \in Texts : shell_key(clears, text)
    \/ pressed = MaxKeys /\ UNCHANGED shellVars

-------------------------------------------------------------------------------
(* Properties.                                                             *)

\* The line and the output leave room for their NUL, and the cursor is on the line or
\* just behind it.
ShellTypeOK ==
    /\ Len(rl.line) <= Room /\ Len(rl.saved) <= Room /\ rl.cursor \in 0 .. Len(rl.line)
    /\ rl.recall \in 0 .. rl.count /\ rl.head \in HistorySlots
    /\ Len(output) < OUTPUT

Newest(k) == entered[Len(entered) - k]

\* The history is the last MAX_HISTORY lines entered, also after the ring has wrapped,
\* and Up shows them newest first, whatever was edited in between.
UpRecalls ==
    /\ rl.count = IF Len(entered) < MAX_HISTORY THEN Len(entered) ELSE MAX_HISTORY
    /\ \A k \in 0 .. rl.count - 1 : HistoryAt(rl, k) = Newest(k)
    /\ recalled => rl.line = Newest(rl.recall - 1)

\* Coming back from the history restores the line that was being typed.
DraftKept == rl.recall > 0 => rl.saved = draft

\* The buffer holds the end of what was printed since it was cleared, without a gap.
OutputIsTail == IsSuffix(output, printed)

\* The text of the r-th line of the buffer.
LineAt(r) ==
    LET ends == {i \in DOMAIN output : output[i] = NL} \cup {0, Len(output) + 1}
        from == {i \in ends : Cardinality({j \in ends : j < i}) = r}
        to == {i \in ends : Cardinality({j \in ends : j < i}) = r + 1}
    IN  IF to = {} THEN <<>> ELSE SubSeq(output, Max(from) + 1, Max(to) - 1)

\* The window shows each line of the buffer but the first in its row, as far as it is
\* wide and without its first character, and a long line runs into no other.  The first
\* line and all first characters are in the content only, under the frame that
\* draw_window_border has drawn; a place for which the buffer has no character keeps what
\* it showed.
ShownLines ==
    drawn =>
        \A r \in 1 .. SHELL_H - 3, c \in 1 .. SHELL_W - 3 :
            c < Len(LineAt(r)) => ShownWindow[<<r, c>>] = LineAt(r)[c + 1]

\* History, draft and output are what was entered and printed, and the window shows the
\* part of the output that is not under its frame.
ShellSafe == ShellTypeOK /\ UpRecalls /\ DraftKept /\ OutputIsTail /\ ShownLines
===============================================================================
