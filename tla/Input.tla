-------------------------------- MODULE Input --------------------------------
(***************************************************************************)
(* Who gets a key.  keyboard_irq (Kernel/drivers/keyboard.c) sends a key   *)
(* either to the window manager's queue or to the character buffer, by the *)
(* flag g_tui_mode; the flag is set by cmd_run (Kernel/tui/shell.c) around *)
(* a program, and by sys_read (Kernel/arch/syscall.c) around a line read   *)
(* from the console.  The shell, the window manager and the program are    *)
(* one thread; the keyboard interrupts it anywhere.                        *)
(*                                                                         *)
(* Both queues are the rings of EventRing, here sequences that drop what   *)
(* does not fit.  Shift and Alt only change which character or chord a key *)
(* is and are left out; Ctrl is kept because it can turn a letter into     *)
(* Enter.                                                                  *)
(***************************************************************************)
EXTENDS Integers, Sequences, SequencesExt

CONSTANTS KeyBuf,     \* KEYBUF_SIZE - 1
          KeyQueue,   \* KEY_QUEUE_SIZE - 1
          LineMax,    \* SYSCALL_READLINE_MAX
          Counts      \* buffer sizes a program passes to sys_read

ASSUME InputAssumption ==
    /\ KeyBuf \in Nat \ {0} /\ KeyQueue \in Nat \ {0} /\ LineMax \in Nat \ {0}
    /\ Counts \subseteq Nat \ {0}

VARIABLES g_tui_mode, g_ctrl,
          keybuf,       \* the characters in g_keybuf
          keys,         \* the events in g_key_queue
          pc,           \* "tui": tui_run; "prog": in ring 3; "read": in sys_read
          line, limit   \* the locals of sys_read and keyboard_readline_vga

vars == <<g_tui_mode, g_ctrl, keybuf, keys, pc, line, limit>>

\* Keys with a make code: two letters, and the keys readline tells apart; F2 is
\* any key without a character.
Key == {"a", "m", "enter", "esc", "tab", "backsp", "F2"}

Init ==
    /\ g_tui_mode = 1 /\ g_ctrl = 0
    /\ keybuf = <<>> /\ keys = <<>>
    /\ pc = "tui"
    /\ line = <<>> /\ limit = 0

------------------------------------------------------------------------------
(* The keyboard interrupt.                                                 *)

\* Mutant: the row of Enter is missing from the table.
AsciiWithoutEnter(k) ==
    CASE k \in {"F2", "enter"} -> "nul"
      [] k = "m" /\ g_ctrl = 1 -> "enter"
      [] k = "a" /\ g_ctrl = 1 -> "^a"
      [] OTHER -> k
\* scancode_ascii and the Ctrl mapping: Ctrl-M is 13, which is KEY_ENTER; any
\* other control character is an ordinary character to readline.
ascii(k) ==
    CASE k = "F2" -> "nul"
      [] k = "m" /\ g_ctrl = 1 -> "enter"
      [] k = "a" /\ g_ctrl = 1 -> "^a"
      [] OTHER -> k

buf_put(c) == keybuf' = IF Len(keybuf) < KeyBuf THEN Append(keybuf, c) ELSE keybuf
tui_wm_post_key(c) == keys' = IF Len(keys) < KeyQueue THEN Append(keys, c) ELSE keys

\* The Ctrl key goes down or up.
CtrlKey ==
    /\ g_ctrl' = 1 - g_ctrl
    /\ UNCHANGED <<g_tui_mode, keybuf, keys, pc, line, limit>>

\* Any other key goes down.
keyboard_irq(k) ==
    /\ IF g_tui_mode = 1
       THEN tui_wm_post_key(ascii(k)) /\ UNCHANGED keybuf
       ELSE /\ IF ascii(k) \notin {"nul", "backsp"} THEN buf_put(ascii(k))
               ELSE UNCHANGED keybuf
            /\ UNCHANGED keys
    /\ UNCHANGED <<g_tui_mode, g_ctrl, pc, line, limit>>

------------------------------------------------------------------------------
(* The thread.                                                             *)

\* tui_run handles a key that starts no program.
TuiKey ==
    /\ pc = "tui" /\ keys # <<>>
    /\ keys' = Tail(keys)
    /\ UNCHANGED <<g_tui_mode, g_ctrl, keybuf, pc, line, limit>>

\* Enter ends a command line that runs a program.
cmd_run ==
    /\ pc = "tui" /\ keys # <<>> /\ Head(keys) = "enter"
    /\ keys' = Tail(keys)
    /\ g_tui_mode' = 0
    /\ pc' = "prog"
    /\ UNCHANGED <<g_ctrl, keybuf, line, limit>>

\* The program exits, or never started: cmd_run goes on.
CmdRunReturns ==
    /\ pc = "prog"
    /\ g_tui_mode' = 1
    /\ pc' = "tui"
    /\ UNCHANGED <<g_ctrl, keybuf, keys, line, limit>>

\* Mutant: the flag is left alone.
ReadWithoutMode(count) ==
    /\ pc = "prog"
    /\ pc' = "read" /\ line' = <<>>
    /\ limit' = IF count < LineMax THEN count ELSE LineMax
    /\ UNCHANGED <<g_tui_mode, g_ctrl, keybuf, keys>>

\* The program asks for a line.
sys_read(count) ==
    /\ pc = "prog"
    /\ g_tui_mode' = 0
    /\ pc' = "read" /\ line' = <<>>
    /\ limit' = IF count < LineMax THEN count ELSE LineMax
    /\ UNCHANGED <<g_ctrl, keybuf, keys>>

ReadReturns ==
    /\ g_tui_mode' = 1
    /\ pc' = "prog" /\ line' = <<>> /\ limit' = 0

Insert(c) ==
    line' = IF Len(line) < limit - 1 THEN Append(line, c) ELSE line

\* keyboard_readline_vga takes one character from the buffer.
keyboard_readline_vga ==
    /\ pc = "read" /\ keybuf # <<>>
    /\ keybuf' = Tail(keybuf)
    /\ LET c == Head(keybuf)
       IN  IF c \in {"enter", "esc"} THEN ReadReturns
           ELSE /\ IF c = "backsp"
                   THEN line' = IF line = <<>> THEN line ELSE Front(line)
                   ELSE IF c = "tab" THEN UNCHANGED line
                   ELSE Insert(c)
                /\ UNCHANGED <<g_tui_mode, pc, limit>>
    /\ UNCHANGED <<g_ctrl, keys>>

Thread ==
    TuiKey \/ cmd_run \/ CmdRunReturns \/ keyboard_readline_vga
    \/ \E n \in Counts : sys_read(n)

Next == CtrlKey \/ (\E k \in Key : keyboard_irq(k)) \/ Thread

\* The CPU always comes back to the thread.  The user of a program that waits for
\* a line presses Enter again and again, and since the thread empties the buffer
\* faster than anyone types, some of these find room in it: strong fairness.
Fairness == WF_vars(Thread) /\ SF_vars(keyboard_irq("enter"))

Spec == Init /\ [][Next]_vars
FairSpec == Spec /\ Fairness

------------------------------------------------------------------------------
(* Properties.                                                             *)

Char == (Key \ {"F2"}) \cup {"^a"}

\* The buffers hold what fits, and a line always leaves room for its NUL in the
\* buffer the program passed to sys_read.
TypeOK ==
    /\ g_tui_mode \in {0, 1} /\ g_ctrl \in {0, 1}
    /\ keybuf \in Seq(Char \ {"backsp"}) /\ Len(keybuf) <= KeyBuf
    /\ keys \in Seq(Char \cup {"nul"}) /\ Len(keys) <= KeyQueue
    /\ pc \in {"tui", "prog", "read"}
    /\ line \in Seq(Char) /\ (pc = "read" => Len(line) + 1 <= limit)

\* Whoever waits for keys gets them: the event loop is only ever entered with the
\* keyboard routed to the window manager, and a line is only ever read with the
\* keyboard routed to the character buffer, after any sequence of programs and
\* reads (the flag is set on four paths and never saved or restored).
WaiterIsServed ==
    (pc = "tui" => g_tui_mode = 1) /\ (pc = "read" => g_tui_mode = 0)

\* cmd_run's comment: the window manager's keyboard hook is parked while the
\* program runs, so no key pressed meanwhile reaches a window.
HookParked == pc = "prog" => g_tui_mode = 0

\* Lines and queues fit, and whoever waits for keys gets them.
InputSafe == TypeOK /\ WaiterIsServed
==============================================================================
