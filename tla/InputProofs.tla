----------------------------- MODULE InputProofs -----------------------------
(***************************************************************************)
(* Proofs about Input for every size of the buffers and of the line, and   *)
(* every size a program may ask for.                                       *)
(***************************************************************************)
EXTENDS Input, SequenceTheorems, TLAPS

InputInv ==
    /\ TypeOK /\ WaiterIsServed
    /\ limit \in Nat

LEMMA InputInitInv == Init => InputInv
BY InputAssumption DEF Init, InputInv, TypeOK, WaiterIsServed, Char, Key

\* What a key is to whoever gets it.
LEMMA AsciiType == ASSUME NEW k \in Key PROVE ascii(k) \in Char \cup {"nul"}
BY DEF ascii, Key, Char

\* Removing the first element and appending.
LEMMA SeqSteps ==
    ASSUME NEW S, NEW s \in Seq(S)
    PROVE  /\ s # <<>> => Tail(s) \in Seq(S) /\ Len(Tail(s)) = Len(s) - 1 /\ Head(s) \in S
           /\ \A c \in S : Append(s, c) \in Seq(S) /\ Len(Append(s, c)) = Len(s) + 1
<1>1. s # <<>> => Tail(s) \in Seq(S) /\ Len(Tail(s)) = Len(s) - 1 /\ Head(s) \in S
  BY HeadTailProperties
<1>2. ASSUME NEW c \in S
      PROVE  Append(s, c) \in Seq(S) /\ Len(Append(s, c)) = Len(s) + 1
  BY AppendProperties
<1> QED BY <1>1, <1>2

LEMMA KeyStep == ASSUME InputInv, NEW k \in Key, keyboard_irq(k) PROVE InputInv'
<1> USE InputAssumption DEF InputInv
<1>1. ascii(k) \in Char \cup {"nul"}
  BY AsciiType
<1>2. keys' \in Seq(Char \cup {"nul"}) /\ Len(keys') <= KeyQueue
  <2>1. CASE keys' = keys
    BY <2>1 DEF TypeOK
  <2>2. CASE keys' = Append(keys, ascii(k)) /\ Len(keys) < KeyQueue
    <3>1. Len(keys') = Len(keys) + 1 /\ keys' \in Seq(Char \cup {"nul"})
      BY <1>1, <2>2, SeqSteps DEF TypeOK
    <3> QED BY <2>2, <3>1 DEF TypeOK
  <2> QED BY <2>1, <2>2 DEF keyboard_irq, tui_wm_post_key
<1>3. keybuf' \in Seq(Char \ {"backsp"}) /\ Len(keybuf') <= KeyBuf
  <2>1. CASE keybuf' = keybuf
    BY <2>1 DEF TypeOK
  <2>2. CASE keybuf' = Append(keybuf, ascii(k)) /\ Len(keybuf) < KeyBuf /\ ascii(k) \notin {"nul", "backsp"}
    <3>1. Len(keybuf') = Len(keybuf) + 1 /\ keybuf' \in Seq(Char \ {"backsp"})
      BY <1>1, <2>2, SeqSteps DEF TypeOK
    <3> QED BY <2>2, <3>1 DEF TypeOK
  <2> QED BY <2>1, <2>2 DEF keyboard_irq, buf_put
<1> QED BY <1>2, <1>3 DEF keyboard_irq, TypeOK, WaiterIsServed

LEMMA ReadlineStep == ASSUME InputInv, keyboard_readline_vga PROVE InputInv'
<1> USE InputAssumption DEF InputInv
<1> DEFINE c == Head(keybuf)
<1>1. /\ c \in Char \ {"backsp"} /\ keybuf' = Tail(keybuf)
      /\ keybuf' \in Seq(Char \ {"backsp"}) /\ Len(keybuf') <= KeyBuf
  BY SeqSteps DEF keyboard_readline_vga, TypeOK
<1>2. CASE c \in {"enter", "esc"}
  BY <1>1, <1>2 DEF keyboard_readline_vga, ReadReturns, TypeOK, WaiterIsServed
<1>3. CASE c \notin {"enter", "esc"}
  <2>1. /\ pc = "read" /\ UNCHANGED <<g_tui_mode, pc, limit, g_ctrl, keys>>
    BY <1>3 DEF keyboard_readline_vga
  <2>2. \/ line' = line
        \/ line' = Append(line, c) /\ Len(line) < limit - 1
    <3>1. c # "backsp" /\ (IF c = "tab" THEN line' = line ELSE Insert(c))
      BY <1>1, <1>3 DEF keyboard_readline_vga
    <3> QED BY <3>1 DEF Insert
  <2>3. line \in Seq(Char) /\ Len(line) \in Nat /\ Len(line) + 1 <= limit
    BY <2>1 DEF TypeOK
  <2>4. line' \in Seq(Char) /\ Len(line') + 1 <= limit
    <3>1. Append(line, c) \in Seq(Char) /\ Len(Append(line, c)) = Len(line) + 1
      BY <1>1, <2>3, SeqSteps
    <3> HIDE DEF c
    <3> QED BY <2>2, <2>3, <3>1
  <2> QED BY <1>1, <2>1, <2>4 DEF TypeOK, WaiterIsServed
<1> QED BY <1>2, <1>3

LEMMA InputStep == InputInv /\ [Next]_vars => InputInv'
<1> SUFFICES ASSUME InputInv, [Next]_vars PROVE InputInv'
  OBVIOUS
<1> USE InputAssumption
<1>1. CASE UNCHANGED vars
  BY <1>1 DEF vars, InputInv, TypeOK, WaiterIsServed
<1>2. CASE CtrlKey
  BY <1>2 DEF CtrlKey, InputInv, TypeOK, WaiterIsServed
<1>3. ASSUME NEW k \in Key, keyboard_irq(k) PROVE InputInv'
  BY <1>3, KeyStep
<1>4. CASE TuiKey \/ cmd_run
  <2>1. /\ keys' \in Seq(Char \cup {"nul"}) /\ Len(keys') <= KeyQueue
    <3>1. keys \in Seq(Char \cup {"nul"}) /\ Len(keys) <= KeyQueue /\ keys # <<>>
      BY <1>4 DEF TuiKey, cmd_run, InputInv, TypeOK
    <3>2. Tail(keys) \in Seq(Char \cup {"nul"}) /\ Len(Tail(keys)) = Len(keys) - 1
      BY <3>1, SeqSteps
    <3> QED BY <1>4, <3>1, <3>2 DEF TuiKey, cmd_run
  <2> QED BY <1>4, <2>1 DEF TuiKey, cmd_run, InputInv, TypeOK, WaiterIsServed
<1>5. CASE CmdRunReturns
  BY <1>5 DEF CmdRunReturns, InputInv, TypeOK, WaiterIsServed
<1>6. ASSUME NEW n \in Counts, sys_read(n) PROVE InputInv'
  <2>1. limit' \in Nat /\ limit' >= 1 /\ line' = <<>> /\ Len(line') = 0
    BY <1>6 DEF sys_read
  <2> QED BY <1>6, <2>1 DEF sys_read, InputInv, TypeOK, WaiterIsServed
<1>7. CASE keyboard_readline_vga
  BY <1>7, ReadlineStep
<1> QED BY <1>1, <1>2, <1>3, <1>4, <1>5, <1>6, <1>7 DEF Next, Thread

\* The character buffer and the key queue never overflow, and the line keyboard_readline_vga
\* builds leaves room for its NUL in whatever buffer the program has passed.
THEOREM LinesFit == Spec => []TypeOK
<1>1. InputInv => TypeOK
  BY DEF InputInv
<1> QED BY InputInitInv, InputStep, <1>1, PTL DEF Spec

\* Whoever waits for keys gets them: g_tui_mode, set on four paths and never saved, is right
\* whenever the window manager's loop or a line read waits.
THEOREM WaitersAreServed == Spec => []WaiterIsServed
<1>1. InputInv => WaiterIsServed
  BY DEF InputInv
<1> QED BY InputInitInv, InputStep, <1>1, PTL DEF Spec

\* Together: keys and lines fit, and nobody waits for keys that go elsewhere.
THEOREM InputIsSafe == Spec => []InputSafe
<1> QED BY LinesFit, WaitersAreServed, PTL DEF InputSafe
===============================================================================
