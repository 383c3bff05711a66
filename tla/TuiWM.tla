-------------------------------- MODULE TuiWM --------------------------------
(***************************************************************************)
(* The text-mode window manager (Kernel/tui/tui_wm.c) and the three        *)
(* windows of the shell (Kernel/tui/shell.c): the pinned full-screen       *)
(* Shell, About and Clock.  One thread, tui_run, takes key and mouse       *)
(* events and composites.  Events come in any order: the two queues are    *)
(* drained one after the other, so their relative order is not kept, and   *)
(* the mouse position is read when the event is handled.                   *)
(*                                                                         *)
(* g_next_z and z_index are uint8_t.  No code hides a window, so visible   *)
(* is left out.  What windows draw is in ShellWindow and Screen.  Writing  *)
(* through drag_win after its window was freed is undefined: the model     *)
(* records it in corrupt and claims nothing afterwards.                    *)
(***************************************************************************)
EXTENDS Integers, Sequences, FiniteSets, SequencesExt, FiniteSetsExt

CONSTANTS TUI_WIDTH, TUI_HEIGHT,
          AboutW, AboutH, ClockW, ClockH,
          MAX_WINDOWS,
          ZMod,             \* 2^8: the range of z_index
          Cells,            \* where the mouse may point
          Keys,             \* which keys are pressed
          MaxEvents,        \* bound on events
          MaxCreated        \* bound on windows ever created

ASSUME WMAssumption ==
    /\ {TUI_WIDTH, TUI_HEIGHT, AboutW, AboutH, ClockW, ClockH} \subseteq Nat \ {0}
    /\ AboutW <= TUI_WIDTH /\ AboutH <= TUI_HEIGHT
    /\ ClockW < TUI_WIDTH /\ ClockH < TUI_HEIGHT
    /\ MAX_WINDOWS \in Nat /\ ZMod \in Nat \ {0} /\ MaxEvents \in Nat
    /\ MaxCreated \in Nat /\ MaxCreated >= 3
    /\ Keys \subseteq {"F2", "F3", "esc", "altTab", "up", "down", "left", "right"}
    /\ Cells \subseteq (0 .. TUI_WIDTH - 1) \X (0 .. TUI_HEIGHT - 1)

NoWindow == 0
Wid == [shell |-> TUI_WIDTH, about |-> AboutW, clock |-> ClockW]
Hei == [shell |-> TUI_HEIGHT, about |-> AboutH, clock |-> ClockH]

VARIABLES wm,         \* list: g_windows; win: what a window pointer points to;
                      \* focus: g_focused; next: g_next_z; made: windows created
          drag,       \* drag_win, NoWindow when dragging is 0
          grip,       \* drag_offset_x, drag_offset_y
          tui_pc,     \* "drain": taking events; "paint": in tui_composite
          events, corrupt

wmVars == <<wm, drag, grip, tui_pc, events, corrupt>>

Pinned(s, w) == s.win[w].kind = "shell"
AtMost(a, b) == IF a < b THEN a ELSE b
AtLeast(a, b) == IF a > b THEN a ELSE b

------------------------------------------------------------------------------
(* The operations, as functions of the manager's state.                    *)

\* Mutant: the window that loses the focus keeps its flag.
RaiseKeepsFlag(s, w) ==
    [s EXCEPT !.win[w].z = IF Pinned(s, w) THEN @ ELSE s.next,
              !.next = IF Pinned(s, w) THEN @ ELSE (@ + 1) % ZMod,
              !.win[w].focused = TRUE, !.focus = w]

tui_win_raise(s, w) ==
    LET up == [s EXCEPT !.win[w].z = IF Pinned(s, w) THEN @ ELSE s.next,
                        !.next = IF Pinned(s, w) THEN @ ELSE (@ + 1) % ZMod]
    IN  [up EXCEPT !.win = [v \in DOMAIN up.win |->
                              [up.win[v] EXCEPT !.focused =
                                 IF v = s.focus \/ v = w THEN v = w ELSE @]],
                   !.focus = w]

\* tui_win_set_focus moves the focus and then raises, which finds it moved.
tui_win_set_focus(s, w) == tui_win_raise(s, w)

\* tui_win_create and the caller's placement.  The window takes a z_index when it
\* is made and another when it is raised.
tui_win_create(s, kind, x, y) ==
    IF Len(s.list) >= MAX_WINDOWS \/ s.made = MaxCreated THEN s
    ELSE LET w == s.made + 1
             new == [kind |-> "about", x |-> x, y |-> y, z |-> s.next,
                     focused |-> FALSE]
             in == [s EXCEPT !.win[w] = new, !.list = Append(@, w),
                             !.made = w, !.next = (@ + 1) % ZMod]
             up == tui_win_raise(in, w)
         IN  [up EXCEPT !.win[w].kind = kind]

tui_shell_open_about(s) ==
    LET o == tui_win_create(s, "about", (TUI_WIDTH - AboutW) \div 2,
                                        (TUI_HEIGHT - AboutH) \div 2)
    IN  IF o = s THEN s ELSE tui_win_raise(o, o.made)
tui_shell_open_clock(s) ==
    LET o == tui_win_create(s, "clock", TUI_WIDTH - ClockW - 1, 1)
    IN  IF o = s THEN s ELSE tui_win_raise(o, o.made)

\* tui_win_destroy: the focus falls to the last window of the array.
tui_win_destroy(s, w) ==
    LET rest == SelectSeq(s.list, LAMBDA v : v # w)
        heir == IF rest = <<>> THEN NoWindow ELSE Last(rest)
        gone == [s EXCEPT !.list = rest, !.win[w].kind = "freed"]
    IN  IF s.focus # w THEN gone
        ELSE IF heir = NoWindow THEN [gone EXCEPT !.focus = NoWindow]
        ELSE [gone EXCEPT !.focus = heir, !.win[heir].focused = TRUE]

\* The clamping of tui_win_move and of a drag.
Place(s, w, x, y) ==
    [s EXCEPT !.win[w].x = AtMost(AtLeast(x, 0), TUI_WIDTH - Wid[s.win[w].kind]),
              !.win[w].y = AtMost(AtLeast(y, 0), TUI_HEIGHT - Hei[s.win[w].kind])]

tui_win_move(s, d) ==
    IF s.focus = NoWindow THEN s
    ELSE Place(s, s.focus, s.win[s.focus].x + d[1], s.win[s.focus].y + d[2])

\* tui_win_cycle_focus: the window after the focused one in the array.
tui_win_cycle_focus(s) ==
    LET n == Len(s.list)
        start == IF s.focus = NoWindow THEN 0
                 ELSE CHOOSE i \in 1 .. n : s.list[i] = s.focus
        next == (start % n) + 1
    IN  IF n = 0 \/ next = start THEN s ELSE tui_win_set_focus(s, s.list[next])

win_contains(s, w, c) ==
    /\ c[1] \in s.win[w].x .. s.win[w].x + Wid[s.win[w].kind] - 1
    /\ c[2] \in s.win[w].y .. s.win[w].y + Hei[s.win[w].kind] - 1

\* The windows over a cell, in the order of the array.
Over(s, c) == SelectSeq(s.list, LAMBDA w : win_contains(s, w, c))

\* win_at: the unpinned window with the highest z_index, else any.
win_at(s, c) ==
    LET loose == SelectSeq(Over(s, c), LAMBDA w : ~Pinned(s, w))
        top == {w \in ToSet(loose) :
                  \A v \in ToSet(loose) : s.win[v].z <= s.win[w].z}
    IN  IF loose # <<>> THEN SelectSeq(loose, LAMBDA w : w \in top)[1]
        ELSE IF Over(s, c) # <<>> THEN Over(s, c)[1]
        ELSE NoWindow

------------------------------------------------------------------------------
\* tui_shell_init opens the three windows.
Shell ==
    LET none == [kind |-> "freed", x |-> 0, y |-> 0, z |-> 0, focused |-> FALSE]
        boot == [list |-> <<>>, win |-> [w \in 1 .. MaxCreated |-> none],
                 focus |-> NoWindow, next |-> 1, made |-> 0]
    IN  tui_win_create(boot, "shell", 0, 0)

WmInit ==
    /\ wm = tui_shell_open_clock(tui_shell_open_about(Shell))
    /\ drag = NoWindow /\ grip = <<0, 0>>
    /\ tui_pc = "drain"
    /\ events = 0 /\ corrupt = FALSE

TuiEvent == tui_pc = "drain" /\ events < MaxEvents /\ events' = events + 1
Nudge == [up |-> <<0, -1>>, down |-> <<0, 1>>, left |-> <<-1, 0>>, right |-> <<1, 0>>]

\* A key: the chords of the window manager.  Any other key goes to the window.
KeyEvent(k) ==
    /\ TuiEvent
    /\ wm' = CASE k = "F2" -> tui_shell_open_about(wm)
               [] k = "F3" -> tui_shell_open_clock(wm)
               [] k = "esc" -> IF wm.focus # NoWindow /\ Len(wm.list) > 1
                               THEN tui_win_destroy(wm, wm.focus) ELSE wm
               [] k = "altTab" -> tui_win_cycle_focus(wm)
               [] OTHER -> tui_win_move(wm, Nudge[k])
    /\ UNCHANGED <<drag, grip, tui_pc, corrupt>>

\* A mouse packet with the left button down, the pointer on cell c.
ButtonDown(c) ==
    LET hit == win_at(wm, c)
    IN  /\ TuiEvent
        /\ IF hit = NoWindow THEN UNCHANGED <<wm, drag, grip, corrupt>>
           ELSE IF drag = NoWindow
           THEN /\ wm' = tui_win_set_focus(wm, hit)
                /\ IF ~Pinned(wm, hit) /\ c[2] = wm.win[hit].y
                   THEN /\ drag' = hit
                        /\ grip' = <<c[1] - wm.win[hit].x, c[2] - wm.win[hit].y>>
                   ELSE UNCHANGED <<drag, grip>>
                /\ UNCHANGED corrupt
           ELSE /\ IF drag \in ToSet(wm.list)
                   THEN wm' = Place(wm, drag, c[1] - grip[1], c[2] - grip[2])
                        /\ UNCHANGED corrupt
                   ELSE corrupt' = TRUE /\ UNCHANGED wm
                /\ UNCHANGED <<drag, grip>>
        /\ UNCHANGED tui_pc

\* A mouse packet without it.
ButtonUp ==
    /\ TuiEvent
    /\ drag' = NoWindow
    /\ UNCHANGED <<wm, grip, tui_pc, corrupt>>

\* Both queues are empty.
Drained ==
    /\ tui_pc = "drain" /\ tui_pc' = "paint"
    /\ UNCHANGED <<wm, drag, grip, events, corrupt>>

\* tui_wm_composite: for (uint8_t z = 1; z <= g_next_z; ++z).  The loop has no end
\* when g_next_z is the largest uint8_t.
Composites ==
    /\ tui_pc = "paint"
    /\ tui_pc' = IF wm.next = ZMod - 1 THEN "paint" ELSE "drain"
    /\ UNCHANGED <<wm, drag, grip, events, corrupt>>

WmNext ==
    \/ \E k \in Keys : KeyEvent(k)
    \/ \E c \in Cells : ButtonDown(c)
    \/ ButtonUp \/ Drained \/ Composites

WmSpec == WmInit /\ [][WmNext]_wmVars
WmFairSpec == WmSpec /\ WF_wmVars(Drained) /\ WF_wmVars(Composites)

------------------------------------------------------------------------------
(* Properties.                                                             *)

LiveWindows == ToSet(wm.list)

\* Every window stays wholly on the screen, through moves, drags and reopening.
WmTypeOK ==
    /\ wm.focus \in LiveWindows \cup {NoWindow} /\ wm.next \in 0 .. ZMod - 1
    /\ Len(wm.list) <= MAX_WINDOWS /\ Cardinality(LiveWindows) = Len(wm.list)
    /\ \A w \in LiveWindows :
         /\ wm.win[w].x \in 0 .. TUI_WIDTH - Wid[wm.win[w].kind]
         /\ wm.win[w].y \in 0 .. TUI_HEIGHT - Hei[wm.win[w].kind]
    /\ tui_pc \in {"drain", "paint"} /\ events \in 0 .. MaxEvents

\* Exactly one window shows itself focused, and it is the one that gets the keys:
\* g_focused and the focused flags are kept apart by create, raise, set_focus and
\* destroy, and Esc may close the focused window itself.
OneFocus == {w \in LiveWindows : wm.win[w].focused} = {wm.focus}

\* A click reaches the window the user sees at that cell: what win_at finds is
\* what tui_wm_composite, which knows nothing of pinning, paints there last.
ClickHitsWhatIsSeen ==
    ~corrupt => \A c \in Cells :
        LET over == ToSet(Over(wm, c))
        IN  over # {} =>
              {w \in over : \A v \in over : wm.win[v].z <= wm.win[w].z} = {win_at(wm, c)}

\* The design: compositing holds interrupts for a bounded time, so it ends.
CompositeEnds == (tui_pc = "paint") ~> (tui_pc = "drain")

\* Windows are on the screen, one has the focus, and a click reaches the one seen.
WmSafe == WmTypeOK /\ OneFocus /\ ClickHitsWhatIsSeen
==============================================================================
