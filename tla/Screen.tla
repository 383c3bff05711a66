-------------------------------- MODULE Screen --------------------------------
(***************************************************************************)
(* The text screen and its two writers: the console of                     *)
(* Kernel/drivers/vga.c, which scrolls, and the compositor of              *)
(* Kernel/tui/tui_core.c and tui_wm.c, which draws the windows.  A program *)
(* run from the shell prints through the first; the next frame of the      *)
(* second covers it.                                                       *)
(*                                                                         *)
(* A cell is its character; the attributes are left out, except that the   *)
(* cursor's cell is marked.  A window's content is one character, its      *)
(* border another.  The z indices are module TuiWM's subject: here wins    *)
(* lists the windows from the bottom up.                                   *)
(***************************************************************************)
EXTENDS Integers, Sequences, SequencesExt, FiniteSetsExt

CONSTANTS W, H,        \* VGA_WIDTH, VGA_HEIGHT
          Glyphs,      \* printable characters
          Windows,     \* stacks of windows to be drawn, bottom first
          Cursors,     \* where tui_cursor_show may put the cursor
          MaxChars,    \* bound on console characters
          U16          \* 2^16

ASSUME ScreenAssumption ==
    /\ {W, H, U16} \subseteq Nat \ {0} /\ MaxChars \in Nat
    /\ \A s \in Windows : \A i \in DOMAIN s :
         s[i].w > 1 /\ s[i].h > 1 /\ s[i].x + s[i].w <= W /\ s[i].y + s[i].h <= H

VARIABLES vga,          \* VGA memory
          row, col,     \* g_vga_row, g_vga_col
          wins,         \* the windows of the last frame
          cursor,       \* g_cursor_row, g_cursor_col, or nowhere
          page, at,     \* everything the console was given, on a page without end, and
                        \* the row of the page it writes in
          frame,        \* who wrote last: "console", "composite", or "mixed"
          chars

screenVars == <<vga, row, col, wins, cursor, page, at, frame, chars>>

VgaCells == (0 .. H - 1) \X (0 .. W - 1)
PageRows == 0 .. MaxChars
Blank == " "
Clear == [p \in VgaCells |-> Blank]
Hidden == <<H, W>>
EmptyPage == [r \in PageRows |-> [c \in 0 .. W - 1 |-> Blank]]

ScreenInit ==
    /\ vga = Clear /\ row = 0 /\ col = 0 /\ wins = <<>> /\ cursor = Hidden
    /\ page = EmptyPage /\ at = 0 /\ frame = "console" /\ chars = 0

-------------------------------------------------------------------------------
(* The console, on s = [vga, row, col].                                    *)

vga_scroll(m) == [p \in VgaCells |-> IF p[1] < H - 1 THEN m[<<p[1] + 1, p[2]>>] ELSE Blank]

\* The switch of vga_putc.
PutHere(s, c) ==
    CASE c = "newline" -> [s EXCEPT !.row = @ + 1, !.col = 0]
      [] c = "return" -> [s EXCEPT !.col = 0]
      [] c = "back" -> IF s.col = 0 THEN s
                       ELSE [s EXCEPT !.col = @ - 1, !.vga[<<s.row, s.col - 1>>] = Blank]
      [] c = "tab" -> s
      [] OTHER -> IF s.row < H /\ s.col < W
                  THEN [s EXCEPT !.vga[<<s.row, s.col>>] = c, !.col = @ + 1] ELSE s

WrapColumn(s) == IF s.col >= W THEN [s EXCEPT !.col = 0, !.row = @ + 1] ELSE s
ScrollIntoView(s) ==
    IF s.row >= H THEN [s EXCEPT !.vga = vga_scroll(s.vga), !.row = @ - 1] ELSE s

\* The same character on the page, which does not scroll.
OnPage(c) ==
    LET put == CASE c = "newline" -> [r |-> at + 1, c |-> 0, page |-> page]
                 [] c = "return" -> [r |-> at, c |-> 0, page |-> page]
                 [] c = "back" -> IF col = 0 THEN [r |-> at, c |-> 0, page |-> page]
                                  ELSE [r |-> at, c |-> col - 1, page |-> [page EXCEPT ![at][col - 1] = Blank]]
                 [] c = "tab" -> [r |-> at, c |-> col, page |-> page]
                 [] OTHER -> [r |-> at, c |-> col + 1, page |-> [page EXCEPT ![at][col] = c]]
    IN  /\ page' = put.page /\ at' = put.r + (put.c \div W)

vga_putc(c) ==
    LET s == ScrollIntoView(WrapColumn(PutHere([vga |-> vga, row |-> row, col |-> col], c)))
    IN  /\ chars < MaxChars /\ chars' = chars + 1
        /\ vga' = s.vga /\ row' = s.row /\ col' = s.col /\ OnPage(c)
        /\ frame' = IF frame = "console" THEN frame ELSE "mixed"
        /\ UNCHANGED <<wins, cursor>>

\* vga_clear, before a program is run.
vga_clear ==
    /\ vga' = Clear /\ row' = 0 /\ col' = 0 /\ frame' = "console"
    /\ page' = EmptyPage /\ at' = 0 /\ UNCHANGED <<wins, cursor, chars>>

-------------------------------------------------------------------------------
(* The compositor.                                                         *)

Inside(w, p) == p[1] - w.y \in 1 .. w.h - 2 /\ p[2] - w.x \in 1 .. w.w - 2
Covers(w, p) == p[1] - w.y \in 0 .. w.h - 1 /\ p[2] - w.x \in 0 .. w.w - 1

\* draw_window_border: the four edges, then the content inside them; tui_surface_put
\* drops what is outside the screen.
draw_window_border(f, w) ==
    LET edges == [p \in VgaCells |-> IF Covers(w, p) /\ ~Inside(w, p) THEN "border" ELSE f[p]]
    IN  [p \in VgaCells |-> IF Inside(w, p) THEN w.fill ELSE edges[p]]

\* Mutant: from the top down.
CompositeTopDown(s) == FoldRight(LAMBDA w, f : draw_window_border(f, w), s, Clear)
\* tui_wm_composite: a clear screen, and the windows from the bottom up.
tui_wm_composite(s) == FoldLeft(draw_window_border, Clear, s)

\* tui_composite, with interrupts off: the frame with the cursor over it is copied to
\* VGA memory.
tui_composite(s, cur) ==
    LET f == tui_wm_composite(s)
    IN  /\ wins' = s /\ cursor' = cur /\ frame' = "composite"
        /\ vga' = IF cur \in VgaCells THEN [f EXCEPT ![cur] = "cursor"] ELSE f
        /\ UNCHANGED <<row, col, page, at, chars>>

ScreenNext ==
    \/ \E c \in Glyphs \cup {"newline", "return", "back", "tab"} : vga_putc(c)
    \/ vga_clear
    \/ \E s \in Windows, cur \in Cursors \cup {Hidden} : tui_composite(s, cur)

-------------------------------------------------------------------------------
(* Copying between surfaces.  Coordinates are uint16_t.                    *)

tui_surface_blit_to(src, dst, sw, sh, dw, dh, sr, sc, dr, dc, w, h) ==
    LET Dst(p) == <<(dr + p[1]) % U16, (dc + p[2]) % U16>>
        Src(p) == <<(sr + p[1]) % U16, (sc + p[2]) % U16>>
        copied == {p \in (0 .. h - 1) \X (0 .. w - 1) :
                     Src(p)[1] < sh /\ Dst(p)[1] < dh /\ Src(p)[2] < sw /\ Dst(p)[2] < dw}
    IN  [d \in DOMAIN dst |-> IF \E p \in copied : Dst(p) = d
                             THEN src[Src(CHOOSE p \in copied : Dst(p) = d)] ELSE dst[d]]

-------------------------------------------------------------------------------
(* Properties.                                                             *)

\* The console's cursor never leaves the screen.
ScreenTypeOK == row \in 0 .. H - 1 /\ col \in 0 .. W - 1 /\ DOMAIN vga = VgaCells

\* Since the last vga_clear the screen is a window on the page: its last rows as far
\* as they have been written, with nothing lost to scrolling, wrapping or backspace.
ConsoleShowsPage ==
    frame = "console" =>
        /\ at - row >= 0 /\ (at - row > 0 => row = H - 1)
        /\ \A p \in VgaCells : vga[p] = page[at - row + p[1]][p[2]]

Shown(w, p) ==
    IF p[1] - w.y \in {0, w.h - 1} \/ p[2] - w.x \in {0, w.w - 1} THEN "border" ELSE w.fill

\* A frame shows in each cell the topmost window there, and nothing of what the
\* console or the frame before left behind.
TopmostShows ==
    frame = "composite" =>
        \A p \in VgaCells \ {cursor} :
            LET over == {i \in DOMAIN wins : Covers(wins[i], p)}
            IN  vga[p] = IF over = {} THEN Blank ELSE Shown(wins[Max(over)], p)

\* "clipped blits (source partially outside)": a copy changes exactly the cells that
\* both surfaces have, as long as the coordinates do not wrap.
BlitClips ==
    frame = "composite" /\ chars = 0 =>
        \A sr, sc \in 0 .. 2, dr, dc \in 0 .. 3, w, h \in 1 .. 3 :
            LET src == [p \in (0 .. 1) \X (0 .. 2) |-> p]
                dst == [p \in (0 .. 2) \X (0 .. 1) |-> <<9, 9>>]
                new == tui_surface_blit_to(src, dst, 3, 2, 2, 3, sr, sc, dr, dc, w, h)
            IN  \A p \in DOMAIN dst :
                  LET s == <<p[1] - dr + sr, p[2] - dc + sc>>
                      in == p[1] - dr \in 0 .. h - 1 /\ p[2] - dc \in 0 .. w - 1
                  IN  new[p] = IF in /\ s \in DOMAIN src THEN src[s] ELSE dst[p]

\* Each writer of the screen leaves on it exactly what it should show.
ScreenSafe == ScreenTypeOK /\ ConsoleShowsPage /\ TopmostShows /\ BlitClips
===============================================================================
