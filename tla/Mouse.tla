-------------------------------- MODULE Mouse --------------------------------
(***************************************************************************)
(* The PS/2 mouse driver, Kernel/drivers/ps2mouse.c: three bytes per       *)
(* packet, one interrupt per byte.  Bytes and displacements are the real   *)
(* ones, 8 and 9 bits.                                                     *)
(*                                                                         *)
(* The mouse is external.  It sends a packet after the other; bytes of     *)
(* both movements carry the low eight bits, the first byte the signs, the  *)
(* overflow bits and the buttons.  A byte may get lost on the way.  Bytes  *)
(* of the keyboard are left alone by the interrupt handler and left out.   *)
(***************************************************************************)
EXTENDS Integers, Sequences

CONSTANTS SCREEN_W, SCREEN_H,   \* TUI_WIDTH, TUI_HEIGHT
          MousePackets,         \* what the mouse may report
          MaxPackets,           \* bound on packets sent
          MaxLost               \* bound on bytes lost

ASSUME MouseAssumption ==
    /\ {SCREEN_W, SCREEN_H} \subseteq Nat \ {0} /\ MaxPackets \in Nat /\ MaxLost \in Nat
    /\ MousePackets \subseteq [dx : -256 .. 255, dy : -256 .. 255, btn : 0 .. 7, ovf : 0 .. 3]

VARIABLES g_mouse_packet, g_mouse_packet_byte,
          pointer,     \* g_mouse_state.x and .y
          buttons,     \* g_mouse_state.buttons
          wire,        \* bytes of the packet not yet read
          sent, lost,
          hand,        \* where the packets sent should have moved the pointer
          latest,      \* the packet sent last
          straight,       \* no byte was lost, and no packet beyond what the driver reads
          calm         \* packets since the last slip that no byte of can be taken for a first one

mouseVars == <<g_mouse_packet, g_mouse_packet_byte, pointer, buttons, wire, sent,
               lost, hand, latest, straight, calm>>

Bit(b, i) == (b \div 2^i) % 2
Int8(b) == IF b >= 128 THEN b - 256 ELSE b
Quarter(d) == IF d >= 0 THEN d \div 4 ELSE -((-d) \div 4)      \* d / 4 in C
Clamp(v, n) == IF v < 0 THEN 0 ELSE IF v >= n THEN n - 1 ELSE v
Centre == <<SCREEN_W \div 2, SCREEN_H \div 2>>
Still == [dx |-> 0, dy |-> 0, btn |-> 0, ovf |-> 0]

PacketBytes(p) ==
    << p.btn + 8 + (IF p.dx < 0 THEN 16 ELSE 0) + (IF p.dy < 0 THEN 32 ELSE 0) + 64 * p.ovf,
       p.dx % 256, p.dy % 256 >>

\* The marker test of the first byte.
IsFirst(b) == Bit(b, 3) = 1 /\ Bit(b, 6) = 0 /\ Bit(b, 7) = 0

\* What the driver makes of a movement byte: |= 0xF0 when the sign bit is set.
Motion(sign, b) == Int8(IF sign = 1 THEN 240 + (b % 16) ELSE b)

\* ps2mouse_init, and the mouse streams.
MouseInit ==
    /\ g_mouse_packet = <<0, 0, 0>> /\ g_mouse_packet_byte = 0
    /\ pointer = Centre /\ buttons = 0
    /\ wire = <<>> /\ sent = 0 /\ lost = 0
    /\ hand = Centre /\ latest = Still /\ straight = TRUE /\ calm = 0

-------------------------------------------------------------------------------
Point(b0, b1, b2) ==
    << Clamp(pointer[1] + Quarter(Motion(Bit(b0, 4), b1)), SCREEN_W),
       Clamp(pointer[2] + Quarter(Motion(Bit(b0, 5), b2)), SCREEN_H) >>

\* Mutant: the first byte is not tested.
AnyFirst(b) ==
    /\ g_mouse_packet' = [g_mouse_packet EXCEPT ![1] = b]
    /\ g_mouse_packet_byte' = 1
FirstByte(b) ==
    IF IsFirst(b)
    THEN /\ g_mouse_packet' = [g_mouse_packet EXCEPT ![1] = b]
         /\ g_mouse_packet_byte' = 1
    ELSE UNCHANGED <<g_mouse_packet, g_mouse_packet_byte>>

ps2mouse_irq ==
    /\ wire # <<>> /\ wire' = Tail(wire)
    /\ LET b == Head(wire)
           k == g_mouse_packet_byte
       IN  IF k = 0 THEN FirstByte(b) /\ UNCHANGED <<pointer, buttons>>
           ELSE /\ g_mouse_packet' = [g_mouse_packet EXCEPT ![k + 1] = b]
                /\ g_mouse_packet_byte' = (k + 1) % 3
                /\ IF k = 1 THEN UNCHANGED <<pointer, buttons>>
                   ELSE /\ pointer' = Point(g_mouse_packet[1], g_mouse_packet[2], b)
                        /\ buttons' = g_mouse_packet[1] % 8
    /\ UNCHANGED <<sent, lost, hand, latest, straight, calm>>

\* The mouse sends a packet.  The driver reads displacements of -16 .. 127.
Sends(p) ==
    /\ wire = <<>> /\ sent < MaxPackets /\ sent' = sent + 1
    /\ wire' = PacketBytes(p) /\ latest' = p
    /\ hand' = << Clamp(hand[1] + Quarter(p.dx), SCREEN_W), Clamp(hand[2] + Quarter(p.dy), SCREEN_H) >>
    /\ straight' = (straight /\ p.ovf = 0 /\ {p.dx, p.dy} \subseteq -16 .. 127)
    /\ calm' = IF IsFirst(PacketBytes(p)[1]) /\ ~IsFirst(p.dx % 256) /\ ~IsFirst(p.dy % 256)
               THEN calm + 1 ELSE 0
    /\ UNCHANGED <<g_mouse_packet, g_mouse_packet_byte, pointer, buttons, lost>>

\* A byte is lost.
LosesByte ==
    /\ wire # <<>> /\ lost < MaxLost /\ lost' = lost + 1
    /\ wire' = Tail(wire) /\ straight' = FALSE /\ calm' = 0
    /\ UNCHANGED <<g_mouse_packet, g_mouse_packet_byte, pointer, buttons, sent, hand, latest>>

MouseNext ==
    \/ ps2mouse_irq \/ (\E p \in MousePackets : Sends(p)) \/ LosesByte
    \/ sent = MaxPackets /\ wire = <<>> /\ UNCHANGED mouseVars    \* the mouse lies still

-------------------------------------------------------------------------------
(* Properties.                                                             *)

\* Whatever bytes arrive, the pointer stays on the screen.
MouseTypeOK ==
    /\ pointer \in (0 .. SCREEN_W - 1) \X (0 .. SCREEN_H - 1)
    /\ buttons \in 0 .. 7 /\ g_mouse_packet_byte \in 0 .. 2 /\ Len(wire) <= 3

\* As long as no byte was lost and the mouse was not moved faster than the driver
\* reads, the pointer and the buttons are where the user has put them, at the left
\* and the right edge too.
PointerFollows ==
    straight /\ wire = <<>> => pointer = hand /\ buttons = latest.btn /\ g_mouse_packet_byte = 0

\* "On any mismatch, discard bytes until a valid first byte is found (re-align)": after
\* lost bytes and overflows, one packet whose other bytes fail the marker test brings
\* the driver back into step.
SlipHeals == calm > 0 /\ wire = <<>> => g_mouse_packet_byte = 0

\* The pointer is on the screen and follows the hand, and a slip heals.
MouseSafe == MouseTypeOK /\ PointerFollows /\ SlipHeals
===============================================================================
