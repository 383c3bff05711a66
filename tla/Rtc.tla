---------------------------------- MODULE Rtc ----------------------------------
(***************************************************************************)
(* Reading the CMOS clock, Kernel/drivers/rtc.c, while it runs.            *)
(*                                                                         *)
(* The clock is external: it announces an update with the UIP bit some     *)
(* time before its registers change, and the announcement is long against  *)
(* reading the four registers, unless the reader is held up in between     *)
(* (HeldUp): the timer interrupt is on and may switch to another process.  *)
(* In register B of the clock, bit 1 says that hours count to 24 and bit 2 *)
(* that the registers are binary rather than BCD.                          *)
(***************************************************************************)
EXTENDS Integers

CONSTANTS SECS, MINS,     \* seconds in a minute, minutes in an hour, scaled down
          Modes,          \* register B: bit 1 (2) and bit 2 (4)
          HeldUp,
          MaxReads        \* bound on rtc_read_time

ASSUME RtcAssumption ==
    /\ {SECS, MINS} \subseteq Nat \ {0} /\ MaxReads \in Nat
    /\ Modes \subseteq [bit1 : BOOLEAN, bit2 : BOOLEAN] /\ HeldUp \in BOOLEAN

VARIABLES clock,    \* the time of day, in seconds
          uip,      \* update in progress
          ahead,    \* was the reader past its wait when the update was announced?
          mode,     \* register B
          rpc, regs,    \* how far rtc_read_time is, and what it has read
          spanned,  \* the times the clock has shown while the registers were read
          reads

rtcVars == <<clock, uip, ahead, mode, rpc, regs, spanned, reads>>

Day == 24 * MINS * SECS
NoRegs == [sec |-> 0, min |-> 0, hr |-> 0]
Hms(t) == [sec |-> t % SECS, min |-> (t \div SECS) % MINS, hr |-> t \div (SECS * MINS)]

-------------------------------------------------------------------------------
(* The clock's registers (external).                                       *)

ToBcd(n) == (n \div 10) * 16 + (n % 10)
Code(m, n) == IF m.bit2 THEN n ELSE ToBcd(n)
\* In 12-hour mode the hours are 12, 1 .. 11 with bit 7 set in the afternoon.
HourCode(m, h) ==
    IF m.bit1 THEN Code(m, h)
    ELSE Code(m, IF h % 12 = 0 THEN 12 ELSE h % 12) + (IF h >= 12 THEN 128 ELSE 0)
Shows(t) == [sec |-> Code(mode, Hms(t).sec), min |-> Code(mode, Hms(t).min),
             hr |-> HourCode(mode, Hms(t).hr)]

RtcInit ==
    /\ clock = Day - 2 /\ uip = FALSE /\ ahead = FALSE
    /\ mode = [bit1 |-> TRUE, bit2 |-> FALSE]
    /\ rpc = "off" /\ regs = NoRegs /\ spanned = {} /\ reads = 0

MidRead == rpc \notin {"off", "idle", "wait"}
Announces ==
    /\ ~uip /\ uip' = TRUE /\ ahead' = MidRead
    /\ UNCHANGED <<clock, mode, rpc, regs, spanned, reads>>
\* Who began before the announcement has read the registers by the time they change.
Ticks ==
    /\ uip /\ uip' = FALSE /\ (ahead /\ MidRead => HeldUp)
    /\ clock' = (clock + 1) % Day
    /\ spanned' = IF MidRead THEN spanned \cup {clock'} ELSE spanned
    /\ UNCHANGED <<ahead, mode, rpc, regs, reads>>

-------------------------------------------------------------------------------
(* rtc_read_time.                                                          *)

bcd_to_bin(b) == (b % 16) + (b \div 16) * 10

\* The conversion of the three values: the code takes bit 1 for binary and bit 2 for
\* the 24 hours.
Converted(m, r) ==
    LET C(b) == IF m.bit1 THEN b ELSE bcd_to_bin(b)
        h == C(r.hr)
    IN  [sec |-> C(r.sec), min |-> C(r.min),
         hr |-> IF ~m.bit2 /\ h >= 128 THEN h - 128 + 12 ELSE h]

\* rtc_init finds the clock in some mode, and leaves it there.
rtc_init ==
    /\ rpc = "off" /\ rpc' = "idle" /\ mode' \in Modes
    /\ UNCHANGED <<clock, uip, ahead, regs, spanned, reads>>
CallRead ==
    /\ rpc = "idle" /\ reads < MaxReads /\ reads' = reads + 1
    /\ rpc' = "wait" /\ UNCHANGED <<clock, uip, ahead, mode, regs, spanned>>
\* Mutant: the update bit is not waited for.
SeesAnything ==
    /\ rpc = "wait" /\ rpc' = "sec" /\ spanned' = {clock}
    /\ UNCHANGED <<clock, uip, ahead, mode, regs, reads>>
\* The loop on register A.
SeesNoUpdate ==
    /\ rpc = "wait" /\ ~uip /\ rpc' = "sec" /\ spanned' = {clock}
    /\ UNCHANGED <<clock, uip, ahead, mode, regs, reads>>
Reg(now, next, r) ==
    /\ rpc = now /\ rpc' = next /\ regs' = r
    /\ UNCHANGED <<clock, uip, ahead, mode, spanned, reads>>
cmos_read ==
    \/ Reg("sec", "min", [regs EXCEPT !.sec = Shows(clock).sec])
    \/ Reg("min", "hr", [regs EXCEPT !.min = Shows(clock).min])
    \/ Reg("hr", "mode", [regs EXCEPT !.hr = Shows(clock).hr])
Converts == Reg("mode", "done", Converted(mode, regs))
RtcReturns ==
    /\ rpc = "done" /\ rpc' = "idle" /\ regs' = NoRegs /\ spanned' = {}
    /\ UNCHANGED <<clock, uip, ahead, mode, reads>>

RtcNext ==
    \/ Announces \/ Ticks \/ rtc_init \/ CallRead \/ SeesNoUpdate \/ cmos_read \/ Converts \/ RtcReturns
RtcSpec == RtcInit /\ [][RtcNext]_rtcVars

-------------------------------------------------------------------------------
(* Properties.                                                             *)

\* The three values returned belong together, whatever the code makes of them: they
\* come from one time the clock has shown during the call, also when the call comes at
\* the moment everything changes, from the last second of the day to the first.
TimeIsConsistent ==
    rpc = "done" => regs \in {Converted(mode, Shows(t)) : t \in spanned}

\* What rtc_read_time returns is the time of day: "real wall-clock", says the
\* design of the window manager, with the registers converted from BCD to binary.
ReadsWallClock == rpc = "done" => regs \in {Hms(t) : t \in spanned}
===============================================================================
