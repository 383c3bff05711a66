------------------------------ MODULE RtcProofs ------------------------------
(***************************************************************************)
(* Proofs about Rtc for every length of minute and hour, every mode and    *)
(* any number of reads.                                                    *)
(***************************************************************************)
EXTENDS Rtc, TLAPS

\* How far the registers have been read, all from the time the clock still shows:
\* an update announced during the reading waits for its end.
RtcInv ==
    /\ rpc \in {"off", "idle", "wait", "sec", "min", "hr", "mode", "done"}
    /\ DOMAIN regs = {"sec", "min", "hr"} /\ regs = [k \in DOMAIN regs |-> regs[k]]
    /\ MidRead => spanned = {clock} /\ (uip => ahead)
    /\ rpc \in {"min", "hr", "mode"} => regs.sec = Shows(clock).sec
    /\ rpc \in {"hr", "mode"} => regs.min = Shows(clock).min
    /\ rpc = "mode" => regs.hr = Shows(clock).hr
    /\ rpc = "done" => regs = Converted(mode, Shows(clock))

LEMMA RtcInitInv == RtcInit => RtcInv
BY DEF RtcInit, RtcInv, MidRead, NoRegs

LEMMA RtcStep ==
    ASSUME ~HeldUp, RtcInv, [RtcNext]_rtcVars PROVE RtcInv'
<1> USE DEF RtcInv, MidRead
<1>1. CASE UNCHANGED rtcVars
  BY <1>1 DEF rtcVars, Shows
<1>2. CASE Announces
  BY <1>2 DEF Announces, Shows
<1>3. CASE Ticks
  BY <1>3 DEF Ticks
<1>4. CASE rtc_init
  BY <1>4 DEF rtc_init
<1>5. CASE CallRead
  BY <1>5 DEF CallRead
<1>6. CASE SeesNoUpdate
  BY <1>6 DEF SeesNoUpdate
<1>7. CASE cmos_read
  BY <1>7 DEF cmos_read, Reg, Shows
<1>8. CASE Converts
  <2>1. regs = Shows(clock)
    BY <1>8 DEF Converts, Reg, Shows
  <2>2. Shows(clock)' = Shows(clock)
    BY <1>8 DEF Converts, Reg, Shows
  <2>3. DOMAIN regs' = {"sec", "min", "hr"} /\ regs' = [k \in DOMAIN regs' |-> regs'[k]]
    BY <1>8 DEF Converts, Reg, Converted
  <2> QED BY <1>8, <2>1, <2>2, <2>3 DEF Converts, Reg
<1>9. CASE RtcReturns
  BY <1>9 DEF RtcReturns, NoRegs
<1> QED BY <1>1, <1>2, <1>3, <1>4, <1>5, <1>6, <1>7, <1>8, <1>9 DEF RtcNext

\* A reader that is not held up never returns a time put together from two: waiting
\* for the update bit before the three reads of rtc_read_time is enough.
THEOREM NoTornTime == ASSUME ~HeldUp PROVE RtcSpec => []TimeIsConsistent
<1>1. RtcInv /\ [RtcNext]_rtcVars => RtcInv'
  BY RtcStep
<1>2. RtcInv => TimeIsConsistent
  BY DEF RtcInv, TimeIsConsistent, MidRead
<1> QED BY RtcInitInv, <1>1, <1>2, PTL DEF RtcSpec
===============================================================================
