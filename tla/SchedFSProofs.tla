---------------------------- MODULE SchedFSProofs ----------------------------
(***************************************************************************)
(* Proofs about SchedFS for every table size, time slice and number of     *)
(* processes and launches.                                                 *)
(***************************************************************************)
EXTENDS SchedFS, TLAPS

\* The successor taken by sched_fs_maybe_switch is a counted process, and
\* differs from the current one once there are two.
LEMMA Successor ==
    ASSUME NEW n \in Nat, n >= 1, NEW c \in 0 .. n - 1
    PROVE  /\ (c + 1) % n \in 0 .. n - 1
           /\ n >= 2 => (c + 1) % n # c
<1>1. CASE c + 1 < n
  <2>1. (c + 1) % n = c + 1
    BY <1>1
  <2> QED BY <2>1, <1>1
<1>2. CASE c + 1 = n
  <2>1. n % n = 0
    OBVIOUS
  <2> QED BY <2>1, <1>2
<1> QED BY <1>1, <1>2

Exec == {"load_cr3", "ring3", "restore_cr3", "reset_slice", "clear_need",
         "enable"}

\* The inductive invariant.  Beyond the three safety invariants it says where
\* the boot thread must be for preemption to be off or a slot to be half built,
\* which is what makes a switch at any interrupt safe.
SchedInv ==
    /\ TypeOK
    /\ FramesResumable
    /\ CurrentIsRunning
    /\ AddressSpaceMatches
    /\ g_current = NoProc <=> pc \in {"boot", "set_current"}
    /\ g_current = NoProc => running = 0
    /\ g_current # NoProc => g_current < g_nprocs
    /\ pc # "boot" => g_nprocs >= 1
    /\ pc \in {"set_current", "demo_ring3"} => g_nprocs = 1
    /\ pc = "boot" => g_nprocs = 0
    /\ ~g_preempt_enabled <=> pc \in Exec
    /\ pc \in Exec => running = 0
    /\ pc # "boot" => g_kernel_cr3 = KernelCr3
    /\ \A p \in Slot : p < g_nprocs => cr3[p] = KernelCr3
    /\ pc \in {"setup_frame", "publish"} =>
           g_nprocs < MAX_PROCS /\ cr3[g_nprocs] = KernelCr3
    /\ pc = "publish" =>
           has_frame[g_nprocs] /\ esp[g_nprocs] = <<g_nprocs, "own">>

LEMMA InitInv == Init => SchedInv
<1> SUFFICES ASSUME Init PROVE SchedInv
  OBVIOUS
<1> USE SchedAssumption DEF Init
<1>1. TypeOK
  <2>1. esp \in [Slot -> Frame \cup {NoFrame}]
    OBVIOUS
  <2>2. /\ has_frame \in [Slot -> BOOLEAN] /\ cr3 \in [Slot -> Cr3]
        /\ g_current \in Slot \cup {NoProc}
    BY DEF Cr3
  <2>3. /\ g_nprocs \in 0 .. MAX_PROCS /\ g_slice_left \in 0 .. TIME_SLICE
        /\ running \in Slot
        /\ asked \in 0 .. NBackground /\ launches \in 0 .. MaxLaunches
    BY DEF Slot
  <2>4. g_kernel_cr3 \in Cr3 /\ cpu_cr3 \in Cr3 /\ pc \in Pc
    BY DEF Cr3, KernelCr3, Pc
  <2> QED BY <2>1, <2>2, <2>3, <2>4 DEF TypeOK
<1>2. AddressSpaceMatches
  BY DEF AddressSpaceMatches, KernelCr3, UserCr3
<1>3. FramesResumable /\ CurrentIsRunning
  BY DEF FramesResumable, CurrentIsRunning
<1>4. \A p \in Slot : p < g_nprocs => cr3[p] = KernelCr3
  BY DEF Slot
<1> QED
  BY <1>1, <1>2, <1>3, <1>4 DEF SchedInv, Exec

\* What a switch does: the interrupted thread's frame goes to its own slot, and
\* the CPU goes to the successor, whose frame is there to resume.
LEMMA SwitchEffect ==
    ASSUME SchedInv, NEW need \in BOOLEAN, MaybeSwitch(need),
           need, g_current # NoProc, g_nprocs >= 2, g_preempt_enabled,
           NEW next, next = (g_current + 1) % g_nprocs
    PROVE  /\ g_current \in 0 .. g_nprocs - 1
           /\ g_nprocs \in Nat /\ g_nprocs >= 2 /\ g_nprocs <= MAX_PROCS
           /\ running = g_current
           /\ pc \notin Exec /\ pc \notin {"demo_ring3", "boot", "set_current"}
           /\ next \in 0 .. g_nprocs - 1 /\ next # g_current
           /\ next \in Slot /\ g_current \in Slot
           /\ g_need_switch' = FALSE
           /\ esp' = [esp EXCEPT ![g_current] = <<g_current, "own">>]
           /\ has_frame' = [has_frame EXCEPT ![g_current] = TRUE]
           /\ g_current' = next
           /\ cpu_cr3' = cr3[next]
           /\ running' = next
<1>1. /\ g_current \in 0 .. g_nprocs - 1
      /\ g_nprocs \in Nat /\ g_nprocs >= 2 /\ g_nprocs <= MAX_PROCS
      /\ running = g_current
      /\ pc \notin Exec /\ pc \notin {"demo_ring3", "boot", "set_current"}
  BY SchedAssumption
  DEF SchedInv, TypeOK, Slot, NoProc, CurrentIsRunning, Exec
<1>2. next \in 0 .. g_nprocs - 1 /\ next # g_current
  <2>1. g_nprocs >= 1
    BY <1>1
  <2> QED BY <1>1, <2>1, Successor
<1>3. next \in Slot /\ g_current \in Slot
  BY <1>1, <1>2, SchedAssumption DEF Slot
<1>4. InterruptFrame = <<g_current, "own">>
  BY <1>1 DEF InterruptFrame, Exec
<1>5. esp[next] = <<next, "own">>
  BY <1>1, <1>2, <1>3 DEF SchedInv, FramesResumable
<1>6. esp \in [Slot -> Frame \cup {NoFrame}]
  BY DEF SchedInv, TypeOK
<1>7. [esp EXCEPT ![g_current] = InterruptFrame][next] = <<next, "own">>
  BY <1>2, <1>3, <1>5, <1>6
<1>8. <<next, "own">> # NoFrame /\ <<next, "own">>[1] = next
  BY DEF NoFrame
<1> QED
  BY <1>1, <1>2, <1>3, <1>4, <1>7, <1>8 DEF MaybeSwitch

\* An interrupt, whether or not it switches, keeps the invariant.
LEMMA MaybeSwitchInv ==
    ASSUME SchedInv, NEW need \in BOOLEAN, MaybeSwitch(need),
           g_slice_left' \in 0 .. TIME_SLICE,
           UNCHANGED <<cr3, g_nprocs, g_kernel_cr3, g_preempt_enabled, pc,
                       asked, launches>>
    PROVE  SchedInv'
<1> DEFINE switch == /\ need /\ g_current # NoProc /\ g_nprocs >= 2
                     /\ g_preempt_enabled
<1>1. CASE ~switch
  <2>1. UNCHANGED <<esp, has_frame, cpu>> /\ g_need_switch' = need
    BY <1>1 DEF MaybeSwitch
  <2> QED
    BY <2>1 DEF SchedInv, TypeOK, FramesResumable, CurrentIsRunning,
       AddressSpaceMatches, cpu
<1>2. CASE switch
  <2> DEFINE next == (g_current + 1) % g_nprocs
  <2> HIDE DEF next
  <2>1. /\ g_current \in 0 .. g_nprocs - 1
        /\ g_nprocs \in Nat /\ g_nprocs >= 2 /\ g_nprocs <= MAX_PROCS
        /\ running = g_current
        /\ pc \notin Exec /\ pc \notin {"demo_ring3", "boot", "set_current"}
    BY <1>2, SwitchEffect
  <2>2. next \in 0 .. g_nprocs - 1 /\ next # g_current
    BY <1>2, SwitchEffect DEF next
  <2>3. next \in Slot /\ g_current \in Slot
    BY <1>2, SwitchEffect DEF next
  <2>6. /\ g_need_switch' = FALSE
        /\ esp' = [esp EXCEPT ![g_current] = <<g_current, "own">>]
        /\ has_frame' = [has_frame EXCEPT ![g_current] = TRUE]
        /\ g_current' = next
        /\ cpu_cr3' = cr3[next]
        /\ running' = next
    BY <1>2, SwitchEffect DEF next
  <2>7. cpu_cr3' = KernelCr3
    BY <2>1, <2>2, <2>3, <2>6 DEF SchedInv
  <2>8. TypeOK'
    BY <2>3, <2>6, <2>7 DEF SchedInv, TypeOK, Frame, Cr3, KernelCr3
  <2>9. FramesResumable'
    BY <2>3, <2>6, <1>2 DEF SchedInv, TypeOK, FramesResumable
  <2>10. CurrentIsRunning'
    BY <2>6 DEF CurrentIsRunning
  <2>11. AddressSpaceMatches'
    BY <2>1, <2>7 DEF AddressSpaceMatches, KernelCr3, UserCr3, Exec
  <2>12. g_current' # NoProc /\ g_current' < g_nprocs'
    BY <2>1, <2>2, <2>6 DEF NoProc
  <2>13. pc = "publish" => g_nprocs \notin {g_current} /\ g_nprocs \in Slot
    BY <2>1, SchedAssumption DEF SchedInv, Slot, TypeOK
  <2>14. pc = "publish" =>
           has_frame'[g_nprocs] /\ esp'[g_nprocs] = <<g_nprocs, "own">>
    BY <2>6, <2>13 DEF SchedInv, TypeOK
  <2> QED
    BY <2>1, <2>6, <2>8, <2>9, <2>10, <2>11, <2>12, <2>14
    DEF SchedInv, Exec
<1> QED BY <1>1, <1>2

LEMMA TimerInv == ASSUME SchedInv, TimerInterrupt PROVE SchedInv'
<1>1. g_slice_left \in 0 .. TIME_SLICE /\ g_need_switch \in BOOLEAN
  BY DEF SchedInv, TypeOK
<1>2. g_slice_left' \in 0 .. TIME_SLICE
  BY <1>1, SchedAssumption DEF TimerInterrupt, SliceAfterTick
<1>3. (g_need_switch \/ Expires) \in BOOLEAN
  OBVIOUS
<1> QED
  BY <1>2, <1>3, MaybeSwitchInv DEF TimerInterrupt

LEMMA OtherInv == ASSUME SchedInv, OtherInterrupt PROVE SchedInv'
<1>1. g_slice_left' \in 0 .. TIME_SLICE /\ g_need_switch \in BOOLEAN
  BY DEF SchedInv, TypeOK, OtherInterrupt
<1> QED
  BY <1>1, MaybeSwitchInv DEF OtherInterrupt

LEMMA ClearSlotType ==
    ASSUME TypeOK, NEW i \in Slot, NEW k \in Cr3, ClearSlot(i, k)
    PROVE  /\ esp' \in [Slot -> Frame \cup {NoFrame}]
           /\ has_frame' \in [Slot -> BOOLEAN]
           /\ cr3' \in [Slot -> Cr3]
  BY DEF TypeOK, ClearSlot

\* Every statement of the boot thread keeps the invariant.
LEMMA KmainInv == ASSUME SchedInv, KmainStep \/ SysExit PROVE SchedInv'
<1> USE SchedAssumption DEF SchedInv, TypeOK, At, Goto, table, clock, cpu
<1>1. CASE sched_fs_init
  <2>1. 0 \in Slot /\ g_current = NoProc /\ cpu_cr3 = KernelCr3
    BY <1>1 DEF sched_fs_init, Slot, AddressSpaceMatches
  <2>2. TypeOK'
    <3>1. KernelCr3 \in Cr3 /\ ClearSlot(0, KernelCr3)
      BY <1>1, <2>1 DEF sched_fs_init, Cr3, KernelCr3
    <3>2. /\ esp' \in [Slot -> Frame \cup {NoFrame}]
          /\ has_frame' \in [Slot -> BOOLEAN] /\ cr3' \in [Slot -> Cr3]
      BY <2>1, <3>1, ClearSlotType
    <3>3. g_nprocs' \in 0 .. MAX_PROCS /\ g_slice_left' \in 0 .. TIME_SLICE
      BY <1>1 DEF sched_fs_init
    <3>4. g_kernel_cr3' \in Cr3 /\ g_need_switch' \in BOOLEAN /\ pc' \in Pc
      BY <1>1, <2>1, <3>1 DEF sched_fs_init, Pc
    <3> QED BY <1>1, <3>2, <3>3, <3>4 DEF sched_fs_init
  <2>3. \A p \in Slot : p < g_nprocs' => cr3'[p] = KernelCr3
    BY <1>1, <2>1 DEF sched_fs_init, ClearSlot, Slot
  <2>4. /\ FramesResumable' /\ CurrentIsRunning' /\ AddressSpaceMatches'
    BY <1>1, <2>1 DEF sched_fs_init, FramesResumable, CurrentIsRunning,
       AddressSpaceMatches, UserCr3, KernelCr3
  <2> QED BY <1>1, <2>1, <2>2, <2>3, <2>4 DEF sched_fs_init, Exec
<1>2. CASE SetCurrent
  <2>1. 0 \in Slot /\ g_nprocs = 1 /\ running = 0
    BY <1>2 DEF SetCurrent, Slot
  <2>2. FramesResumable'
    BY <1>2, <2>1 DEF SetCurrent, FramesResumable, Slot
  <2> QED
    BY <1>2, <2>1, <2>2 DEF SetCurrent, CurrentIsRunning, AddressSpaceMatches,
       NoProc, Pc, Exec
<1>3. CASE ring3_demo
  BY <1>3 DEF ring3_demo, FramesResumable, CurrentIsRunning,
     AddressSpaceMatches, Pc, Exec
<1>4. CASE CreateBegin
  <2>1. CASE g_nprocs >= MAX_PROCS
    BY <1>4, <2>1 DEF CreateBegin, FramesResumable, CurrentIsRunning,
       AddressSpaceMatches, Pc, Exec
  <2>2. CASE ~(g_nprocs >= MAX_PROCS)
    <3>1. g_nprocs \in Slot /\ g_kernel_cr3 = KernelCr3
      BY <1>4, <2>2 DEF CreateBegin, Slot
    <3>2. ClearSlot(g_nprocs, KernelCr3) /\ pc' = "setup_frame"
      BY <1>4, <2>2, <3>1 DEF CreateBegin
    <3>3. ASSUME NEW p \in Slot, p < g_nprocs
          PROVE  /\ esp'[p] = esp[p] /\ has_frame'[p] = has_frame[p]
                 /\ cr3'[p] = cr3[p]
      <4>1. p # g_nprocs
        BY <3>1, <3>3 DEF Slot
      <4> QED BY <3>2, <4>1 DEF ClearSlot
    <3>4. cr3'[g_nprocs] = KernelCr3
      BY <3>1, <3>2 DEF ClearSlot
    <3>5. TypeOK'
      <4>1. KernelCr3 \in Cr3
        BY DEF Cr3, KernelCr3
      <4>2. /\ esp' \in [Slot -> Frame \cup {NoFrame}]
            /\ has_frame' \in [Slot -> BOOLEAN] /\ cr3' \in [Slot -> Cr3]
        BY <3>1, <3>2, <4>1, ClearSlotType
      <4> QED BY <1>4, <3>2, <4>2 DEF CreateBegin, Pc
    <3>6. FramesResumable'
      BY <1>4, <3>3 DEF CreateBegin, FramesResumable
    <3> QED
      BY <1>4, <2>2, <3>2, <3>3, <3>4, <3>5, <3>6 DEF CreateBegin,
         CurrentIsRunning, AddressSpaceMatches, Exec
  <2> QED BY <2>1, <2>2
<1>5. CASE setup_frame
  <2>1. g_nprocs \in Slot
    BY <1>5 DEF setup_frame, Slot
  <2>2. ASSUME NEW p \in Slot, p < g_nprocs
        PROVE  esp'[p] = esp[p] /\ has_frame'[p] = has_frame[p]
    <3>1. p # g_nprocs
      BY <2>1, <2>2 DEF Slot
    <3> QED BY <1>5, <3>1 DEF setup_frame
  <2>3. esp'[g_nprocs] = <<g_nprocs, "own">> /\ has_frame'[g_nprocs]
    BY <1>5, <2>1 DEF setup_frame
  <2>4. TypeOK'
    <3>1. <<g_nprocs, "own">> \in Frame
      BY <2>1 DEF Frame
    <3>2. esp' \in [Slot -> Frame \cup {NoFrame}]
      BY <1>5, <3>1 DEF setup_frame
    <3>3. has_frame' \in [Slot -> BOOLEAN]
      BY <1>5 DEF setup_frame
    <3> QED BY <1>5, <3>2, <3>3 DEF setup_frame, Pc
  <2>5. FramesResumable'
    BY <1>5, <2>2 DEF setup_frame, FramesResumable
  <2> QED
    BY <1>5, <2>3, <2>4, <2>5 DEF setup_frame, CurrentIsRunning,
       AddressSpaceMatches, Exec
<1>6. CASE Publish
  <2>1. g_nprocs \in Slot /\ g_nprocs + 1 \in 0 .. MAX_PROCS
    BY <1>6 DEF Publish, Slot
  <2>2. TypeOK'
    BY <1>6, <2>1 DEF Publish, Pc
  <2>3. \A p \in Slot : p < g_nprocs + 1 => p < g_nprocs \/ p = g_nprocs
    BY <2>1 DEF Slot
  <2>4. FramesResumable'
    BY <1>6, <2>3 DEF Publish, FramesResumable
  <2>5. \A p \in Slot : p < g_nprocs' => cr3'[p] = KernelCr3
    BY <1>6, <2>3 DEF Publish
  <2>6. g_current' # NoProc => g_current' < g_nprocs'
    BY <1>6, <2>1 DEF Publish, Slot
  <2> QED
    BY <1>6, <2>1, <2>2, <2>4, <2>5, <2>6 DEF Publish, CurrentIsRunning,
       AddressSpaceMatches, Exec, Slot
<1>7. CASE EnterShell
  BY <1>7 DEF EnterShell, FramesResumable, CurrentIsRunning,
     AddressSpaceMatches, Pc, Exec
<1>8. CASE ExecBegin
  <2>1. launches' \in 0 .. MaxLaunches
    BY <1>8 DEF ExecBegin
  <2>2. TypeOK'
    BY <1>8, <2>1 DEF ExecBegin, Pc
  <2>3. FramesResumable' /\ CurrentIsRunning' /\ AddressSpaceMatches'
    BY <1>8 DEF ExecBegin, FramesResumable, CurrentIsRunning,
       AddressSpaceMatches
  <2> QED BY <1>8, <2>2, <2>3 DEF ExecBegin, Exec
<1>9. CASE ExecEnterRing3
  <2>1. cpu_cr3' = UserCr3 /\ UserCr3 \in Cr3 /\ UserCr3 # KernelCr3
    BY <1>9 DEF ExecEnterRing3, Cr3, UserCr3, KernelCr3
  <2>2. AddressSpaceMatches'
    BY <1>9, <2>1 DEF ExecEnterRing3, AddressSpaceMatches
  <2>3. TypeOK'
    BY <1>9, <2>1 DEF ExecEnterRing3, Pc
  <2> QED
    BY <1>9, <2>2, <2>3 DEF ExecEnterRing3, FramesResumable,
       CurrentIsRunning, Exec
<1>10. CASE SysExit
  BY <1>10 DEF SysExit, FramesResumable, CurrentIsRunning,
     AddressSpaceMatches, Pc, Exec
<1>11. CASE sched_fs_restore_kernel_cr3
  BY <1>11 DEF sched_fs_restore_kernel_cr3, FramesResumable, CurrentIsRunning,
     AddressSpaceMatches, Pc, Exec, Cr3, UserCr3, KernelCr3
<1>12. CASE PreemptResetSlice
  BY <1>12 DEF PreemptResetSlice, FramesResumable, CurrentIsRunning,
     AddressSpaceMatches, Pc, Exec
<1>13. CASE PreemptClearNeed
  BY <1>13 DEF PreemptClearNeed, FramesResumable, CurrentIsRunning,
     AddressSpaceMatches, Pc, Exec
<1>14. CASE PreemptEnable
  BY <1>14 DEF PreemptEnable, FramesResumable, CurrentIsRunning,
     AddressSpaceMatches, Pc, Exec
<1> QED
  BY <1>1, <1>2, <1>3, <1>4, <1>5, <1>6, <1>7, <1>8, <1>9, <1>10, <1>11,
     <1>12, <1>13, <1>14 DEF KmainStep

LEMMA StepInv == SchedInv /\ [Next]_vars => SchedInv'
<1> SUFFICES ASSUME SchedInv, [Next]_vars PROVE SchedInv'
  OBVIOUS
<1>1. CASE UNCHANGED vars
  BY <1>1 DEF SchedInv, TypeOK, FramesResumable, CurrentIsRunning,
     AddressSpaceMatches, vars, table, clock, cpu
<1>2. CASE Next
  BY <1>2, TimerInv, OtherInv, KmainInv DEF Next
<1> QED BY <1>1, <1>2

\* The invariant holds in every reachable state.
THEOREM Invariance == Spec => []SchedInv
<1> QED BY InitInv, StepInv, PTL DEF Spec

\* Every scheduler variable keeps its type; the time slice never underflows.
THEOREM TypeCorrect == Spec => []TypeOK
<1>1. SchedInv => TypeOK
  BY DEF SchedInv
<1> QED BY <1>1, Invariance, PTL

\* Whichever interrupt switches, the frame it resumes exists, belongs to the
\* process it switches to and lies on that process's own stack.
THEOREM SwitchesAreSafe == Spec => []FramesResumable
<1>1. SchedInv => FramesResumable
  BY DEF SchedInv
<1> QED BY <1>1, Invariance, PTL

\* g_current and the thread on the CPU never part.
THEOREM BookkeepingIsRight == Spec => []CurrentIsRunning
<1>1. SchedInv => CurrentIsRunning
  BY DEF SchedInv
<1> QED BY <1>1, Invariance, PTL

\* A program's page directory is in CR3 exactly while that program runs.
THEOREM AddressSpacesAreRight == Spec => []AddressSpaceMatches
<1>1. SchedInv => AddressSpaceMatches
  BY DEF SchedInv
<1> QED BY <1>1, Invariance, PTL

\* Together: what an interrupt between any two stores of the boot thread must find.
THEOREM SchedulerIsSafe == Spec => []SchedSafe
<1> QED
  BY TypeCorrect, SwitchesAreSafe, BookkeepingIsRight, AddressSpacesAreRight, PTL
  DEF SchedSafe

\* An interrupt moves the CPU to the successor or not at all, and never while
\* preemption is off.
LEMMA MaybeSwitchRefines ==
    ASSUME SchedInv, NEW need \in BOOLEAN, MaybeSwitch(need),
           UNCHANGED <<g_nprocs, g_preempt_enabled>>
    PROVE  Abstract!Rotate \/ UNCHANGED Abstract!rrVars
<1> DEFINE switch == /\ need /\ g_current # NoProc /\ g_nprocs >= 2
                     /\ g_preempt_enabled
<1>1. CASE ~switch
  <2>1. running' = running
    BY <1>1 DEF MaybeSwitch, cpu
  <2> QED BY <2>1 DEF Abstract!rrVars
<1>2. CASE switch
  <2>1. running = g_current /\ running' = (g_current + 1) % g_nprocs
    BY <1>2, SwitchEffect
  <2>2. g_nprocs > 1
    BY <1>2 DEF SchedInv, TypeOK
  <2> QED BY <1>2, <2>1, <2>2 DEF Abstract!Rotate
<1> QED BY <1>1, <1>2

LEMMA StepRefines ==
    SchedInv /\ [Next]_vars => [Abstract!RRNext]_(Abstract!rrVars)
<1> SUFFICES ASSUME SchedInv, [Next]_vars
             PROVE  Abstract!RRNext \/ UNCHANGED Abstract!rrVars
  OBVIOUS
<1> USE DEF Abstract!RRNext
<1>1. CASE UNCHANGED vars
  BY <1>1 DEF Abstract!rrVars, vars, table, cpu
<1>2. CASE TimerInterrupt
  <2>1. (g_need_switch \/ Expires) \in BOOLEAN
    BY DEF SchedInv, TypeOK, Expires
  <2> QED BY <1>2, <2>1, MaybeSwitchRefines DEF TimerInterrupt
<1>3. CASE OtherInterrupt
  <2>1. g_need_switch \in BOOLEAN
    BY DEF SchedInv, TypeOK
  <2> QED BY <1>3, <2>1, MaybeSwitchRefines DEF OtherInterrupt
<1>4. CASE sched_fs_init
  <2>1. g_nprocs = 0 /\ MAX_PROCS > 0
    BY <1>4, SchedAssumption DEF sched_fs_init, At, SchedInv
  <2> QED BY <1>4, <2>1 DEF sched_fs_init, cpu, Abstract!Admit
<1>5. CASE Publish
  <2>1. g_nprocs < MAX_PROCS
    BY <1>5 DEF Publish, At, SchedInv
  <2> QED BY <1>5, <2>1 DEF Publish, cpu, Abstract!Admit
<1>6. CASE ExecBegin
  <2>1. g_preempt_enabled
    BY <1>6 DEF ExecBegin, At, SchedInv, Exec
  <2> QED BY <1>6, <2>1 DEF ExecBegin, At, cpu, table, Abstract!Hold
<1>7. CASE PreemptEnable
  <2>1. ~g_preempt_enabled
    BY <1>7 DEF PreemptEnable, At, SchedInv, Exec
  <2> QED BY <1>7, <2>1 DEF PreemptEnable, At, cpu, table, Abstract!Release
<1>8. CASE \/ SetCurrent \/ ring3_demo \/ CreateBegin \/ setup_frame
           \/ EnterShell \/ ExecEnterRing3 \/ SysExit
           \/ sched_fs_restore_kernel_cr3 \/ PreemptResetSlice
           \/ PreemptClearNeed
  BY <1>8 DEF SetCurrent, ring3_demo, CreateBegin, setup_frame, EnterShell,
     ExecEnterRing3, SysExit, sched_fs_restore_kernel_cr3, PreemptResetSlice,
     PreemptClearNeed, Abstract!rrVars, cpu, table
<1> QED
  BY <1>1, <1>2, <1>3, <1>4, <1>5, <1>6, <1>7, <1>8 DEF Next, KmainStep

\* The scheduler implements the round-robin promise, for every table size.
THEOREM RoundRobinRefinement == Spec => ImplementsRoundRobin
<1>1. Init => Abstract!RRInit
  BY DEF Init, Abstract!RRInit
<1> QED
  BY <1>1, StepRefines, Invariance, PTL
  DEF Spec, ImplementsRoundRobin, Abstract!RRSpec
==============================================================================
