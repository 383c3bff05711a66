------------------------------- MODULE SchedFS -------------------------------
(***************************************************************************)
(* The preemptive scheduler of the freestanding kernel                     *)
(* (Kernel/sched/sched_fs.c), with everything that moves it: the timer and *)
(* the other interrupts (Kernel/drivers/timer.c, Kernel/arch/interrupt.c,  *)
(* isr_common of Kernel/arch/isr.asm) and the boot thread kmain, which     *)
(* creates the background processes and then launches ring-3 programs      *)
(* (Kernel/kernel/kmain.c, user_prog_exec of Kernel/fs/elf.c).             *)
(*                                                                         *)
(* The boot thread is process 0 ("idle").  Its statements interleave with  *)
(* interrupts: idt_init executes sti before sched_fs_init runs.  An        *)
(* interrupt is one step, because its gate clears IF.  The background      *)
(* processes only count in a loop, so they have no step of their own.      *)
(*                                                                         *)
(* g_sched_ticks and g_switches are statistics that no branch reads; they  *)
(* are left out.  A stack pointer is abstracted to a frame: the thread     *)
(* whose registers it holds and the stack it lies on.                      *)
(***************************************************************************)
EXTENDS Integers

CONSTANTS MAX_PROCS,    \* size of g_procs
          TIME_SLICE,   \* ticks a process runs before it is preempted
          NBackground,  \* processes kmain asks for after boot
          MaxLaunches   \* bound on the programs the shell launches

ASSUME SchedAssumption ==
    /\ MAX_PROCS \in Nat \ {0}
    /\ TIME_SLICE \in Nat \ {0}
    /\ NBackground \in Nat
    /\ MaxLaunches \in Nat

Slot == 0 .. MAX_PROCS - 1
NoProc == -1                        \* g_current == NULL
NoFrame == <<-1, "none">>           \* esp == 0
\* "own": the thread's stack; "trap": the ring-0 stack named by the TSS, which
\* user_prog_exec frees as soon as the program has exited.
Frame == Slot \X {"own", "trap"}

KernelCr3 == "kernel"
UserCr3 == "user"
Cr3 == {"zero", KernelCr3, UserCr3}

Pc == {"boot", "set_current", "demo_ring3", "create", "setup_frame", "publish",
       "shell", "load_cr3", "ring3", "restore_cr3", "reset_slice",
       "clear_need", "enable"}

VARIABLES esp, has_frame, cr3,      \* the fields of g_procs[i]
          g_current, g_nprocs, g_slice_left, g_need_switch,
          g_preempt_enabled, g_kernel_cr3,
          running,                  \* the thread whose code the CPU executes
          cpu_cr3,                  \* the register CR3
          pc,                       \* where the boot thread is
          asked, launches           \* processes asked for, programs launched

table == <<esp, has_frame, cr3, g_nprocs, g_kernel_cr3>>
clock == <<g_slice_left, g_need_switch>>
cpu == <<running, cpu_cr3, g_current>>
vars == <<table, clock, cpu, g_preempt_enabled, pc, asked, launches>>

Init ==
    /\ esp = [p \in Slot |-> NoFrame]
    /\ has_frame = [p \in Slot |-> FALSE]
    /\ cr3 = [p \in Slot |-> "zero"]
    /\ g_current = NoProc
    /\ g_nprocs = 0
    /\ g_slice_left = 0
    /\ g_need_switch = FALSE
    /\ g_preempt_enabled = TRUE
    /\ g_kernel_cr3 = "zero"
    /\ running = 0
    /\ cpu_cr3 = KernelCr3
    /\ pc = "boot"
    /\ asked = 0
    /\ launches = 0

------------------------------------------------------------------------------
(* Interrupts.                                                             *)

\* Mutant: the last tick of a slice is never taken.
SliceStuck == IF g_slice_left > 1 THEN g_slice_left - 1 ELSE g_slice_left

\* sched_fs_on_tick: the new slice and whether a switch is now requested.
SliceAfterTick == IF g_slice_left > 0 THEN g_slice_left - 1 ELSE 0
Expires == SliceAfterTick = 0 /\ g_nprocs > 1

\* The frame isr_common has pushed when it calls sched_fs_maybe_switch.  An
\* interrupt taken in ring 3 is pushed on the stack named by the TSS.
InterruptFrame ==
    <<running, IF running = 0 /\ pc \in {"demo_ring3", "ring3"}
               THEN "trap" ELSE "own">>

\* Mutant: the successor skips a process.
SkipOne(need) ==
    IF need /\ g_current # NoProc /\ g_nprocs >= 2 /\ g_preempt_enabled
    THEN LET next == (g_current + 2) % g_nprocs
             saved == [esp EXCEPT ![g_current] = InterruptFrame]
         IN  /\ g_need_switch' = FALSE
             /\ esp' = saved
             /\ has_frame' = [has_frame EXCEPT ![g_current] = TRUE]
             /\ g_current' = next
             /\ cpu_cr3' = cr3[next]
             /\ running' = IF saved[next] = NoFrame
                           THEN running ELSE saved[next][1]
    ELSE /\ g_need_switch' = need
         /\ UNCHANGED <<esp, has_frame, cpu>>

\* sched_fs_maybe_switch with need standing for g_need_switch, followed by
\* the stack switch of isr_common, which a returned esp of 0 suppresses.
MaybeSwitch(need) ==
    IF need /\ g_current # NoProc /\ g_nprocs >= 2 /\ g_preempt_enabled
    THEN LET next == (g_current + 1) % g_nprocs
             saved == [esp EXCEPT ![g_current] = InterruptFrame]
         IN  /\ g_need_switch' = FALSE
             /\ esp' = saved
             /\ has_frame' = [has_frame EXCEPT ![g_current] = TRUE]
             /\ g_current' = next
             /\ cpu_cr3' = cr3[next]
             /\ running' = IF saved[next] = NoFrame
                           THEN running ELSE saved[next][1]
    ELSE /\ g_need_switch' = need
         /\ UNCHANGED <<esp, has_frame, cpu>>

\* IRQ 0: interrupt_dispatch calls timer_irq, isr_common tries to switch.
TimerInterrupt ==
    /\ g_slice_left' = IF Expires THEN TIME_SLICE ELSE SliceAfterTick
    /\ MaybeSwitch(g_need_switch \/ Expires)
    /\ UNCHANGED <<cr3, g_nprocs, g_kernel_cr3, g_preempt_enabled, pc, asked,
                   launches>>

\* Every other IRQ also returns through sched_fs_maybe_switch.
OtherInterrupt ==
    /\ MaybeSwitch(g_need_switch)
    /\ UNCHANGED <<cr3, g_nprocs, g_kernel_cr3, g_slice_left,
                   g_preempt_enabled, pc, asked, launches>>

------------------------------------------------------------------------------
(* The boot thread; it takes a step only while the CPU runs it.            *)

At(l) == running = 0 /\ pc = l
Goto(l) == pc' = l

\* The first clearing stores of create_process_fs for slot i.
ClearSlot(i, kcr3) ==
    /\ esp' = [esp EXCEPT ![i] = NoFrame]
    /\ has_frame' = [has_frame EXCEPT ![i] = FALSE]
    /\ cr3' = [cr3 EXCEPT ![i] = kcr3]

\* sched_fs_init up to the return of create_process_fs("idle", NULL, 1).  One
\* step: with fewer than two processes a tick only counts down.
sched_fs_init ==
    /\ At("boot") /\ Goto("set_current")
    /\ g_slice_left' = TIME_SLICE
    /\ g_need_switch' = FALSE
    /\ g_kernel_cr3' = cpu_cr3
    /\ ClearSlot(0, cpu_cr3)
    /\ g_nprocs' = 1
    /\ UNCHANGED <<cpu, g_preempt_enabled, asked, launches>>

SetCurrent ==
    /\ At("set_current") /\ Goto("demo_ring3")
    /\ g_current' = 0
    /\ UNCHANGED <<table, clock, running, cpu_cr3, g_preempt_enabled, asked,
                   launches>>

\* ring3_demo: a ring-3 program with preemption enabled, on the kernel's page
\* directory, before any background process exists.
ring3_demo ==
    /\ At("demo_ring3") /\ Goto("create")
    /\ UNCHANGED <<table, clock, cpu, g_preempt_enabled, asked, launches>>

\* create_process_fs, bootstrap = 0: return NULL when the table is full, else
\* clear the slot, lay out its first frame, and only then count it.
CreateBegin ==
    /\ At("create") /\ asked < NBackground
    /\ asked' = asked + 1
    /\ IF g_nprocs >= MAX_PROCS
       THEN Goto("create") /\ UNCHANGED <<esp, has_frame, cr3>>
       ELSE Goto("setup_frame") /\ ClearSlot(g_nprocs, g_kernel_cr3)
    /\ UNCHANGED <<g_nprocs, g_kernel_cr3, clock, cpu, g_preempt_enabled,
                   launches>>

\* Mutant: the entry frame is written but has no process to resume.
FrameNotStored ==
    /\ At("setup_frame") /\ Goto("publish")
    /\ UNCHANGED <<table, clock, cpu, g_preempt_enabled, asked, launches>>

setup_frame ==
    /\ At("setup_frame") /\ Goto("publish")
    /\ esp' = [esp EXCEPT ![g_nprocs] = <<g_nprocs, "own">>]
    /\ has_frame' = [has_frame EXCEPT ![g_nprocs] = TRUE]
    /\ UNCHANGED <<cr3, g_nprocs, g_kernel_cr3, clock, cpu,
                   g_preempt_enabled, asked, launches>>

Publish ==
    /\ At("publish") /\ Goto("create")
    /\ g_nprocs' = g_nprocs + 1
    /\ UNCHANGED <<esp, has_frame, cr3, g_kernel_cr3, clock, cpu,
                   g_preempt_enabled, asked, launches>>

EnterShell ==
    /\ At("create") /\ asked = NBackground /\ Goto("shell")
    /\ UNCHANGED <<table, clock, cpu, g_preempt_enabled, asked, launches>>

\* user_prog_exec, once the image is loaded: sched_fs_preempt_enable(0).
ExecBegin ==
    /\ At("shell") /\ launches < MaxLaunches /\ Goto("load_cr3")
    /\ launches' = launches + 1
    /\ g_preempt_enabled' = FALSE
    /\ UNCHANGED <<table, clock, cpu, asked>>

\* Load the program's page directory and launch_ring3.
ExecEnterRing3 ==
    /\ At("load_cr3") /\ Goto("ring3")
    /\ cpu_cr3' = UserCr3
    /\ UNCHANGED <<table, clock, running, g_current, g_preempt_enabled, asked,
                   launches>>

\* SYS_EXIT: isr_syscall_stub returns into user_prog_exec, still on the
\* program's page directory.
SysExit ==
    /\ At("ring3") /\ Goto("restore_cr3")
    /\ UNCHANGED <<table, clock, cpu, g_preempt_enabled, asked, launches>>

sched_fs_restore_kernel_cr3 ==
    /\ At("restore_cr3") /\ Goto("reset_slice")
    /\ cpu_cr3' = g_kernel_cr3
    /\ UNCHANGED <<table, clock, running, g_current, g_preempt_enabled, asked,
                   launches>>

\* sched_fs_preempt_enable(1), one step per store.
PreemptResetSlice ==
    /\ At("reset_slice") /\ Goto("clear_need")
    /\ g_slice_left' = TIME_SLICE
    /\ UNCHANGED <<table, g_need_switch, cpu, g_preempt_enabled, asked,
                   launches>>

PreemptClearNeed ==
    /\ At("clear_need") /\ Goto("enable")
    /\ g_need_switch' = FALSE
    /\ UNCHANGED <<table, g_slice_left, cpu, g_preempt_enabled, asked,
                   launches>>

PreemptEnable ==
    /\ At("enable") /\ Goto("shell")
    /\ g_preempt_enabled' = TRUE
    /\ UNCHANGED <<table, clock, cpu, asked, launches>>

KmainStep ==
    \/ sched_fs_init \/ SetCurrent \/ ring3_demo
    \/ CreateBegin \/ setup_frame \/ Publish \/ EnterShell
    \/ ExecBegin \/ ExecEnterRing3 \/ sched_fs_restore_kernel_cr3
    \/ PreemptResetSlice \/ PreemptClearNeed \/ PreemptEnable

Next == TimerInterrupt \/ OtherInterrupt \/ KmainStep \/ SysExit

Spec == Init /\ [][Next]_vars

\* The PIT keeps interrupting, and the boot thread advances whenever it is
\* given the CPU.  Nothing makes a ring-3 program exit.
FairSpec == Spec /\ WF_vars(TimerInterrupt) /\ WF_vars(KmainStep)

------------------------------------------------------------------------------
(* Properties.                                                             *)

\* Every variable of sched_fs.c stays within its type; in particular
\* g_slice_left, an unsigned counter, never goes below zero or above a slice,
\* and g_nprocs never exceeds the table.
TypeOK ==
    /\ esp \in [Slot -> Frame \cup {NoFrame}]
    /\ has_frame \in [Slot -> BOOLEAN]
    /\ cr3 \in [Slot -> Cr3]
    /\ g_current \in Slot \cup {NoProc}
    /\ g_nprocs \in 0 .. MAX_PROCS
    /\ g_slice_left \in 0 .. TIME_SLICE
    /\ g_need_switch \in BOOLEAN
    /\ g_preempt_enabled \in BOOLEAN
    /\ g_kernel_cr3 \in Cr3
    /\ running \in Slot
    /\ cpu_cr3 \in Cr3
    /\ pc \in Pc
    /\ asked \in 0 .. NBackground
    /\ launches \in 0 .. MaxLaunches

\* sched_fs_maybe_switch always finds a frame to resume: every counted process
\* other than the current one has saved a frame of its own, on its own stack
\* and never on the trap stack that user_prog_exec frees.
FramesResumable ==
    g_current # NoProc =>
        \A p \in Slot : p < g_nprocs /\ p # g_current =>
            has_frame[p] /\ esp[p] = <<p, "own">>

\* The scheduler's idea of who runs is never wrong: g_current is the thread
\* whose code the CPU executes (a zero esp returned to isr_common would change
\* one and not the other).
CurrentIsRunning == g_current # NoProc => running = g_current

\* A program's page directory is loaded exactly while the boot thread is inside
\* that program: no background process runs on it, and no switch takes it away
\* from the program.
AddressSpaceMatches ==
    /\ cpu_cr3 = UserCr3 <=> pc \in {"ring3", "restore_cr3"}
    /\ cpu_cr3 = UserCr3 => running = 0
    /\ cpu_cr3 # UserCr3 => cpu_cr3 = KernelCr3

Abstract == INSTANCE RoundRobin WITH
    MaxProcs <- MAX_PROCS, cur <- running, n <- g_nprocs,
    held <- ~g_preempt_enabled
\* The scheduler implements the round-robin promise: each switch goes to the
\* successor, and none happens between the stores that disable preemption and
\* enable it again in user_prog_exec.
ImplementsRoundRobin == Abstract!RRSpec

\* Starvation freedom: provided launched programs keep exiting (preemption is
\* enabled again and again), every created process gets the CPU again and again.
EveryProcessRuns ==
    []<>g_preempt_enabled =>
        \A p \in Slot : p < g_nprocs ~> running = p

\* What an interrupt between any two stores of the boot thread must find: a frame to
\* resume, g_current naming the thread on the CPU, and that thread's page directory.
SchedSafe == TypeOK /\ FramesResumable /\ CurrentIsRunning /\ AddressSpaceMatches
==============================================================================
