------------------------------ MODULE HostedSched ------------------------------
(***************************************************************************)
(* The cooperative scheduler of the hosted build, Kernel/sched/scheduler.c *)
(* and the commands of Kernel/kernel/kernel.c that drive it.               *)
(*                                                                         *)
(* The ready queue is a ring threaded by next and prev, the sleep queue a  *)
(* list threaded by sleep_next.  A process runs by a call of its entry     *)
(* point, which may yield, sleep or return; those in the tree yield.  One  *)
(* step of scheduler_run is one tick, since nothing is kept between two.   *)
(* The setjmp calls keep pc at zero, and the longjmp condition is never    *)
(* true.  Names, stacks and parents are left out: nothing reads them but   *)
(* the listings.  process_join and destroy_process have no other caller    *)
(* than the test of a zombie in the ready queue, and join is never called  *)
(* on the process that ran last (see scheduler.c:326).                     *)
(***************************************************************************)
EXTENDS Integers, Sequences, FiniteSets, FiniteSetsExt, SequencesExt

CONSTANTS MaxProcs,    \* bound on processes created, pid 1, 2, ...
          Priorities,  \* of SCHED_PRIORITY_LOW, NORMAL and HIGH
          MaxSleep,    \* longest sleep
          MaxTicks     \* bound on scheduler_ticks

ASSUME HostedAssumption ==
    /\ MaxProcs \in Nat /\ MaxSleep \in Nat /\ MaxTicks \in Nat
    /\ Priorities \subseteq 1 .. 10

Procs == 1 .. MaxProcs
None == 0                \* a null pointer; as current_process, the idle process

VARIABLES proc,          \* the processes, by pid
          ready_queue, sleep_queue, current_process, ticks, policy,
          waited         \* ticks a process has been ready and others were run

hostedVars == <<proc, ready_queue, sleep_queue, current_process, ticks, policy, waited>>

NoProcess == [st |-> "none", pri |-> 0, cpu |-> 0, wake |-> 0,
           next |-> None, prev |-> None, snext |-> None]
Freed == [NoProcess EXCEPT !.st = "freed"]
Q == [proc |-> proc, head |-> ready_queue, sleep |-> sleep_queue]

-------------------------------------------------------------------------------
(* The queues, as functions of their state s.                              *)

Follow(first, link) ==
    LET at[k \in 0 .. MaxProcs] ==
          IF k = 0 THEN first ELSE IF at[k - 1] = None THEN None ELSE link[at[k - 1]]
    IN  at
\* The ring from its head on, and the sleep list.
Ring(s) ==
    LET at == Follow(s.head, [p \in Procs |-> s.proc[p].next])
        again == {k \in 1 .. MaxProcs : at[k] = s.head}
    IN  IF s.head = None THEN <<>>
        ELSE [i \in 1 .. IF again = {} THEN MaxProcs ELSE Min(again) |-> at[i - 1]]
Sleepers(s) ==
    SelectSeq([k \in 1 .. MaxProcs |->
                 Follow(s.sleep, [p \in Procs |-> s.proc[p].snext])[k - 1]],
              LAMBDA p : p # None)
in_ready_queue(s, p) == p \in ToSet(Ring(s))

ready_insert_tail(s, p) ==
    IF s.head = None
    THEN [s EXCEPT !.proc[p].next = p, !.proc[p].prev = p, !.head = p]
    ELSE LET tail == s.proc[s.head].prev
         IN  [s EXCEPT !.proc = [@ EXCEPT ![p].next = s.head, ![p].prev = tail,
                                          ![tail].next = p, ![s.head].prev = p]]

\* Mutant: the neighbours are joined and the head is left.
UnlinkKeepsHead(s, p) ==
    IF ~in_ready_queue(s, p) THEN s
    ELSE LET a == s.proc[p].prev
             b == s.proc[p].next
         IN  [s EXCEPT !.head = IF b = p THEN None ELSE @,
                       !.proc = [[[@ EXCEPT ![a].next = b] EXCEPT ![b].prev = a]
                                   EXCEPT ![p].next = None, ![p].prev = None]]
ready_unlink(s, p) ==
    IF ~in_ready_queue(s, p) THEN s
    ELSE LET a == s.proc[p].prev
             b == s.proc[p].next
         IN  [s EXCEPT !.head = IF b = p THEN None ELSE IF @ = p THEN b ELSE @,
                       !.proc = [[[@ EXCEPT ![a].next = b] EXCEPT ![b].prev = a]
                                   EXCEPT ![p].next = None, ![p].prev = None]]

scheduler_add_process(s, p) ==
    IF in_ready_queue(s, p) THEN s
    ELSE ready_insert_tail([s EXCEPT !.proc[p].st = "ready"], p)

scheduler_wakeup(s, p) ==
    LET before == {q \in ToSet(Sleepers(s)) : s.proc[q].snext = p}
        out == [s EXCEPT !.proc = [q \in Procs |->
                                     IF q \in before THEN [@[q] EXCEPT !.snext = s.proc[p].snext]
                                     ELSE @[q]],
                         !.sleep = IF @ = p THEN s.proc[p].snext ELSE @]
    IN  IF s.proc[p].st # "sleeping" THEN s
        ELSE scheduler_add_process([out EXCEPT !.proc[p].snext = None], p)

\* scheduler_tick at time t: all sleepers that are due, in the order of the list.
scheduler_tick(s, t) ==
    FoldLeft(LAMBDA r, p : IF s.proc[p].wake <= t THEN scheduler_wakeup(r, p) ELSE r,
             s, Sleepers(s))

\* Mutant: the process with the most time among those of the best priority.
PickMostRun(s) ==
    LET r == ToSet(Ring(s))
        best == {p \in r : \A q \in r : s.proc[q].pri <= s.proc[p].pri}
    IN  IF s.head = None THEN None
        ELSE IF policy = 1 THEN CHOOSE p \in best : \A q \in best : s.proc[q].cpu <= s.proc[p].cpu
        ELSE s.head
\* The choice of pick_next: the head, or of the highest priority the first in the ring
\* with the least time.
Selected(s) ==
    LET ring == Ring(s)
        best == {i \in DOMAIN ring : \A j \in DOMAIN ring :
                                        s.proc[ring[j]].pri <= s.proc[ring[i]].pri}
        least == {i \in best : \A j \in best : s.proc[ring[i]].cpu <= s.proc[ring[j]].cpu}
    IN  IF s.head = None THEN None ELSE IF policy = 1 THEN ring[Min(least)] ELSE s.head

-------------------------------------------------------------------------------
Becomes_(s) == proc' = s.proc /\ ready_queue' = s.head /\ sleep_queue' = s.sleep

\* scheduler_init.
HostedInit ==
    /\ proc = [p \in Procs |-> NoProcess]
    /\ ready_queue = None /\ sleep_queue = None /\ current_process = None
    /\ ticks = 0 /\ policy = 0 /\ waited = [p \in Procs |-> 0]

\* create_process with memory at hand.
create_process(p, pri) ==
    /\ proc[p].st = "none" /\ \A q \in Procs : q < p => proc[q].st # "none"
    /\ Becomes_(scheduler_add_process([Q EXCEPT !.proc[p].pri = pri], p))
    /\ waited' = [waited EXCEPT ![p] = 0]
    /\ UNCHANGED <<current_process, ticks, policy>>

\* process_exit of a process that is in no queue.
process_exit(s, p) == [ready_unlink(s, p) EXCEPT !.proc[p].st = "zombie"]

\* What the entry point of p does; p is running and in no queue.
Yields(s, p) == scheduler_add_process(s, p)
Sleeps(s, p, n, t) ==
    [s EXCEPT !.proc[p].st = "sleeping", !.proc[p].wake = t + n,
              !.proc[p].snext = s.sleep, !.sleep = p]

\* One round of scheduler_run.
scheduler_run ==
    LET t == ticks + 1
        woken == scheduler_tick(Q, t)
        next == Selected(woken)
        picked == [ready_unlink(woken, next) EXCEPT !.proc[next].st = "running",
                                                    !.proc[next].cpu = @ + 1]
    IN  /\ ticks < MaxTicks /\ ticks' = t
        /\ current_process' = next
        /\ IF next = None THEN Becomes_(woken)
           ELSE \/ Becomes_(Yields(picked, next))
                \/ \E n \in 0 .. MaxSleep : Becomes_(Sleeps(picked, next, n, t))
                \/ Becomes_(process_exit(picked, next))
        /\ waited' = [p \in Procs |->
                        IF p = next \/ ~in_ready_queue(woken, p) THEN 0 ELSE waited[p] + 1]
        /\ UNCHANGED policy

\* process_reap_zombies looks for zombies in the ready queue, and frees them.
process_reap_zombies ==
    LET gone == {p \in ToSet(Ring(Q)) : proc[p].st = "zombie"}
    IN  /\ Becomes_(FoldLeft(LAMBDA s, p : [ready_unlink(s, p) EXCEPT !.proc[p] = Freed],
                             Q, SetToSeq(gone)))
        /\ UNCHANGED <<current_process, ticks, policy, waited>>

\* process_join for one tick: the others do not run meanwhile, so it waits in vain for
\* a process that is not a zombie yet.
process_join(p) ==
    /\ proc[p].st \notin {"none", "freed"} /\ p # current_process
    /\ IF proc[p].st = "zombie"
       THEN Becomes_([Q EXCEPT !.proc[p] = Freed]) /\ UNCHANGED <<ticks, waited>>
       ELSE /\ ticks < MaxTicks /\ ticks' = ticks + 1
            /\ Becomes_(scheduler_tick(Q, ticks')) /\ UNCHANGED waited
    /\ UNCHANGED <<current_process, policy>>

\* kernel_reset: the heap starts afresh, so every process is gone; pids go on.
kernel_reset ==
    /\ proc' = [p \in Procs |-> IF proc[p].st = "none" THEN NoProcess ELSE Freed]
    /\ ready_queue' = None /\ sleep_queue' = None /\ current_process' = None
    /\ ticks' = 0 /\ waited' = [p \in Procs |-> 0]
    /\ UNCHANGED policy

\* The policy is chosen in the window of the hosted build.
SetPolicy ==
    /\ policy' = 1 - policy /\ waited' = [p \in Procs |-> 0]
    /\ UNCHANGED <<proc, ready_queue, sleep_queue, current_process, ticks>>

\* The commands of kernel_shell and of the window.
HostedNext ==
    \/ \E p \in Procs, pri \in Priorities : create_process(p, pri)
    \/ scheduler_run
    \/ \E p \in Procs : process_join(p)
    \/ process_reap_zombies \/ kernel_reset \/ SetPolicy

HostedSpec == HostedInit /\ [][HostedNext]_hostedVars

-------------------------------------------------------------------------------
(* Properties.                                                             *)

Alive == {p \in Procs : proc[p].st \notin {"none", "freed"}}

\* Pointers lead to processes that have not been freed.
HostedTypeOK ==
    /\ \A p \in Procs : proc[p].st \in {"none", "ready", "running", "sleeping", "zombie", "freed"}
    /\ \A p \in Alive : {proc[p].next, proc[p].prev, proc[p].snext} \subseteq Alive \cup {None}
    /\ {ready_queue, sleep_queue, current_process} \subseteq Alive \cup {None}
    /\ ticks \in 0 .. MaxTicks /\ policy \in {0, 1}

\* The state of a process and the queues agree: the ready ones are the ring, closed in
\* both directions, the sleeping ones the sleep list, and a process that has exited
\* hangs in neither.
QueuesMatchStates ==
    /\ ToSet(Ring(Q)) = {p \in Procs : proc[p].st = "ready"}
    /\ \A i \in DOMAIN Ring(Q) :
         LET r == Ring(Q)
             n == r[(i % Len(r)) + 1]
         IN  proc[r[i]].next = n /\ proc[n].prev = r[i]
    /\ ToSet(Sleepers(Q)) = {p \in Procs : proc[p].st = "sleeping"}

\* Nobody oversleeps: however many are due at the same tick, each is woken at it.
WakesInTime == \A p \in Procs : proc[p].st = "sleeping" => proc[p].wake >= ticks

\* Under the round-robin policy a ready process sees every other run at most once
\* before its turn, also when others are created, wake up and exit meanwhile.
BoundedWait == policy = 0 => \A p \in Procs : waited[p] < MaxProcs

\* Under the priority policy a process is passed over only for one of a higher
\* priority, or of the same with no more time.
PriorityRespected ==
    [][policy = 1 /\ ticks' # ticks /\ current_process' # None =>
         \A p \in Procs : waited'[p] > waited[p] =>
             LET c == current_process'
             IN  \/ proc[c].pri > proc[p].pri
                 \/ proc[c].pri = proc[p].pri /\ proc[c].cpu <= proc[p].cpu]_hostedVars

\* The queues are the processes' states, nobody oversleeps, and turns come round.
HostedSafe == HostedTypeOK /\ QueuesMatchStates /\ WakesInTime /\ BoundedWait
===============================================================================
