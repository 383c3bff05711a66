------------------------------ MODULE EventRing ------------------------------
(***************************************************************************)
(* The ring that carries input from an interrupt handler to the code that  *)
(* waits for it.  Three rings of the kernel have this shape: g_key_queue   *)
(* and g_mouse_queue (Kernel/tui/tui_wm.c) and g_keybuf                    *)
(* (Kernel/drivers/keyboard.c).                                            *)
(*                                                                         *)
(* The two queues of the window manager are the delicate ones:             *)
(* key_queue_get returns a POINTER into the ring and has already moved the *)
(* tail past it, so tui_run reads the event from a slot that the interrupt *)
(* handler may think is free.  The consumer runs with interrupts enabled;  *)
(* a put, inside an interrupt gate, is one step.  g_queue_overflow is a    *)
(* statistic and is left out.                                              *)
(***************************************************************************)
EXTENDS Integers, Sequences

CONSTANTS SIZE,     \* KEY_QUEUE_SIZE, MOUSE_QUEUE_SIZE or KEYBUF_SIZE
          Event,    \* what an interrupt can post
          NoEvent   \* the content of a slot never written

ASSUME RingAssumption == SIZE \in Nat /\ SIZE >= 2 /\ NoEvent \notin Event

Index == 0 .. SIZE - 1

VARIABLES slot, head, tail,
          stage,  \* the consumer: "idle", inside get ("got"), handling ("use")
          ev      \* the slot its pointer names

ringVars == <<slot, head, tail, stage, ev>>

RingInit ==
    /\ slot = [i \in Index |-> NoEvent]
    /\ head = 0
    /\ tail = 0
    /\ stage = "idle"
    /\ ev = 0

after(i) == (i + 1) % SIZE

key_queue_full == after(head) = tail

key_queue_empty == head = tail

\* Mutant: a full ring makes room by dropping the oldest event.
PutDropsOldest(e) ==
    /\ slot' = [slot EXCEPT ![head] = e]
    /\ head' = after(head)
    /\ tail' = IF key_queue_full THEN after(tail) ELSE tail
    /\ UNCHANGED <<stage, ev>>

\* key_queue_put: an interrupt posts e; a full ring drops it.
key_queue_put(e) ==
    /\ ~key_queue_full
    /\ slot' = [slot EXCEPT ![head] = e]
    /\ head' = after(head)
    /\ UNCHANGED <<tail, stage, ev>>

\* key_queue_get: the test and the pointer ...
GetPointer ==
    /\ stage = "idle" /\ ~key_queue_empty
    /\ ev' = tail
    /\ stage' = "got"
    /\ UNCHANGED <<slot, head, tail>>

\* Mutant: one event empties the ring.
AdvanceToHead ==
    /\ stage = "got"
    /\ tail' = head
    /\ stage' = "use"
    /\ UNCHANGED <<slot, head, ev>>
\* ... and the new tail.
GetAdvance ==
    /\ stage = "got"
    /\ tail' = after(tail)
    /\ stage' = "use"
    /\ UNCHANGED <<slot, head, ev>>

\* The body of the loop in tui_run is done with *kev.
Handled ==
    /\ stage = "use"
    /\ stage' = "idle"
    /\ UNCHANGED <<slot, head, tail, ev>>

Consumer == GetPointer \/ GetAdvance \/ Handled
RingNext == (\E e \in Event : key_queue_put(e)) \/ Consumer

RingSpec == RingInit /\ [][RingNext]_ringVars

\* The boot thread returns to tui_run's loop again and again.
RingFairSpec == RingSpec /\ WF_ringVars(Consumer)

------------------------------------------------------------------------------
\* The indices of the ring stay inside the array.
RingTypeOK ==
    /\ slot \in [Index -> Event \cup {NoEvent}]
    /\ head \in Index
    /\ tail \in Index
    /\ stage \in {"idle", "got", "use"}
    /\ ev \in Index

\* The event a pointer returned by key_queue_get names is not overwritten while
\* tui_run still reads it, however many interrupts post in the meantime: the
\* slot the full test keeps free is exactly that one.
EventInHandStable == [][stage # "idle" => slot'[ev] = slot[ev]]_ringVars

Waiting == (head - tail) % SIZE
Contents == [i \in 1 .. Waiting |-> slot[(tail + i - 1) % SIZE]]
Queue == INSTANCE BoundedQueue WITH
    Capacity <- SIZE - 1, Items <- Event, Nothing <- NoEvent,
    q <- IF stage = "got" THEN Tail(Contents) ELSE Contents,
    hand <- IF stage = "idle" THEN NoEvent ELSE slot[ev]
\* The ring is a FIFO of SIZE - 1 events with one more in the handler's hand.
ImplementsQueue == Queue!QSpec

Occupied(i) == (i - tail) % SIZE < Waiting
\* Every event that a put accepted is handled, even if interrupts never stop.
EveryEventHandled ==
    \A i \in Index : Occupied(i) ~> (stage = "use" /\ ev = i)
==============================================================================
