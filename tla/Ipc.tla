--------------------------------- MODULE Ipc ---------------------------------
(***************************************************************************)
(* Messages between processes: the pool and the queues of                  *)
(* Kernel/drivers/driver.c and the loop of Kernel/ipc/ipc.c.               *)
(* The freestanding kernel has a core of its own: module ChessFs.          *)
(*                                                                         *)
(* A message is a slot of a static pool; a queue is a list threaded        *)
(* through the slots by their next pointers.  The payload is a text and    *)
(* whether ipc_process_message knows the type; identifiers, time stamps    *)
(* and process ids are only ever printed and are left out.                 *)
(***************************************************************************)
EXTENDS Integers, Sequences, FiniteSets, SequencesExt, FiniteSetsExt

CONSTANTS MAX_MESSAGES,
          Text,         \* payloads
          MaxPolls      \* the argument of ipc_poll: 1 .. MaxPolls

ASSUME IpcAssumption == MAX_MESSAGES \in Nat \ {0} /\ MaxPolls \in Nat \ {0}

NULL == 0
MsgSlot == 1 .. MAX_MESSAGES
Prio == 0 .. 3

VARIABLES pool, used,         \* message_pool, message_used
          queues, msg_count,  \* kernel_msg_queue
          phase,              \* "idle", "recv": loop of ipc_poll, "held": has msg
          msg, left           \* msg, and max_messages - handled

ipcVars == <<pool, used, queues, msg_count, phase, msg, left>>

Blank == [text |-> "none", known |-> FALSE, next |-> NULL]

IpcInit ==
    /\ pool = [i \in MsgSlot |-> Blank]
    /\ used = [i \in MsgSlot |-> FALSE]
    /\ queues = [p \in Prio |-> NULL]
    /\ msg_count = 0
    /\ phase = "idle" /\ msg = NULL /\ left = 0

------------------------------------------------------------------------------
\* The slots passed on a walk from h, one place more than there are slots.
Walk(h) ==
    LET at[k \in 0 .. MAX_MESSAGES] ==
          IF k = 0 THEN h ELSE IF at[k - 1] = NULL THEN NULL ELSE pool[at[k - 1]].next
    IN  at
List(h) == SelectSeq([k \in 1 .. MAX_MESSAGES |-> Walk(h)[k - 1]], LAMBDA i : i # NULL)

\* enqueue_message: m, in slot i, goes behind the last message of priority p.
enqueue_message(i, p, m) ==
    IF queues[p] = NULL
    THEN /\ queues' = [queues EXCEPT ![p] = i]
         /\ pool' = [pool EXCEPT ![i] = m]
    ELSE /\ pool' = [pool EXCEPT ![i] = m, ![Last(List(queues[p]))].next = i]
         /\ UNCHANGED queues

\* msg_send: -1 when the pool is exhausted.
msg_send(p, t, known) ==
    LET free == {i \in MsgSlot : ~used[i]}
        i == Min(free)
    IN  /\ phase = "idle" /\ free # {}
        /\ used' = [used EXCEPT ![i] = TRUE]
        /\ enqueue_message(i, p, [text |-> t, known |-> known, next |-> NULL])
        /\ msg_count' = msg_count + 1
        /\ UNCHANGED <<phase, msg, left>>

\* The senders fix the priority by the kind of message.  SendOther is the rest of
\* what the exported msg_send accepts: any priority, and a payload the receiver
\* does not know.  Nothing in the tree calls it so today.
chess_send_move(t) == msg_send(2, t, TRUE)    \* also draw offer, draw and resign accept
chess_send_state(t) == msg_send(1, t, TRUE)
chess_send_resign(t) == msg_send(0, t, TRUE)
SendOther(p, t) == msg_send(p, t, FALSE)

ipc_poll(n) ==
    /\ phase = "idle"
    /\ phase' = "recv" /\ left' = n
    /\ UNCHANGED <<pool, used, queues, msg_count, msg>>

\* Mutant: the lowest priority first.
LowestFirst(p) == queues[p] # NULL /\ \A q \in Prio : q < p => queues[q] = NULL
HighestFirst(p) == queues[p] # NULL /\ \A q \in Prio : q > p => queues[q] = NULL

\* msg_recv from priority p.
msg_recv(p) ==
    /\ phase = "recv" /\ left > 0 /\ HighestFirst(p)
    /\ msg' = queues[p]
    /\ queues' = [queues EXCEPT ![p] = pool[queues[p]].next]
    /\ pool' = [pool EXCEPT ![queues[p]].next = NULL]
    /\ msg_count' = IF msg_count > 0 THEN msg_count - 1 ELSE 0
    /\ phase' = "held"
    /\ UNCHANGED <<used, left>>

\* The loop ends: enough handled, or nothing left.
PollReturns ==
    /\ phase = "recv" /\ (left = 0 \/ \A p \in Prio : queues[p] = NULL)
    /\ phase' = "idle" /\ left' = 0
    /\ UNCHANGED <<pool, used, queues, msg_count, msg>>

\* Mutant: a message nobody handles is not freed.
FreeHandledOnly ==
    /\ phase = "held"
    /\ left' = IF pool[msg].known THEN left - 1 ELSE left
    /\ used' = IF pool[msg].known THEN [used EXCEPT ![msg] = FALSE] ELSE used
    /\ msg' = NULL /\ phase' = "recv"
    /\ UNCHANGED <<pool, queues, msg_count>>

\* ipc_process_message counts a known type; msg_free in any case.
ProcessAndFree ==
    /\ phase = "held"
    /\ left' = IF pool[msg].known THEN left - 1 ELSE left
    /\ used' = [used EXCEPT ![msg] = FALSE]
    /\ msg' = NULL /\ phase' = "recv"
    /\ UNCHANGED <<pool, queues, msg_count>>

Send(t) ==
    \/ chess_send_move(t) \/ chess_send_state(t) \/ chess_send_resign(t)
    \/ \E p \in Prio : SendOther(p, t)
Loop == PollReturns \/ ProcessAndFree \/ \E p \in Prio : msg_recv(p)
IpcNext == (\E t \in Text : Send(t)) \/ (\E n \in 1 .. MaxPolls : ipc_poll(n)) \/ Loop

IpcSpec == IpcInit /\ [][IpcNext]_ipcVars
\* There is no polling loop of its own: the callers poll after they send
\* (kernel.c:24, 164 and 170, gui_main.c:182 to 198), so a poll follows every send.
IpcFairSpec ==
    IpcSpec /\ WF_ipcVars(Loop) /\ WF_ipcVars(\E n \in 1 .. MaxPolls : ipc_poll(n))

------------------------------------------------------------------------------
(* Properties.                                                             *)

InHand == IF msg = NULL THEN {} ELSE {msg}
Queued(p) == ToSet(List(queues[p]))

\* The counter shown to the user is the number of messages really waiting.
IpcTypeOK ==
    /\ used \in [MsgSlot -> BOOLEAN] /\ queues \in [Prio -> MsgSlot \cup {NULL}]
    /\ \A i \in MsgSlot : pool[i].next \in MsgSlot \cup {NULL}
    /\ msg \in MsgSlot \cup {NULL} /\ left \in 0 .. MaxPolls
    /\ phase \in {"idle", "recv", "held"}
    /\ msg_count = FoldSet(LAMBDA p, n : n + Len(List(queues[p])), 0, Prio)

\* No slot is lost or shared: a slot is in use exactly when it is in one queue or
\* in the receiver's hand, and every list ends.
PoolAccounted ==
    /\ {i \in MsgSlot : used[i]} = InHand \cup UNION {Queued(p) : p \in Prio}
    /\ \A p \in Prio : Walk(queues[p])[MAX_MESSAGES] = NULL /\ Queued(p) \cap InHand = {}
    /\ \A p, q \in Prio : p # q => Queued(p) \cap Queued(q) = {}

Content(i) == <<pool[i].text, pool[i].known>>
Mail == INSTANCE Mailbox WITH
            Places <- MAX_MESSAGES, Message <- Text \X BOOLEAN,
            box <- [p \in Prio |-> [k \in 1 .. Len(List(queues[p])) |->
                                      Content(List(queues[p])[k])]],
            taken <- IF msg = NULL THEN <<>> ELSE <<Content(msg)>>

\* Through every reuse of slots and rethreading of lists the core is a mailbox:
\* nothing is lost, duplicated or changed, the highest priority goes first and
\* each priority is first in first out.
ImplementsMailbox == Mail!MailSpec

\* An exhausted pool, which makes every sender fail, does not stay exhausted.
PoolRecovers == (\A i \in MsgSlot : used[i]) ~> (\E i \in MsgSlot : ~used[i])

==============================================================================
