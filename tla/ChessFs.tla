-------------------------------- MODULE ChessFs --------------------------------
(***************************************************************************)
(* The driver core of the freestanding kernel, Kernel/drivers/driver_fs.c: *)
(* its message pool and four queues, and the list of drivers.  It differs  *)
(* from the hosted core (module Ipc) in its pool, in the guard on the      *)
(* priority, and in that the payload is always a chess message.            *)
(*                                                                         *)
(* A queue is the sequence of its pool slots; how such lists are threaded  *)
(* through the slots is module Ipc's subject.  A move is a sequence of     *)
(* character codes.  Boot code calls it all before a second process        *)
(* exists.                                                                 *)
(***************************************************************************)
EXTENDS Integers, Sequences, FiniteSets, SequencesExt, FiniteSetsExt

CONSTANTS FS_MESSAGES,   \* MAX_MESSAGES
          MOVE_STR,      \* sizeof(move_str)
          Moves,         \* moves and positions sent
          MaxSends       \* bound on messages

ASSUME ChessFsAssumption ==
    /\ {FS_MESSAGES, MOVE_STR} \subseteq Nat \ {0} /\ MaxSends \in Nat
    /\ \A m \in Moves : m \in Seq(0 .. 255)

VARIABLES g_pool, g_used, g_queues, g_count,
          g_next_id,
          polling,        \* messages ipc_fs_poll may still handle, 0 outside it
          held,           \* the message it has taken, 0 for none
          drivers         \* g_driver_list, front first

chessVars == <<g_pool, g_used, g_queues, g_count, g_next_id, polling, held, drivers>>

FsSlots == 1 .. FS_MESSAGES
NUM_QUEUES == 4
FsPrio == 0 .. NUM_QUEUES - 1
BlankMsg == [id |-> 0, kind |-> "none", prio |-> 0, move |-> <<>>, score |-> 0]

ChessInit ==
    /\ g_pool = [i \in FsSlots |-> BlankMsg] /\ g_used = {} /\ g_count = 0 /\ g_next_id = 0
    /\ g_queues = [p \in FsPrio |-> <<>>] /\ polling = 0 /\ held = 0 /\ drivers = <<>>

-------------------------------------------------------------------------------
_copy_move(m) == SubSeq(m, 1, Min({Len(m), MOVE_STR - 1}))
_score_move(m) == (FoldLeft(LAMBDA a, c : a + c, 0, m) % 101) - 50

\* The first free slot.
_alloc_msg == Min(FsSlots \ g_used)

_enqueue(i, p) == g_queues' = [g_queues EXCEPT ![p] = Append(@, i)] /\ g_count' = g_count + 1

\* _send_chess: nothing when the pool is exhausted.
_send_chess(kind, p, m, score) ==
    /\ polling = 0 /\ drivers # <<>> /\ g_next_id < MaxSends /\ UNCHANGED <<polling, held, drivers>>
    /\ IF g_used = FsSlots THEN UNCHANGED <<g_pool, g_used, g_queues, g_count, g_next_id>>
       ELSE /\ g_used' = g_used \cup {_alloc_msg} /\ g_next_id' = g_next_id + 1
            /\ g_pool' = [g_pool EXCEPT ![_alloc_msg] =
                            [id |-> g_next_id + 1, kind |-> kind, prio |-> p,
                             move |-> _copy_move(m), score |-> score]]
            /\ _enqueue(_alloc_msg, p)

ipc_chess_send_move(m) == _send_chess("move", 2, m, _score_move(m))
ipc_chess_send_state(m) == _send_chess("state", 1, m, 0)
ipc_chess_send_draw_offer == _send_chess("draw offer", 2, <<>>, 0)
ipc_chess_send_draw_accept == _send_chess("draw accept", 2, <<>>, 0)
ipc_chess_send_resign == _send_chess("resign", 0, <<>>, 0)
ipc_chess_send_resign_accept == _send_chess("resign accept", 2, <<>>, 0)

ipc_fs_poll(n) ==
    /\ polling = 0 /\ drivers # <<>> /\ polling' = n
    /\ UNCHANGED <<g_pool, g_used, g_queues, g_count, g_next_id, held, drivers>>

\* Mutant: the first queue that has something, from the bottom.
LowestQueue == Min({p \in FsPrio : g_queues[p] # <<>>})
HighestQueue == Max({p \in FsPrio : g_queues[p] # <<>>})

\* _dequeue_highest; without a message the poll ends.
_dequeue_highest ==
    /\ polling > 0 /\ held = 0
    /\ IF \A p \in FsPrio : g_queues[p] = <<>>
       THEN polling' = 0 /\ UNCHANGED <<g_queues, g_count, held>>
       ELSE /\ held' = Head(g_queues[HighestQueue])
            /\ g_queues' = [g_queues EXCEPT ![HighestQueue] = Tail(@)]
            /\ g_count' = IF g_count > 0 THEN g_count - 1 ELSE g_count
            /\ UNCHANGED polling
    /\ UNCHANGED <<g_pool, g_used, g_next_id, drivers>>

\* The kinds that are handled; another one is freed without being counted.
_dispatch(msg) ==
    msg.kind \in {"move", "state", "draw offer", "draw accept", "resign", "resign accept"}

_free_msg ==
    /\ held # 0 /\ held' = 0 /\ g_used' = g_used \ {held}
    /\ polling' = IF _dispatch(g_pool[held]) THEN polling - 1 ELSE polling
    /\ UNCHANGED <<g_pool, g_queues, g_count, g_next_id, drivers>>

\* drivers_init_fs: the four drivers, each in front of the list, and an empty pool.
driver_register(l, d) == <<d>> \o l
drivers_init_fs ==
    /\ drivers = <<>>
    /\ drivers' = FoldLeft(driver_register, <<>>, <<"serial", "vga", "keyboard", "timer">>)
    /\ UNCHANGED <<g_pool, g_used, g_queues, g_count, g_next_id, polling, held>>
\* ata_init registers itself later.
ata_init ==
    /\ Len(drivers) = 4 /\ polling = 0 /\ drivers' = driver_register(drivers, "ata")
    /\ UNCHANGED <<g_pool, g_used, g_queues, g_count, g_next_id, polling, held>>

ChessNext ==
    \/ drivers_init_fs \/ ata_init
    \/ \E m \in Moves : ipc_chess_send_move(m) \/ ipc_chess_send_state(m)
    \/ ipc_chess_send_draw_offer \/ ipc_chess_send_draw_accept
    \/ ipc_chess_send_resign \/ ipc_chess_send_resign_accept
    \/ \E n \in 1 .. 2 : ipc_fs_poll(n)
    \/ _dequeue_highest \/ _free_msg

-------------------------------------------------------------------------------
(* Properties.                                                             *)

FsQueued == UNION {ToSet(g_queues[p]) : p \in FsPrio}

\* Every slot in use is in one queue or in hand, g_count is the number waiting, and
\* a move's score and text fit their fields.
ChessTypeOK ==
    /\ g_used = FsQueued \cup (IF held = 0 THEN {} ELSE {held})
    /\ g_count = FoldSet(LAMBDA p, n : n + Len(g_queues[p]), 0, FsPrio)
    /\ \A i \in FsSlots : g_pool[i].score \in -128 .. 127 /\ Len(g_pool[i].move) < MOVE_STR

FsMessage == (1 .. MaxSends) \X ({<<>>} \cup {_copy_move(m) : m \in Moves})
MessageIn(i) == <<g_pool[i].id, g_pool[i].move>>
FsMail == INSTANCE Mailbox WITH
              Places <- FS_MESSAGES,
              Message <- FsMessage,
              box <- [p \in FsPrio |-> [k \in DOMAIN g_queues[p] |-> MessageIn(g_queues[p][k])]],
              taken <- IF held = 0 THEN <<>> ELSE <<MessageIn(held)>>

\* The freestanding core keeps the same promise as the hosted one: no message is lost,
\* changed or handled twice, the highest priority goes first and equals in order.
FsImplementsMailbox == FsMail!MailSpec
===============================================================================
