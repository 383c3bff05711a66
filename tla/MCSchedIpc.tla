------------------------------ MODULE MCSchedIpc ------------------------------
(***************************************************************************)
(* The scheduler, the event rings and the two message cores.  They share   *)
(* no variable: part says which one moves.                                 *)
(*                                                                         *)
(* Scheduler: the table size and time slice of sched_fs.c, one process too *)
(* many for the table and two program launches.                            *)
(* Ring: four slots and two events, so that it is full, empty and wrapped. *)
(* Messages: three slots for the hosted core, enough for lists of two with *)
(* a message in hand, for a full pool, and for slots freed out of order;   *)
(* two for the freestanding core, whose messages are numbered.             *)
(***************************************************************************)
EXTENDS SchedFS, EventRing, Ipc, ChessFs

VARIABLE part

\* A move that fits and one that is cut, with bytes whose sum passes 255.
MCMoves == {<<101, 50>>, <<250, 250, 250>>}

MCInit ==
    /\ part \in {"sched", "ring", "hosted", "freestanding"}
    /\ Init /\ RingInit /\ IpcInit /\ ChessInit

MCNext ==
    /\ UNCHANGED part
    /\ \/ part = "sched" /\ Next /\ UNCHANGED <<ringVars, ipcVars, chessVars>>
       \/ part = "ring" /\ RingNext /\ UNCHANGED <<vars, ipcVars, chessVars>>
       \/ part = "hosted" /\ IpcNext /\ UNCHANGED <<vars, ringVars, chessVars>>
       \/ part = "freestanding" /\ ChessNext /\ UNCHANGED <<vars, ringVars, ipcVars>>

\* The fairness of FairSpec, RingFairSpec and IpcFairSpec, for the part that moves.
MCFair ==
    /\ WF_vars(part = "sched" /\ TimerInterrupt) /\ WF_vars(part = "sched" /\ KmainStep)
    /\ WF_ringVars(part = "ring" /\ Consumer)
    /\ WF_ipcVars(part = "hosted" /\ Loop)
    /\ WF_ipcVars(part = "hosted" /\ \E n \in 1 .. MaxPolls : ipc_poll(n))

MCSpec == MCInit /\ [][MCNext]_<<part, vars, ringVars, ipcVars, chessVars>> /\ MCFair

\* In both message cores every slot is in one list or queue or in hand: sends, receives
\* and frees in any order lose none and thread none twice.
IpcSafe == IpcTypeOK /\ PoolAccounted /\ ChessTypeOK
===============================================================================
