----------------------------- MODULE RoundRobin ------------------------------
(***************************************************************************)
(* What the preemptive scheduler promises: the CPU goes round the          *)
(* processes in the order of their creation, none is skipped, and it does  *)
(* not move while process 0 holds it.  SchedFS implements this module.     *)
(***************************************************************************)
EXTENDS Integers

CONSTANT MaxProcs

VARIABLES cur,    \* the process that has the CPU
          n,      \* processes 0 .. n-1 exist
          held    \* process 0 has asked not to be preempted

rrVars == <<cur, n, held>>

RRInit == cur = 0 /\ n = 0 /\ held = FALSE

Admit == n < MaxProcs /\ n' = n + 1 /\ UNCHANGED <<cur, held>>

Rotate ==
    /\ ~held /\ n > 1
    /\ cur' = (cur + 1) % n
    /\ UNCHANGED <<n, held>>

Hold == cur = 0 /\ ~held /\ held' = TRUE /\ UNCHANGED <<cur, n>>
Release == cur = 0 /\ held /\ held' = FALSE /\ UNCHANGED <<cur, n>>

RRNext == Admit \/ Rotate \/ Hold \/ Release
RRSpec == RRInit /\ [][RRNext]_rrVars
==============================================================================
