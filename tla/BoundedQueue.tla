---------------------------- MODULE BoundedQueue -----------------------------
(***************************************************************************)
(* What an input queue promises: events come out in the order they went    *)
(* in, at most Capacity of them wait, an event that finds the queue full   *)
(* is dropped, and the event a handler has taken does not change under it. *)
(* EventRing implements this module.                                       *)
(***************************************************************************)
EXTENDS Naturals, Sequences

CONSTANTS Capacity, Items, Nothing

VARIABLES q,      \* the events waiting
          hand    \* the event being handled, or Nothing

Arrive(e) == Len(q) < Capacity /\ q' = Append(q, e) /\ UNCHANGED hand
Take == hand = Nothing /\ q # <<>> /\ hand' = Head(q) /\ q' = Tail(q)
Finish == hand # Nothing /\ hand' = Nothing /\ UNCHANGED q

QInit == q = <<>> /\ hand = Nothing
QNext == (\E e \in Items : Arrive(e)) \/ Take \/ Finish
QSpec == QInit /\ [][QNext]_<<q, hand>>
==============================================================================
