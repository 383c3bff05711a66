------------------------------- MODULE Mailbox -------------------------------
(* What the message core promises: four first-in first-out queues that share *)
(* a fixed number of places, served from the highest priority down.  A       *)
(* message keeps its place until its receiver lets go of it.                 *)
EXTENDS Integers, Sequences

CONSTANTS Places, Message
VARIABLES box,     \* the messages waiting at each priority
          taken    \* the message the receiver holds, as a sequence of at most one

Priority == 0 .. 3
Waiting == Len(box[0]) + Len(box[1]) + Len(box[2]) + Len(box[3])

MailInit == box = [p \in Priority |-> <<>>] /\ taken = <<>>

Post(p, m) ==
    /\ Waiting + Len(taken) < Places
    /\ box' = [box EXCEPT ![p] = Append(@, m)]
    /\ UNCHANGED taken

Collect(p) ==
    /\ taken = <<>> /\ box[p] # <<>>
    /\ \A q \in Priority : q > p => box[q] = <<>>
    /\ taken' = <<Head(box[p])>>
    /\ box' = [box EXCEPT ![p] = Tail(@)]

LetGo == taken # <<>> /\ taken' = <<>> /\ UNCHANGED box

MailNext == LetGo \/ \E p \in Priority : Collect(p) \/ \E m \in Message : Post(p, m)
MailSpec == MailInit /\ [][MailNext]_<<box, taken>>
==============================================================================
