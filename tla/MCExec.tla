-------------------------------- MODULE MCExec --------------------------------
(* The programs the loader is given: one segment anywhere, also past the end *)
(* of user space and over the stack, or two that share a page, touch or are  *)
(* apart, or an alignment that is no power of two, or a header that is       *)
(* wrong.  Pages have two bytes, so that a segment can begin inside one;     *)
(* there are three tables of user pages with a stack of one page, room above *)
(* it, and seven frames, which two large programs exceed.                    *)
EXTENDS Exec

Seg(v, m, fz, o, w) ==
    [load |-> TRUE, vaddr |-> v, memsz |-> m, filesz |-> fz, offset |-> o,
     w |-> w, x |-> ~w, align |-> 2]
File(phs, entry) ==
    [magic |-> TRUE, size |-> 8, phentsize |-> 2, phoff |-> 2, phs |-> phs, entry |-> entry]
OneSegment ==
    {File(<<Seg(v, m, IF m > 1 THEN m - 1 ELSE m, v % 2, FALSE)>>, v) :
        v \in {0, 1, 2, 7, 17, 20, 23}, m \in {1, 2, 4, 31}}
TwoSegments ==
    {File(<<Seg(2, m, m, 4, FALSE), Seg(v, 2, 1, 4 + (v % 2), TRUE)>>, 2) :
        m \in {1, 3}, v \in {3, 4, 5, 17, 22}}
OddAlignment == {File(<<[Seg(2, 1, 1, 4, FALSE) EXCEPT !.align = a]>>, 2) : a \in {0, 1, 4, 6}}
OddHeaders ==
    {[File(<<Seg(2, 1, 1, 4, FALSE)>>, e) EXCEPT !.phoff = o, !.size = z] :
        e \in {2, 3}, o \in {2, 7}, z \in {1, 8}}
MCPrograms == OneSegment \cup TwoSegments \cup OddAlignment \cup OddHeaders

===============================================================================
