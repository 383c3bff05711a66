--------------------------------- MODULE Heap ---------------------------------
(***************************************************************************)
(* The kernel heap, Kernel/mm/mm_fs.c.  Kernel/mm/mm.c has the same lists  *)
(* and branches for the hosted build: see HostedHeap.                      *)
(*                                                                         *)
(* Sizes are rounded to 16 bytes, which is also sizeof(block_t) on the     *)
(* 32-bit kernel, so one unit here is 16 bytes: a block at address a has   *)
(* its header from unit a on and size units of payload after it.  The      *)
(* 32-bit arena ends in a further 8 bytes, left out.  Listed blocks are    *)
(* threaded by next and prev, blocks of at most 256 bytes are kept by size *)
(* class once freed, and a block in use is on the block list.  Payload     *)
(* contents are left out.  krealloc has no caller, and kcalloc is kmalloc  *)
(* with the payload cleared.                                               *)
(***************************************************************************)
EXTENDS Integers, Sequences, FiniteSets, SequencesExt, FiniteSetsExt

CONSTANTS Units,      \* KERNEL_HEAP_SIZE in units
          Header,     \* sizeof(block_t) in units: 1
          Sizes,      \* sizes asked for, in units
          MaxLive,    \* bound on allocations held at a time
          MaxOps,     \* bound on calls
          Lifo        \* do callers free in the reverse order of allocation?

NULL == 0
Classes == <<1, 2, 4, 8, 16>>        \* size_classes, without the unused 8 bytes

VARIABLES hdr,       \* the block headers, by address
          list,      \* block_list
          free,      \* free_lists
          usage,     \* stats.current_usage
          held,      \* allocations not yet freed, oldest first
          ops

vars == <<hdr, list, free, usage, held, ops>>
heap == [hdr |-> hdr, list |-> list, free |-> free]

Becomes(s) == hdr' = s.hdr /\ list' = s.list /\ free' = s.free

------------------------------------------------------------------------------
(* The helpers, as functions of the heap s.                                *)

\* block->next = x and block->prev = x, nothing when block is NULL.
SetNext(s, b, x) == IF b = NULL THEN s ELSE [s EXCEPT !.hdr[b].next = x]
SetPrev(s, b, x) == IF b = NULL THEN s ELSE [s EXCEPT !.hdr[b].prev = x]

block_list_remove(s, b) ==
    LET p == s.hdr[b].prev
        n == s.hdr[b].next
        out == IF p # NULL THEN SetNext(s, p, n) ELSE [s EXCEPT !.list = n]
    IN  SetPrev(SetNext(SetPrev(out, n, p), b, NULL), b, NULL)

block_list_insert_front(s, b) ==
    [SetPrev(SetNext(SetPrev(s, b, NULL), b, s.list), s.list, b)
        EXCEPT !.list = b]

\* size_class_index: 0 when the size is above every class.
size_class_index(size) ==
    LET fit == {i \in DOMAIN Classes : size <= Classes[i]}
    IN  IF fit = {} THEN 0 ELSE Min(fit)

free_list_push(s, c, b) ==
    [SetPrev(SetPrev(SetNext(s, b, s.free[c]), b, NULL), s.free[c], b)
        EXCEPT !.free[c] = b]

free_list_pop(s, c) ==
    LET n == s.hdr[s.free[c]].next
    IN  SetPrev([s EXCEPT !.free[c] = n], n, NULL)

split_block(s, b, size) ==
    LET at == b + Header + size
        new == [size |-> s.hdr[b].size - size - Header, used |-> FALSE,
                next |-> s.hdr[b].next, prev |-> b]
    IN  IF s.hdr[b].size - size <= Header + 1 THEN s
        ELSE SetPrev([s EXCEPT !.hdr[at] = new, !.hdr[b].size = size,
                               !.hdr[b].next = at], new.next, at)

\* The last part of coalesce: take in the blocks after b on the list.
RECURSIVE TakeNext(_, _)
TakeNext(s, b) ==
    LET n == s.hdr[b].next
    IN  IF n = NULL \/ s.hdr[n].used THEN s
        ELSE TakeNext(SetPrev([s EXCEPT !.hdr[b].size = @ + Header + s.hdr[n].size,
                                        !.hdr[b].next = s.hdr[n].next],
                              s.hdr[n].next, b), b)

\* coalesce: b takes in the block before it on the list, and stays where it is.
coalesce(s, b) ==
    LET p == s.hdr[b].prev
        back == IF p = NULL \/ s.hdr[p].used THEN s
                ELSE SetNext([s EXCEPT !.hdr[b].size = @ + Header + s.hdr[p].size,
                                       !.hdr[b].prev = s.hdr[p].prev],
                             s.hdr[p].prev, b)
    IN  TakeNext(back, b)

\* The block list from the front.  A call adds at most one block to the first one.
ListOf(s) ==
    LET at[k \in 0 .. MaxOps] ==
          IF k = 0 THEN s.list ELSE IF at[k - 1] = NULL THEN NULL ELSE s.hdr[at[k - 1]].next
    IN  SelectSeq([k \in 1 .. MaxOps + 1 |-> at[k - 1]], LAMBDA b : b # NULL)

------------------------------------------------------------------------------
\* init_memory: one free block.
Fresh ==
    [hdr |-> [a \in 1 .. Units |->
                [size |-> IF a = 1 THEN Units - Header ELSE 0,
                 used |-> FALSE, next |-> NULL, prev |-> NULL]],
     list |-> 1, free |-> [c \in DOMAIN Classes |-> NULL]]

Init ==
    /\ hdr = Fresh.hdr /\ list = Fresh.list /\ free = Fresh.free
    /\ usage = 0 /\ held = <<>> /\ ops = 0

\* kmalloc on heap s: the block and the heap after, or NULL.
kmalloc(s, size) ==
    LET c == size_class_index(size)
        fits == SelectSeq(ListOf(s), LAMBDA b : ~s.hdr[b].used /\ s.hdr[b].size >= size)
    IN  IF c # 0 /\ s.free[c] # NULL
        THEN [at |-> s.free[c],
              s |-> block_list_insert_front(
                      [free_list_pop(s, c) EXCEPT !.hdr[s.free[c]].used = TRUE],
                      s.free[c])]
        ELSE IF fits # <<>>
        THEN [at |-> fits[1],
              s |-> [split_block(s, fits[1], size) EXCEPT !.hdr[fits[1]].used = TRUE]]
        ELSE [at |-> NULL, s |-> s]

\* kfree on heap s of a block in use.
kfree(s, b) ==
    LET m == coalesce([s EXCEPT !.hdr[b].used = FALSE], b)
        c == size_class_index(m.hdr[b].size)
    IN  IF c = 0 THEN m ELSE free_list_push(block_list_remove(m, b), c, b)

\* An empty block list is initialised again before anything else.
Ready == IF list = NULL THEN Fresh ELSE heap
Call == ops < MaxOps /\ ops' = ops + 1

Alloc(size) ==
    LET r == kmalloc(Ready, size)
    IN  /\ Len(held) < MaxLive /\ Call
        /\ Becomes(r.s)
        /\ IF r.at = NULL THEN UNCHANGED <<held, usage>>
           ELSE /\ held' = Append(held, [at |-> r.at, asked |-> size])
                /\ usage' = (IF list = NULL THEN 0 ELSE usage) + r.s.hdr[r.at].size

Free(i) ==
    /\ Call /\ i \in DOMAIN held
    /\ Lifo => i = Len(held)
    /\ Becomes(kfree(heap, held[i].at))
    /\ usage' = usage - hdr[held[i].at].size
    /\ held' = RemoveAt(held, i)

\* get_memory_stats and print_memory_stats.
Look == UNCHANGED vars

Next ==
    \/ \E n \in Sizes : Alloc(n)
    \/ \E i \in 1 .. MaxLive : Free(i)
    \/ Look

Spec == Init /\ [][Next]_vars

------------------------------------------------------------------------------
(* Properties.                                                             *)

Extent(b) == b .. b + Header - 1 + hdr[b].size
ClassList(c) == ListOf([heap EXCEPT !.list = free[c]])
Blocks == ToSet(ListOf(heap)) \cup UNION {ToSet(ClassList(c)) : c \in DOMAIN Classes}
Live == {held[i].at : i \in DOMAIN held}

\* Pointers are addresses of headers, and usage is what is in use.
TypeOK ==
    /\ \A a \in DOMAIN hdr : {hdr[a].next, hdr[a].prev} \subseteq 0 .. Units
    /\ list \in 0 .. Units /\ free \in [DOMAIN Classes -> 0 .. Units]
    /\ usage = FoldSet(LAMBDA b, n : n + hdr[b].size, 0, Live)

\* Memory that kmalloc has handed out and kfree has not taken back never overlaps
\* other such memory and never leaves the heap.
NoOverlap ==
    /\ \A b \in Live : Extent(b) \subseteq 1 .. Units
    /\ \A b, d \in Live : b # d => Extent(b) \cap Extent(d) = {}

\* A block kmalloc returns is at least as long as was asked for, and stays so.
AllocFits == \A i \in DOMAIN held : hdr[held[i].at].size >= held[i].asked

\* The blocks on block_list and free_lists cover the heap without gap or overlap:
\* split_block and coalesce lose no memory and count none twice.
BlocksTileHeap ==
    /\ UNION {Extent(b) : b \in Blocks} = 1 .. Units
    /\ \A b, d \in Blocks : b # d => Extent(b) \cap Extent(d) = {}
===============================================================================
