------------------------------- MODULE HostedHeap -------------------------------
(***************************************************************************)
(* The heap of the hosted build, Kernel/mm/mm.c.  Its lists and branches   *)
(* are those of Heap, function by function; its headers are 32 bytes, two  *)
(* units, and a remainder is split off only above three units.             *)
(* kernel_reset starts the heap afresh while allocations are held, and     *)
(* forgets them.                                                           *)
(***************************************************************************)
EXTENDS Integers, Sequences

CONSTANTS HostedUnits, HostedSizes,  \* as Units and Sizes of Heap
          HostedLive, HostedOps      \* as MaxLive and MaxOps of Heap

VARIABLES hhdr, hlist, hfree, husage, hheld, hops

hheapVars == <<hhdr, hlist, hfree, husage, hheld, hops>>

H == INSTANCE Heap WITH Header <- 2, Units <- HostedUnits, Sizes <- HostedSizes,
                        MaxLive <- HostedLive, MaxOps <- HostedOps, Lifo <- TRUE,
                        hdr <- hhdr, list <- hlist, free <- hfree, usage <- husage,
                        held <- hheld, ops <- hops

HHeapInit == H!Init

hosted_kmalloc(size) == H!Alloc(size)
hosted_kfree(i) == H!Free(i)

\* Mutant: the statistics are not cleared.
ResetKeepsStats == H!Call /\ H!Becomes(H!Fresh) /\ UNCHANGED husage /\ hheld' = <<>>
\* init_memory called by kernel_reset: nobody uses an older allocation again.
hosted_init_memory == H!Call /\ H!Becomes(H!Fresh) /\ husage' = 0 /\ hheld' = <<>>

HHeapNext ==
    \/ \E n \in HostedSizes : hosted_kmalloc(n)
    \/ \E i \in 1 .. HostedLive : hosted_kfree(i)
    \/ hosted_init_memory
    \/ UNCHANGED hheapVars

-------------------------------------------------------------------------------
(* Properties.                                                             *)

\* With headers of two units and across resets too, allocations held do not overlap
\* and are as long as was asked for, and the usage counted is theirs.
HostedAllocSound == H!TypeOK /\ H!NoOverlap /\ H!AllocFits

\* The blocks cover the heap once: split_block and coalesce lose nothing of the longer
\* headers, also after a reset that finds blocks in use.
HostedBlocksTile == H!BlocksTileHeap

\* The same of the hosted heap.
HostedHeapSafe == HostedAllocSound /\ HostedBlocksTile
===============================================================================
