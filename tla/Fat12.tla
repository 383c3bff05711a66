-------------------------------- MODULE Fat12 --------------------------------
(***************************************************************************)
(* The FAT12 driver (Kernel/fs/fat12.c) above a disk that can fail a       *)
(* sector write, and a machine that can lose power at any moment.          *)
(*                                                                         *)
(* The driver works on copies in memory (fs->fat, fs->root_dir) and        *)
(* flushes them: data clusters first, then both copies of the FAT, then    *)
(* the root directory.  A step that only changes memory is one step; every *)
(* write to the disk is a step of its own that can fail.  A lost machine   *)
(* reboots, and fat12_mount reads the first FAT and the root directory.    *)
(*                                                                         *)
(* The modelled slots and clusters are the ones mkimage leaves free: those *)
(* of KERNEL.BIN are never free.  The size of a file is counted in         *)
(* clusters, and the content of the i-th cluster written with text v is    *)
(* <<v, i>>.  Each copy of the FAT, and the root directory, fits one       *)
(* sector.  Names are 8.3 names already formatted.                         *)
(***************************************************************************)
EXTENDS Integers, Sequences, FiniteSets, FiniteSetsExt

CONSTANTS Names, Text,     \* file names, and texts a file may be written with
          NSlots,          \* entries of the root directory
          MaxCluster,      \* fat12_max_cluster: the first illegal number
          MaxSize,         \* clusters in the largest file
          MaxCalls,        \* bound on calls that change the volume
          MaxFaults,       \* bound on failed writes and power losses
          ReuseStaleSlot   \* may a write create a file in a deleted entry that
                           \* still names a cluster?  see fat12_write_file

ASSUME Fat12Assumption ==
    /\ NSlots \in Nat \ {0} /\ MaxCluster \in 3 .. 4079   \* 0xFEF: clear of the sentinels
    /\ MaxSize \in Nat /\ MaxCalls \in Nat /\ MaxFaults \in Nat
    /\ ReuseStaleSlot \in BOOLEAN

Cluster == 2 .. MaxCluster - 1
FREE == 0
EOC == 4095                       \* 0xFFF
NoCluster == 0
Slots == 1 .. NSlots
\* e[0] is 0x00, 0xE5 or the first character of a name.
EmptyEntry == [st |-> "end", name |-> "none", first |-> 0, size |-> 0]
Copies == {1, 2}

VARIABLES fat, root,        \* fs->fat and fs->root_dir
          dfat, droot,      \* the two FATs and the root directory on disk
          data,             \* the data clusters on disk
          pc, op,           \* where the running call is, and its locals
          want,             \* what each name should read as, in this session
          durable,          \* the same, when the last call returned success
          clean,            \* disk and memory agreed when the last call returned
          crashed, faults, calls

mem == <<fat, root>>
disk == <<dfat, droot, data>>
ghosts == <<want, durable, clean, crashed, faults, calls>>
vars == <<mem, disk, pc, op, ghosts>>

Absent == [kind |-> "absent"]
IdleOp == [name |-> "none", off |-> 1, created |-> FALSE, first |-> 0,
           size |-> 0, text |-> "none", k |-> 1, kind |-> "none",
           root |-> FALSE]
\* The locals of a call that has found its entry.
Locals(kind, nm, off, created, first, n, v) ==
    [name |-> nm, off |-> off, created |-> created, first |-> first, size |-> n,
     text |-> v, k |-> 1, kind |-> kind, root |-> TRUE]

------------------------------------------------------------------------------
(* The helpers, on a FAT f and a root directory r.                         *)

\* The clusters a walk from first passes through: w[k] is where it stands after
\* k links; it stands still at the first number that is no data cluster.
Walk(f, first) ==
    LET w[k \in 0 .. MaxCluster] ==
          IF k = 0 THEN first
          ELSE IF w[k - 1] \in Cluster THEN f[w[k - 1]] ELSE w[k - 1]
    IN  w
Reached(f, first) == {Walk(f, first)[k] : k \in 0 .. MaxCluster} \cap Cluster

fat12_find_free_cluster(f, start) ==
    LET free == {c \in Cluster : c >= start /\ f[c] = FREE}
    IN  IF free = {} THEN NoCluster ELSE Min(free)

fat12_free_chain(f, first) ==
    LET gone == Reached(f, first)
    IN  [c \in Cluster |-> IF c \in gone THEN FREE ELSE f[c]]

\* The loop of fat12_alloc_chain: take the lowest free clusters one by one,
\* linking each to the one before; ok is FALSE when none was left.
TakeClusters(f, n) ==
    LET step[i \in 0 .. n] ==
          IF i = 0 THEN [fat |-> f, first |-> NoCluster, prev |-> 1, ok |-> TRUE]
          ELSE LET s == step[i - 1]
                   cl == fat12_find_free_cluster(s.fat, s.prev + 1)
               IN  IF ~s.ok \/ cl = NoCluster THEN [s EXCEPT !.ok = FALSE]
                   ELSE [fat |-> [c \in Cluster |->
                                    IF c = cl THEN EOC
                                    ELSE IF c = s.prev THEN cl ELSE s.fat[c]],
                         first |-> IF s.first = NoCluster THEN cl ELSE s.first,
                         prev |-> cl, ok |-> TRUE]
    IN  step[n]

\* Mutant: nothing is given back when the volume fills up half way.
AllocWithoutRollback(f, n) ==
    LET s == TakeClusters(f, n)
    IN  [fat |-> s.fat, first |-> IF s.ok THEN s.first ELSE NoCluster]

\* fat12_alloc_chain: the new FAT and the first cluster, or NoCluster.
fat12_alloc_chain(f, n) ==
    LET s == TakeClusters(f, n)
    IN  IF s.ok THEN [fat |-> s.fat, first |-> s.first]
        ELSE [fat |-> fat12_free_chain(s.fat, s.first), first |-> NoCluster]

InUse(e) == e.st \in {"file", "dir"}

\* find_dir_entry: the search stops at the first entry never used.
find_dir_entry(r, nm) ==
    LET hits == {i \in Slots : /\ \A j \in 1 .. i : r[j].st # "end"
                               /\ InUse(r[i]) /\ r[i].name = nm}
    IN  IF hits = {} THEN 0 ELSE Min(hits)

find_free_dir_slot(r) ==
    LET free == {i \in Slots : ~InUse(r[i])}
    IN  IF free = {} THEN 0 ELSE Min(free)

\* fat12_read_file on entry e, through FAT f and data clusters d: the texts of size
\* clusters along the chain; a walk that has left the data area reads something else.
ReadChain(f, d, e) ==
    [i \in 1 .. e.size |->
        LET c == Walk(f, e.first)[i - 1]
        IN  IF c \in Cluster THEN d[c] ELSE <<"junk", i>>]
fat12_read_file(f, e) == ReadChain(f, data, e)

\* What a name reads as, through directory r and FAT f.
Reads(r, f, nm) ==
    LET i == find_dir_entry(r, nm)
    IN  IF i = 0 THEN Absent
        ELSE [kind |-> r[i].st, content |-> fat12_read_file(f, r[i])]

------------------------------------------------------------------------------
Init ==
    /\ fat = [c \in Cluster |-> FREE]
    /\ root = [i \in Slots |-> EmptyEntry]
    /\ dfat = [k \in Copies |-> fat]
    /\ droot = root
    /\ data = [c \in Cluster |-> <<"blank", 1>>]
    /\ pc = "idle"
    /\ op = IdleOp
    /\ want = [nm \in Names |-> Absent]
    /\ durable = want
    /\ clean = TRUE
    /\ crashed = FALSE
    /\ faults = 0
    /\ calls = 0

\* What was wanted is not followed beyond a power loss.
Wants(nm, c) == want' = IF crashed THEN want ELSE [want EXCEPT ![nm] = c]
CallReturns == pc' = "idle" /\ op' = IdleOp
Call == pc = "idle" /\ calls < MaxCalls /\ calls' = calls + 1
Fault == faults < MaxFaults /\ faults' = faults + 1

\* Mutant: the old chain is freed first, and reused for the new one.
FreeOldFirst(off, n) ==
    fat12_alloc_chain(fat12_free_chain(fat, root[off].first), n)
\* The new chain of a file in entry off is taken beside the old one.
NewChain(off, n) == fat12_alloc_chain(fat, n)

\* fat12_write_file up to the first data sector: find or choose the entry, and
\* allocate the new chain while the old one is still there.
fat12_write_file(nm, n, v) ==
    LET found == find_dir_entry(root, nm)
        off == IF found = 0 THEN find_free_dir_slot(root) ELSE found
        a == NewChain(off, n)
    IN  /\ Call
        /\ off # 0
        /\ ReuseStaleSlot \/ found # 0 \/ root[off].first < 2
        /\ fat' = a.fat
        /\ IF n > 0 /\ a.first = NoCluster
           THEN UNCHANGED <<pc, op>>
           ELSE /\ pc' = IF n > 0 THEN "data" ELSE "commit"
                /\ op' = Locals("write", nm, off, found = 0, a.first, n, v)
        /\ UNCHANGED <<root, disk, want, durable, clean, crashed, faults>>

\* write_data_to_clusters, one cluster at a time.
WriteCluster ==
    /\ pc = "data"
    /\ data' = [data EXCEPT ![Walk(fat, op.first)[op.k - 1]] = <<op.text, op.k>>]
    /\ IF op.k < op.size
       THEN op' = [op EXCEPT !.k = @ + 1] /\ UNCHANGED pc
       ELSE op' = [op EXCEPT !.k = 1] /\ pc' = "commit"
    /\ UNCHANGED <<mem, dfat, droot, ghosts>>

\* The write failed: the new chain is discarded and the FAT flushed.
WriteClusterFails ==
    /\ pc = "data" /\ Fault
    /\ fat' = fat12_free_chain(fat, op.first)
    /\ pc' = "fat" /\ op' = [op EXCEPT !.k = 1, !.root = FALSE]
    /\ UNCHANGED <<root, disk, want, durable, clean, crashed, calls>>

Written(e) ==
    [st |-> IF op.created THEN "file" ELSE e.st,
     name |-> op.name, first |-> op.first, size |-> op.size]

\* The rest of fat12_write_file in memory: the entry takes the new chain, and
\* whatever chain the entry named before is freed.
CommitWrite ==
    LET e == root[op.off]
    IN  /\ pc = "commit"
        /\ root' = [root EXCEPT ![op.off] = Written(e)]
        /\ fat' = IF e.first >= 2 /\ e.first # op.first
                  THEN fat12_free_chain(fat, e.first) ELSE fat
        /\ Wants(op.name, [kind |-> root'[op.off].st,
                            content |-> [i \in 1 .. op.size |-> <<op.text, i>>]])
        /\ pc' = "fat"
        /\ UNCHANGED <<disk, op, durable, clean, crashed, faults, calls>>

NewEntry(st, nm, first) == [st |-> st, name |-> nm, first |-> first, size |-> 0]

fat12_create_file(nm) ==
    LET off == find_free_dir_slot(root)
    IN  /\ Call /\ find_dir_entry(root, nm) = 0 /\ off # 0
        /\ root' = [root EXCEPT ![off] = NewEntry("file", nm, 0)]
        /\ Wants(nm, [kind |-> "file", content |-> <<>>])
        /\ pc' = "root"
        /\ op' = Locals("create", nm, off, TRUE, 0, 0, "none")
        /\ UNCHANGED <<fat, disk, durable, clean, crashed, faults>>

\* fat12_create_dir: allocate the body's cluster ...
fat12_create_dir(nm) ==
    LET a == fat12_alloc_chain(fat, 1)
        off == find_free_dir_slot(root)
    IN  /\ Call /\ find_dir_entry(root, nm) = 0 /\ off # 0
        /\ a.first # NoCluster
        /\ fat' = a.fat
        /\ pc' = "body"
        /\ op' = Locals("mkdir", nm, off, TRUE, a.first, 0, "none")
        /\ UNCHANGED <<root, disk, want, durable, clean, crashed, faults>>

\* ... write "." and ".." into it, then the entry.
WriteDirBody ==
    /\ pc = "body"
    /\ data' = [data EXCEPT ![op.first] = <<"dots", 1>>]
    /\ root' = [root EXCEPT ![op.off] = NewEntry("dir", op.name, op.first)]
    /\ Wants(op.name, [kind |-> "dir", content |-> <<>>])
    /\ pc' = "fat"
    /\ UNCHANGED <<fat, dfat, droot, op, durable, clean, crashed, faults, calls>>

WriteDirBodyFails ==
    /\ pc = "body" /\ Fault /\ CallReturns
    /\ fat' = fat12_free_chain(fat, op.first)
    /\ UNCHANGED <<root, disk, want, durable, clean, crashed, calls>>

fat12_delete_file(nm) ==
    LET off == find_dir_entry(root, nm)
    IN  /\ Call /\ off # 0
        /\ fat' = IF root[off].first >= 2
                  THEN fat12_free_chain(fat, root[off].first) ELSE fat
        /\ root' = [root EXCEPT ![off].st = "deleted"]
        /\ Wants(nm, Absent)
        /\ pc' = "fat"
        /\ op' = Locals("delete", nm, off, FALSE, 0, 0, "none")
        /\ UNCHANGED <<disk, durable, clean, crashed, faults>>

\* fat12_flush_fat, one copy at a time.
fat12_flush_fat ==
    /\ pc = "fat"
    /\ dfat' = [dfat EXCEPT ![op.k] = fat]
    /\ IF op.k = 1 THEN op' = [op EXCEPT !.k = 2] /\ UNCHANGED pc
       ELSE IF op.root THEN pc' = "root" /\ UNCHANGED op
       ELSE CallReturns
    /\ UNCHANGED <<mem, droot, data, ghosts>>

\* flush_root, and the call returns success.
flush_root ==
    /\ pc = "root" /\ CallReturns
    /\ droot' = root
    /\ clean' = (clean \/ op.kind # "create")
    /\ durable' = IF clean' THEN want ELSE durable
    /\ UNCHANGED <<mem, dfat, data, want, crashed, faults, calls>>

FlushFails ==
    /\ pc \in {"fat", "root"} /\ Fault /\ CallReturns
    /\ clean' = FALSE
    /\ UNCHANGED <<mem, disk, want, durable, crashed, calls>>

\* Power is lost; the machine reboots and fat12_mount loads the volume.
PowerLoss ==
    /\ Fault /\ CallReturns
    /\ fat' = dfat[1] /\ root' = droot
    /\ crashed' = TRUE /\ clean' = FALSE
    /\ want' = [nm \in Names |-> Absent] /\ durable' = want'
    /\ UNCHANGED <<disk, calls>>

\* fat12_find_file and fat12_read_file change nothing.
Look == pc = "idle" /\ UNCHANGED vars

Next ==
    \/ \E nm \in Names, n \in 0 .. MaxSize, v \in Text :
          fat12_write_file(nm, n, v)
    \/ \E nm \in Names :
          \/ fat12_create_file(nm) \/ fat12_create_dir(nm)
          \/ fat12_delete_file(nm)
    \/ WriteCluster \/ WriteClusterFails \/ CommitWrite
    \/ WriteDirBody \/ WriteDirBodyFails
    \/ fat12_flush_fat \/ flush_root \/ FlushFails
    \/ PowerLoss
    \/ Look

Spec == Init /\ [][Next]_vars

------------------------------------------------------------------------------
(* Properties.                                                             *)

Entry == [st : {"end", "deleted", "file", "dir"}, name : Names \cup {"none"},
          first : Cluster \cup {0}, size : 0 .. MaxSize]
Fat == [Cluster -> Cluster \cup {FREE, EOC}]

\* Every entry of a FAT, in memory or on disk, is free, a data cluster or the
\* end of a chain, and every directory entry is one the driver could write.
TypeOK ==
    /\ fat \in Fat /\ dfat \in [Copies -> Fat]
    /\ root \in [Slots -> Entry] /\ droot \in [Slots -> Entry]
    /\ pc \in {"idle", "data", "commit", "body", "fat", "root"}
    /\ op.off \in Slots /\ op.first \in Cluster \cup {0} /\ op.k \in Nat
    /\ clean \in BOOLEAN /\ crashed \in BOOLEAN
    /\ faults \in 0 .. MaxFaults /\ calls \in 0 .. MaxCalls

Used(r) == {i \in Slots : InUse(r[i])}
WellFormed(f, e) ==
    \/ e.first = NoCluster /\ e.size = 0
    \/ /\ e.first \in Cluster
       /\ Walk(f, e.first)[MaxCluster] = EOC
       /\ Cardinality(Reached(f, e.first)) = IF e.size = 0 THEN 1 ELSE e.size

\* Between calls the volume in memory is sound: every chain is as long as its
\* file and ends, no cluster is in two files, none is lost, and no name appears
\* twice.  A failed call, whether the disk failed or the volume was full, is no
\* exception (fat12_alloc_chain rolls back, fat12_write_file discards).
VolumeConsistent ==
    ~crashed /\ pc = "idle" =>
        /\ \A i \in Used(root) : WellFormed(fat, root[i])
        /\ \A i, j \in Used(root) : i # j =>
             /\ root[i].name # root[j].name
             /\ Reached(fat, root[i].first) \cap Reached(fat, root[j].first) = {}
        /\ {c \in Cluster : fat[c] # FREE} =
             UNION {Reached(fat, root[i].first) : i \in Used(root)}

\* At every moment, also while a call is running, every name reads back exactly
\* what the last call that changed it wrote: fat12_write_file writes the new
\* chain aside and switches over in memory.
ReadsBack == ~crashed => \A nm \in Names : Reads(root, fat, nm) = want[nm]

\* Once a call has returned success after a full flush, both FATs and the root
\* directory on disk are the ones in memory, also after earlier failures.
DiskMatchesMemory ==
    pc = "idle" /\ clean => dfat = [k \in Copies |-> fat] /\ droot = root

\* Power loss in the middle of a call spares every file but the one the call is
\* about, and spares that one too until its first FAT sector reaches the disk.
CrashSparesOthers ==
    clean /\ ~crashed =>
        \A nm \in Names :
            nm # op.name \/ pc \notin {"fat", "root"} \/ (pc = "fat" /\ op.k = 1)
            => Reads(droot, dfat[1], nm) = durable[nm]

\* The design's error-handling rule: a mutation that fails leaves the disk as it
\* was after the last one that succeeded.
FailureLeavesDisk ==
    pc = "idle" /\ ~crashed =>
        \A nm \in Names : Reads(droot, dfat[1], nm) = durable[nm]

\* Whatever calls succeed or fail half way, the volume in memory is one that could have
\* been written in one go, files read back, and the disk follows.
VolumeSafe == TypeOK /\ VolumeConsistent /\ ReadsBack /\ DiskMatchesMemory
==============================================================================
