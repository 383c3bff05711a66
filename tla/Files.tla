--------------------------------- MODULE Files ---------------------------------
(***************************************************************************)
(* File descriptors, Kernel/arch/syscall.c, above the FAT12 driver.  A     *)
(* program makes one call at a time and every call runs to its end, so the *)
(* driver's calls are taken whole, on a disk that does not fail: Fat12 has *)
(* their steps and failures.  A file is counted in clusters.               *)
(*                                                                         *)
(* A descriptor keeps a copy of the directory entry.  sys_write renews the *)
(* size in it and nothing else.  fresh says that the file has not been     *)
(* written or deleted since the descriptor was opened.  The shell deletes  *)
(* files with rm between programs, and descriptors outlive the program.    *)
(***************************************************************************)
EXTENDS Fat12

CONSTANTS MAX_FDS,     \* size of g_fds; 0 and 1 are the console
          MaxSyscalls  \* bound on calls

ASSUME FilesAssumption == MAX_FDS \in Nat /\ MaxSyscalls \in Nat

VARIABLES vol,       \* the mounted volume: FAT, root directory, clusters
          g_fds,
          contents,  \* what each name was last written with
          syscalls

fileVars == <<vol, g_fds, contents, syscalls>>

Fds == 2 .. MAX_FDS - 1
NoFd == [used |-> FALSE, name |-> "none", first |-> 0, size |-> 0, pos |-> 0,
         fresh |-> FALSE, seen |-> <<>>, moved |-> FALSE]
Gone == <<"gone">>

FilesInit ==
    /\ vol = [fat |-> [c \in Cluster |-> FREE], root |-> [i \in Slots |-> EmptyEntry],
              data |-> [c \in Cluster |-> <<"blank", 1>>]]
    /\ g_fds = [fd \in Fds |-> NoFd]
    /\ contents = [nm \in Names |-> Gone] /\ syscalls = 0

Syscall == syscalls < MaxSyscalls /\ syscalls' = syscalls + 1
Written_(n, v) == [i \in 1 .. n |-> <<v, i>>]
\* Descriptors of a file that changes under them.
Stale(fds, nm) ==
    [fd \in Fds |-> IF fds[fd].name = nm THEN [fds[fd] EXCEPT !.fresh = FALSE] ELSE fds[fd]]

-------------------------------------------------------------------------------
(* The driver's calls, whole: the volume after them and whether they       *)
(* succeed.                                                                *)

CreateFile(s, nm) ==
    LET off == find_free_dir_slot(s.root)
    IN  IF off = 0 THEN [ok |-> FALSE, s |-> s]
        ELSE [ok |-> TRUE, s |-> [s EXCEPT !.root[off] = NewEntry("file", nm, 0)]]

\* Mutant: the clusters at the start of the volume are used, free or not.
OverwriteLowest(s, nm, n, v) ==
    LET off == find_dir_entry(s.root, nm)
    IN  [ok |-> off # 0,
         s |-> IF off = 0 THEN s
               ELSE [s EXCEPT !.root[off].first = IF n = 0 THEN 0 ELSE 2,
                              !.root[off].size = n,
                              !.data = [c \in Cluster |-> IF c < 2 + n THEN <<v, c - 1>> ELSE @[c]]]]
WriteFile(s, nm, n, v) ==
    LET found == find_dir_entry(s.root, nm)
        off == IF found = 0 THEN find_free_dir_slot(s.root) ELSE found
        a == fat12_alloc_chain(s.fat, n)
        old == s.root[off].first
        at(i) == Walk(a.fat, a.first)[i - 1]
    IN  IF off = 0 \/ (n > 0 /\ a.first = NoCluster) THEN [ok |-> FALSE, s |-> s]
        ELSE [ok |-> TRUE,
              s |-> [fat |-> IF old >= 2 /\ old # a.first
                             THEN fat12_free_chain(a.fat, old) ELSE a.fat,
                     root |-> [s.root EXCEPT ![off] =
                                 [NewEntry("file", nm, a.first) EXCEPT !.size = n]],
                     data |-> [c \in Cluster |->
                                 IF \E i \in 1 .. n : at(i) = c
                                 THEN <<v, CHOOSE i \in 1 .. n : at(i) = c>>
                                 ELSE s.data[c]]]]

-------------------------------------------------------------------------------
(* The calls.                                                              *)

Opened(fd, e) ==
    [NoFd EXCEPT !.used = TRUE, !.name = e.name, !.first = e.first, !.size = e.size,
                 !.fresh = TRUE]

\* sys_open: the file is found or created before the access mode is looked at.
sys_open(nm, creat, acc) ==
    LET found == find_dir_entry(vol.root, nm) # 0
        c == IF ~found /\ creat THEN CreateFile(vol, nm) ELSE [ok |-> found, s |-> vol]
        free == {fd \in Fds : ~g_fds[fd].used}
    IN  /\ Syscall
        /\ vol' = c.s
        /\ contents' = IF c.ok /\ ~found THEN [contents EXCEPT ![nm] = <<>>] ELSE contents
        /\ IF ~c.ok \/ ~acc \/ free = {} THEN UNCHANGED g_fds
           ELSE g_fds' = [g_fds EXCEPT ![Min(free)] =
                            Opened(Min(free), c.s.root[find_dir_entry(c.s.root, nm)])]

Entry_(f) == [first |-> f.first, size |-> f.size]

\* sys_read: the whole file is read, and the part from pos on is copied out.  An empty
\* file, like a user range that is not mapped, makes the call fail.
sys_read(fd, count) ==
    LET f == g_fds[fd]
        all == ReadChain(vol.fat, vol.data, Entry_(f))
        avail == IF f.pos < f.size THEN f.size - f.pos ELSE 0
        n == IF count < avail THEN count ELSE avail
    IN  /\ Syscall /\ f.used /\ f.size > 0
        /\ g_fds' = [g_fds EXCEPT ![fd].pos = @ + n,
                                  ![fd].seen = @ \o SubSeq(all, f.pos + 1, f.pos + n)]
        /\ UNCHANGED <<vol, contents>>

\* sys_write replaces the file of that name, and creates it when it is gone.  A write
\* into a deleted entry that still names a cluster is left to Fat12.
sys_write(fd, n, v) ==
    LET f == g_fds[fd]
        off == find_dir_entry(vol.root, f.name)
        free == find_free_dir_slot(vol.root)
        w == WriteFile(vol, f.name, n, v)
    IN  /\ Syscall /\ f.used
        /\ off = 0 /\ free # 0 => vol.root[free].first < 2
        /\ vol' = w.s
        /\ IF ~w.ok THEN UNCHANGED <<g_fds, contents>>
           ELSE /\ g_fds' = [Stale(g_fds, f.name) EXCEPT ![fd].size = n, ![fd].pos = 0]
                /\ contents' = [contents EXCEPT ![f.name] = Written_(n, v)]

sys_close(fd) ==
    /\ Syscall /\ g_fds[fd].used
    /\ g_fds' = [g_fds EXCEPT ![fd].used = FALSE]
    /\ UNCHANGED <<vol, contents>>

\* sys_seek: from the start, the position or the end.  Sums beyond 32 bits are refused.
sys_seek(fd, offset, whence) ==
    LET f == g_fds[fd]
        np == (CASE whence = 0 -> 0 [] whence = 1 -> f.pos [] whence = 2 -> f.size) + offset
    IN  /\ Syscall /\ f.used
        /\ g_fds' = [g_fds EXCEPT ![fd].pos = IF np > f.size THEN f.size ELSE np,
                                  ![fd].moved = TRUE]
        /\ UNCHANGED <<vol, contents>>

\* cmd_rm of the shell.
cmd_rm(nm) ==
    LET off == find_dir_entry(vol.root, nm)
    IN  /\ Syscall /\ off # 0
        /\ vol' = [vol EXCEPT !.root[off].st = "deleted",
                              !.fat = fat12_free_chain(@, vol.root[off].first)]
        /\ g_fds' = Stale(g_fds, nm) /\ contents' = [contents EXCEPT ![nm] = Gone]

\* A call that is refused, and SYS_PRINT, SYS_GETTIME, SYS_EXIT and the console: SYS_EXIT
\* leaves the descriptors of the program open.
OtherCall == UNCHANGED fileVars

\* syscall_handler.
FilesNext ==
    \/ \E nm \in Names, creat \in BOOLEAN, acc \in BOOLEAN : sys_open(nm, creat, acc)
    \/ \E fd \in Fds :
         \/ \E n \in 1 .. MaxSize : sys_read(fd, n)
         \/ \E n \in 0 .. MaxSize, v \in Text : sys_write(fd, n, v)
         \/ \E off \in 0 .. MaxSize, whence \in 0 .. 2 : sys_seek(fd, off, whence)
         \/ sys_close(fd)
    \/ \E nm \in Names : cmd_rm(nm)
    \/ OtherCall

FilesSpec == FilesInit /\ [][FilesNext]_fileVars

-------------------------------------------------------------------------------
(* Properties.                                                             *)

OpenFds == {fd \in Fds : g_fds[fd].used}

\* A position is never behind the end of its file, whatever is read, written and
\* sought through the descriptor.
FilesTypeOK ==
    /\ \A fd \in Fds : g_fds[fd].pos \in 0 .. g_fds[fd].size /\ g_fds[fd].size \in 0 .. MaxSize
    /\ vol.root \in [Slots -> Entry] /\ syscalls \in 0 .. MaxSyscalls

\* What a descriptor reads is the file it was opened for, as long as that file has not
\* been written or deleted since: nothing done to other files, and to their
\* descriptors, shows through the entry it keeps.
FreshReadsFile ==
    \A fd \in OpenFds : g_fds[fd].fresh =>
        ReadChain(vol.fat, vol.data, Entry_(g_fds[fd])) = contents[g_fds[fd].name]

\* Reads through such a descriptor that was never moved return the file from its start,
\* each part once and in order.
ReadsInOrder ==
    \A fd \in OpenFds : g_fds[fd].fresh /\ ~g_fds[fd].moved =>
        g_fds[fd].seen = SubSeq(contents[g_fds[fd].name], 1, g_fds[fd].pos)

\* What sys_write has stored is there for the next sys_open: the entry of every name
\* leads to what was last written under it.
NamesReadBack ==
    \A nm \in Names :
        LET off == find_dir_entry(vol.root, nm)
        IN  IF contents[nm] = Gone THEN off = 0
            ELSE off # 0 /\ ReadChain(vol.fat, vol.data, vol.root[off]) = contents[nm]

\* Descriptors and names lead to what was written, however calls on several files and
\* descriptors alternate.
FilesSafe == FilesTypeOK /\ FreshReadsFile /\ ReadsInOrder /\ NamesReadBack
===============================================================================
