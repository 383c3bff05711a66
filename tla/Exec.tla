--------------------------------- MODULE Exec ---------------------------------
(***************************************************************************)
(* Starting a ring-3 program: the ELF loader (Kernel/fs/elf.c), the page   *)
(* directories (Kernel/arch/paging.c) and the frame allocator              *)
(* (Kernel/mm/pmm.c).                                                      *)
(*                                                                         *)
(* Only kmain's thread runs programs, one at a time, and a launch does not *)
(* give up the CPU, so user_prog_exec is one step up to the jump to ring 3 *)
(* and one when the program has exited.  kmalloc is taken as a number of   *)
(* pages it can still give.  Addresses are bytes of an address space of    *)
(* AddrSpace bytes, in which sums wrap.  A page table entry is kept by     *)
(* page, a page directory entry by table.  A byte of a frame holds the     *)
(* number of the file's byte it was copied from, Zero, or Junk.            *)
(***************************************************************************)
EXTENDS Integers, Sequences, FiniteSets, SequencesExt

CONSTANTS PAGE,            \* PAGING_PAGE_SIZE
          TABLE,           \* pages mapped by one page table
          USER_VADDR_MAX,  \* where the kernel's half begins
          USER_STACK_TOP, USER_STACK_PAGES,
          PMM_BASE, PMM_LIMIT,
          AddrSpace,
          CHUNK, NAMEMAX,  \* sizeof(chunk) in sys_write, longest name copied in
          Programs,        \* the files that may be run
          MaxPages,        \* kmalloc never gives more pages than this
          MaxRuns,         \* bound on launches
          PmmInitCalled    \* has the start of the kernel called pmm_init, as a comment
                           \* in user_prog_exec requires?  nothing in Kernel/ does

ASSUME ExecAssumption ==
    /\ {PAGE, TABLE, USER_VADDR_MAX, USER_STACK_TOP, USER_STACK_PAGES, PMM_BASE,
        PMM_LIMIT, AddrSpace, CHUNK, NAMEMAX, MaxPages, MaxRuns} \subseteq Nat
    /\ PAGE > 0 /\ TABLE > 0 /\ CHUNK > 0 /\ PMM_BASE <= PMM_LIMIT /\ USER_STACK_TOP <= USER_VADDR_MAX
    /\ USER_VADDR_MAX % (PAGE * TABLE) = 0 /\ USER_STACK_TOP % PAGE = 0
    /\ PmmInitCalled \in BOOLEAN

VARIABLES g_next, g_ready,  \* the frame allocator
          spaces,           \* the page directories made so far
          frames,           \* the frames, by physical address
          running,          \* the program in ring 3, and whether it has stored anything
          refused,          \* why the last launch failed, and what it lacked
          runs

execVars == <<g_next, g_ready, spaces, frames, running, refused, runs>>

Wrap(a, b) == (a + b) % AddrSpace
USER_VADDR_MIN == PAGE
USER_STACK_SIZE == USER_STACK_PAGES * PAGE
USER_STACK_BASE == USER_STACK_TOP - USER_STACK_SIZE
Down(a) == a - (a % PAGE)                         \* a & ~(PAGE - 1)
VPages == 0 .. AddrSpace \div PAGE - 1
Tables == 0 .. AddrSpace \div (PAGE * TABLE) - 1
PDE_HIGHER == USER_VADDR_MAX \div (PAGE * TABLE)
NotMapped == [phys |-> 0, user |-> FALSE, w |-> FALSE, p |-> FALSE]
Zero == 0
Junk == -1
NoRun == [space |-> 0, prog |-> {}, touched |-> FALSE]
NoRefusal == [why |-> "none", need |-> 0, left |-> 0]
EHDR == 2                                         \* sizeof(elf32_ehdr_t)
PHDR == 2                                         \* sizeof(elf32_phdr_t)

-------------------------------------------------------------------------------
(* Frames: pmm.c, on the allocator's state s.                              *)

pmm_alloc_frames(s, n) ==
    IF ~g_ready \/ n = 0 \/ s.next < PMM_BASE \/ s.next > PMM_LIMIT
          \/ n * PAGE > PMM_LIMIT - s.next
    THEN [at |-> 0, next |-> s.next]
    ELSE [at |-> s.next, next |-> s.next + n * PAGE]

-------------------------------------------------------------------------------
(* Paging: paging.c, on a page directory pd and its tables.                *)

\* paging_create_pd: the kernel's entries, which are one large page.
NewSpace ==
    [pde |-> [t \in Tables |-> [p |-> t = PDE_HIGHER, user |-> FALSE, ps |-> t = PDE_HIGHER]],
     pte |-> [v \in VPages |-> NotMapped]]

\* paging_map_page; it takes a page for a new table.
paging_map_page(s, v, phys, w) ==
    LET t == v \div TABLE
        old == s.sp.pde[t]
        bad == old.ps \/ (old.p /\ ~old.user) \/ (~old.p /\ s.heap = 0)
    IN  IF ~s.ok \/ bad THEN [s EXCEPT !.ok = FALSE]
        ELSE [s EXCEPT !.heap = IF old.p THEN @ ELSE @ - 1,
                       !.sp.pde[t] = [p |-> TRUE, user |-> TRUE, ps |-> FALSE],
                       !.sp.pte[v] = [phys |-> phys, user |-> TRUE, w |-> w, p |-> TRUE]]
MapPages(s, first, n, phys, w) ==
    FoldLeft(LAMBDA r, i : paging_map_page(r, first + i - 1, phys + (i - 1) * PAGE, w),
             s, [i \in 1 .. n |-> i])

paging_user_page_accessible(sp, v, writable) ==
    LET pde == sp.pde[v \div TABLE]
        pte == sp.pte[v]
    IN  pde.p /\ pde.user /\ ~pde.ps /\ pte.p /\ pte.user /\ (writable => pte.w)

\* Mutant: the last page is that of the first byte behind the range, minus one page.
RangeShort(sp, vaddr, len, writable) ==
    \/ len = 0
    \/ /\ vaddr >= USER_VADDR_MIN /\ vaddr < USER_VADDR_MAX /\ len <= USER_VADDR_MAX - vaddr
       /\ \A v \in vaddr \div PAGE .. (vaddr + len) \div PAGE - 1 :
            paging_user_page_accessible(sp, v, writable)
paging_validate_user_range(sp, vaddr, len, writable) ==
    \/ len = 0
    \/ /\ vaddr >= USER_VADDR_MIN /\ vaddr < USER_VADDR_MAX /\ len <= USER_VADDR_MAX - vaddr
       /\ \A v \in vaddr \div PAGE .. (vaddr + len - 1) \div PAGE :
            paging_user_page_accessible(sp, v, writable)

\* The byte a program reads at a, by walking its page tables.
ByteAt(sp, a) == frames[sp.pte[a \div PAGE].phys + (a % PAGE)]

\* paging_copy_user_string, byte by byte: the length of the string, or -1.
paging_copy_user_string(sp, src, max) ==
    LET from[k \in 0 .. max] ==
          IF k = max \/ ~paging_validate_user_range(sp, Wrap(src, k), 1, FALSE) THEN -1
          ELSE IF ByteAt(sp, Wrap(src, k)) = Zero THEN k ELSE from[k + 1]
    IN  from[0]

\* paging_copy_from_user: does it copy?
paging_copy_from_user(sp, src, len) == paging_validate_user_range(sp, src, len, FALSE)

\* sys_write to the console, chunk by chunk, each printed before the next is copied.
sys_write_console(sp, buf, count) ==
    LET from[pos \in 0 .. count] ==
          LET n == IF count - pos > CHUNK THEN CHUNK ELSE count - pos
          IN  IF pos = count THEN [ok |-> TRUE, printed |-> count]
              ELSE IF ~paging_copy_from_user(sp, Wrap(buf, pos), n)
              THEN [ok |-> FALSE, printed |-> pos]
              ELSE from[pos + n]
    IN  from[0]

-------------------------------------------------------------------------------
(* The loader: elf.c.  A program is its file's size, header fields and     *)
(* program headers.                                                        *)

elf_validate_segment(ph, size) ==
    ph.memsz > 0 =>
        /\ ph.filesz <= ph.memsz
        /\ ph.offset <= size /\ ph.filesz <= size - ph.offset
        /\ ph.vaddr >= USER_VADDR_MIN /\ ph.vaddr < USER_VADDR_MAX
        /\ ph.memsz <= USER_VADDR_MAX - ph.vaddr
        /\ ~(ph.vaddr < USER_STACK_TOP /\ Wrap(ph.vaddr, ph.memsz) > USER_STACK_BASE)
        /\ ph.align > 1 => /\ \E k \in 1 .. ph.align : 2 ^ k = ph.align
                           /\ ph.offset % ph.align = ph.vaddr % ph.align

PageStart(ph) == Down(ph.vaddr)
PageEnd(ph) == Down(Wrap(Wrap(ph.vaddr, ph.memsz), PAGE - 1))

\* Mutant: the segments themselves are compared, not their pages.
OverlapBytes(a, b) == a.vaddr < Wrap(b.vaddr, b.memsz) /\ b.vaddr < Wrap(a.vaddr, a.memsz)
elf_segments_overlap(a, b) == PageStart(a) < PageEnd(b) /\ PageStart(b) < PageEnd(a)

Loads(f) == SelectSeq(f.phs, LAMBDA ph : ph.load /\ ph.memsz > 0)

\* The checks of user_prog_exec before it allocates anything.
Accepted(f) ==
    LET l == Loads(f)
    IN  /\ f.magic /\ f.size >= EHDR /\ f.phentsize >= PHDR /\ f.phs # <<>>
        /\ f.phoff <= f.size /\ Len(f.phs) * f.phentsize <= f.size - f.phoff
        /\ \A i \in DOMAIN l : elf_validate_segment(l[i], f.size)
        /\ \A i, j \in DOMAIN l : j < i => ~elf_segments_overlap(l[i], l[j])
        /\ l # <<>>
        /\ f.entry >= USER_VADDR_MIN /\ f.entry < USER_STACK_BASE
        /\ \E i \in DOMAIN l :
             f.entry >= l[i].vaddr /\ f.entry - l[i].vaddr < l[i].memsz /\ l[i].x

Lacks(s, n) ==
    LET left == PMM_LIMIT - (IF g_ready THEN s.next ELSE PMM_BASE)
    IN  [s EXCEPT !.ok = FALSE, !.lack = [why |-> "frames", need |-> n * PAGE, left |-> left]]

\* Bytes of the file, then zeroes, through the kernel's view of the frames.
Fill(m, at, ph) ==
    [b \in DOMAIN m |->
        IF b \in at .. at + ph.filesz - 1 THEN ph.offset + (b - at) + 1
        ELSE IF b \in at + ph.filesz .. at + ph.memsz - 1 THEN Zero
        ELSE m[b]]

elf_load_segment(s, ph) ==
    LET n == (PageEnd(ph) - PageStart(ph)) \div PAGE
        fr == pmm_alloc_frames(s, n)
        mapped == MapPages([s EXCEPT !.next = fr.next], PageStart(ph) \div PAGE, n, fr.at, ph.w)
    IN  IF ~s.ok THEN s
        ELSE IF fr.at = 0 THEN Lacks(s, n)
        ELSE IF ~mapped.ok THEN mapped
        ELSE [mapped EXCEPT !.frames = Fill(@, fr.at + (ph.vaddr % PAGE), ph)]

MapStack(s) ==
    LET fr == pmm_alloc_frames(s, USER_STACK_PAGES)
    IN  IF ~s.ok THEN s
        ELSE IF fr.at = 0 THEN Lacks(s, USER_STACK_PAGES)
        ELSE MapPages([s EXCEPT !.next = fr.next], USER_STACK_BASE \div PAGE,
                      USER_STACK_PAGES, fr.at, TRUE)

\* user_prog_exec of file f up to the jump to ring 3, when kmalloc has heap more pages.
\* Frames and tables of a launch that fails are not given back.
user_prog_exec(f, heap) ==
    LET start == [next |-> g_next, sp |-> NewSpace, frames |-> frames, heap |-> heap - 1,
                  ok |-> TRUE, lack |-> NoRefusal]
        s == MapStack(FoldLeft(elf_load_segment, start, Loads(f)))
        ok == s.ok /\ s.heap > 0                          \* kstack
    IN  /\ running.space = 0 /\ runs < MaxRuns /\ runs' = runs + 1
        /\ IF ~Accepted(f) \/ heap = 0
           THEN /\ refused' = [NoRefusal EXCEPT !.why = "file or heap"]
                /\ UNCHANGED <<g_next, spaces, frames, running>>
           ELSE /\ g_next' = s.next /\ frames' = s.frames /\ spaces' = Append(spaces, s.sp)
                /\ running' = IF ok THEN [space |-> Len(spaces) + 1, prog |-> f, touched |-> FALSE] ELSE NoRun
                /\ refused' = s.lack
        /\ UNCHANGED g_ready

\* SYS_EXIT: back in user_prog_exec.
UserExits ==
    /\ running.space # 0 /\ running' = NoRun
    /\ UNCHANGED <<g_next, g_ready, spaces, frames, refused, runs>>

\* The program stores into its memory, or sys_read does after checking the range.
Store(v) ==
    /\ running.space # 0 /\ paging_user_page_accessible(spaces[running.space], v, TRUE)
    /\ LET at == spaces[running.space].pte[v].phys
       IN  frames' = [b \in DOMAIN frames |-> IF b \in at .. at + PAGE - 1 THEN Junk ELSE frames[b]]
    /\ running' = [running EXCEPT !.touched = TRUE]
    /\ UNCHANGED <<g_next, g_ready, spaces, refused, runs>>

\* kmain has brought up the kernel.
ExecInit ==
    /\ g_next = (IF PmmInitCalled THEN PMM_BASE ELSE 0) /\ g_ready = PmmInitCalled
    /\ spaces = <<>> /\ running = NoRun /\ refused = NoRefusal /\ runs = 0
    /\ frames = [b \in PMM_BASE .. PMM_LIMIT - 1 |-> Junk]

ExecNext ==
    \/ \E f \in Programs, heap \in 0 .. MaxPages : user_prog_exec(f, heap)
    \/ UserExits
    \/ \E v \in VPages : Store(v)
    \/ UNCHANGED execVars

ExecSpec == ExecInit /\ [][ExecNext]_execVars

-------------------------------------------------------------------------------
(* Properties.                                                             *)

\* pmm_alloc_frames stays inside its region, and pages lead to it.
ExecTypeOK ==
    /\ g_ready => g_next \in PMM_BASE .. PMM_LIMIT
    /\ \A i \in DOMAIN spaces : \A v \in VPages : spaces[i].pte[v].phys \in 0 .. PMM_LIMIT
    /\ DOMAIN frames = PMM_BASE .. PMM_LIMIT - 1 /\ runs \in 0 .. MaxRuns

UserPages == {<<i, v>> \in (DOMAIN spaces) \X VPages : spaces[i].pte[v].p}
PhysOf(m) == spaces[m[1]].pte[m[2]].phys

\* What programs can reach are frames of their own: no frame is mapped twice, in one
\* address space or in two, also after failed launches, and none lies outside the
\* allocator's region, where the kernel is.
FramesOwned ==
    /\ \A m \in UserPages : PhysOf(m) >= PMM_BASE /\ PhysOf(m) + PAGE <= g_next
    /\ \A m, n \in UserPages : m # n => PhysOf(m) # PhysOf(n)
    /\ \A m \in UserPages : m[2] * PAGE >= USER_VADDR_MIN /\ m[2] * PAGE < USER_VADDR_MAX

\* A program that reaches ring 3 finds its image: every byte of each segment is the
\* file's byte or a zero, writable as its header says, with a whole writable stack
\* beside it; nothing of a later segment or the stack lies over an earlier one.
ImageLoaded ==
    running.space # 0 /\ ~running.touched =>
        LET sp == spaces[running.space]
            l == Loads(running.prog)
        IN  /\ \A i \in DOMAIN l : \A k \in 0 .. l[i].memsz - 1 :
                 /\ paging_user_page_accessible(sp, (l[i].vaddr + k) \div PAGE, l[i].w)
                 /\ ~l[i].w => ~sp.pte[(l[i].vaddr + k) \div PAGE].w
                 /\ ByteAt(sp, l[i].vaddr + k) =
                      IF k < l[i].filesz THEN l[i].offset + k + 1 ELSE Zero
            /\ \A v \in USER_STACK_BASE \div PAGE .. USER_STACK_TOP \div PAGE - 1 :
                 paging_user_page_accessible(sp, v, TRUE)

\* A range is accepted exactly when all of its bytes are the program's to read, or to
\* write, and it does not wrap: page by page and with the length checked by
\* subtraction it comes to the same as byte by byte.
RangeCheckExact ==
    running.space # 0 /\ ~running.touched =>
        LET sp == spaces[running.space]
        IN  \A a, len \in 0 .. AddrSpace - 1, w \in BOOLEAN :
              paging_validate_user_range(sp, a, len, w) <=>
                \A k \in 0 .. len - 1 :
                    /\ a + k < AddrSpace
                    /\ paging_user_page_accessible(sp, (a + k) \div PAGE, w)

\* A name is copied in exactly when the program may read it up to and with its NUL,
\* wherever the page after the NUL lies, and it fits; it is not cut short.
StringCopyExact ==
    running.space # 0 /\ ~running.touched =>
        LET sp == spaces[running.space]
            IsName(src, n) == /\ paging_validate_user_range(sp, src, n + 1, FALSE)
                              /\ ByteAt(sp, src + n) = Zero
                              /\ \A k \in 0 .. n - 1 : ByteAt(sp, src + k) # Zero
        IN  \A src \in 0 .. AddrSpace - 1, n \in 0 .. NAMEMAX - 1 :
              (paging_copy_user_string(sp, src, NAMEMAX) = n) <=> IsName(src, n)

\* Writing to the console succeeds exactly when the whole text is the program's to read,
\* as it does for a file; when it fails, whole chunks that could be read are printed
\* already, and nothing that could not.
ConsoleWriteExact ==
    running.space # 0 /\ ~running.touched =>
        LET sp == spaces[running.space]
        IN  \A buf \in 0 .. AddrSpace - 1, count \in 0 .. 2 * CHUNK + 1 :
              LET r == sys_write_console(sp, buf, count)
              IN  /\ r.ok <=> paging_validate_user_range(sp, buf, count, FALSE)
                  /\ paging_validate_user_range(sp, buf, r.printed, FALSE)
                  /\ r.ok \/ r.printed % CHUNK = 0

\* "Returns its physical address, or 0 if the region is exhausted" (pmm.h): a launch is
\* refused for want of frames only when the region has not enough left.
RefusedOnlyWhenExhausted == refused.why = "frames" => refused.need > refused.left

\* Programs own the memory they see and find their image there, also after launches
\* that failed half way or ran out of frames.
ExecSafe == ExecTypeOK /\ FramesOwned /\ ImageLoaded

\* What system calls accept of a program's memory is exactly what the program may use.
UserChecksExact == RangeCheckExact /\ StringCopyExact /\ ConsoleWriteExact
===============================================================================
