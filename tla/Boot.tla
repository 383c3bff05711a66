--------------------------------- MODULE Boot ---------------------------------
(***************************************************************************)
(* From the build to kmain: Kernel/boot/mkimage.py packs the kernel and    *)
(* programs onto a FAT12 floppy, the boot sector boot/boot.asm finds and   *)
(* loads the kernel, and boot/entry.asm clears the BSS, turns paging on    *)
(* and moves to the higher half.  The three places that read or write      *)
(* packed 12-bit FAT entries (these two and fs/fat12.c) are side by side.  *)
(*                                                                         *)
(* FATs and memory are bytes, with the sizes scaled down.  A root entry is *)
(* a record, and the root directory's buffer, read just before it is       *)
(* searched, is left out.  Byte p of the PE file is PeByte(p).  Addresses  *)
(* are relative to the load address.                                       *)
(***************************************************************************)
EXTENDS Integers, Sequences, FiniteSets, SequencesExt, FiniteSetsExt, Functions

CONSTANTS BYTES_PER_SECTOR, SECTORS_PER_FAT, TOTAL_CLUSTERS, ROOT_ENTRIES,
          FAT_AT,          \* where FAT_SEG is, in bytes after the kernel's address
          RAM,             \* bytes of memory above the load address
          PEs,             \* kernels: sequences of sections
          ProgramLists     \* what --program may ask for

ASSUME BootAssumption ==
    /\ {BYTES_PER_SECTOR, SECTORS_PER_FAT, TOTAL_CLUSTERS, ROOT_ENTRIES} \subseteq Nat \ {0}
    /\ FAT_AT \in Nat /\ RAM \in Nat
    /\ FAT_AT + SECTORS_PER_FAT * BYTES_PER_SECTOR <= RAM
    /\ (TOTAL_CLUSTERS + 2) * 3 <= SECTORS_PER_FAT * BYTES_PER_SECTOR * 2

VARIABLES img,      \* pasinux.img
          asked,    \* the kernel and the programs it was built from
          bpc,      \* where the machine is
          ram,
          bp,       \* current cluster
          di,       \* es:di
          mmu       \* paging, the two page directory entries that matter, and eip

bootVars == <<img, asked, bpc, ram, bp, di, mmu>>

EndOfChain == 4095
KERNEL_CLUSTER == 2
TableBytes == SECTORS_PER_FAT * BYTES_PER_SECTOR
PeByte(p) == (p % 251) + 1
NoImage == [ok |-> FALSE, fats |-> <<>>, root |-> <<>>, data |-> <<>>]

-------------------------------------------------------------------------------
(* Packed 12-bit entries in a table t of bytes.                            *)

Odd(c) == c % 2 = 1
Word(t, at) == t[at] + 256 * t[at + 1]
PutWord(t, at, w) == [t EXCEPT ![at] = w % 256, ![at + 1] = w \div 256]

\* mkimage.py.
fat12_entry(c) == c + (c \div 2)

fat12_write(t, c, v) ==
    LET w == Word(t, fat12_entry(c))
    IN  PutWord(t, fat12_entry(c), IF Odd(c) THEN (w % 16) + v * 16 ELSE w - (w % 4096) + v)

\* boot.asm, on the table at base.
next_cluster(m, base, c) ==
    LET w == Word(m, base + (c \div 2) + c)
    IN  IF Odd(c) THEN w \div 16 ELSE w % 4096

\* fat12.c.
get_fat_entry(t, c) ==
    LET o == (c * 3) \div 2
    IN  IF o + 1 \notin DOMAIN t THEN 4095
        ELSE (IF Odd(c) THEN Word(t, o) \div 16 ELSE Word(t, o)) % 4096
set_fat_entry(t, c, v) ==
    LET o == (c * 3) \div 2
    IN  IF Odd(c) THEN [t EXCEPT ![o] = (@ % 16) + (v % 16) * 16, ![o + 1] = v \div 16]
        ELSE [t EXCEPT ![o] = v % 256, ![o + 1] = @ - (@ % 16) + (v \div 256)]

-------------------------------------------------------------------------------
(* The image builder.                                                      *)

Sectors(n) == (n + BYTES_PER_SECTOR - 1) \div BYTES_PER_SECTOR

\* pe_load_sections: the kept sections at their places relative to the lowest.
pe_load_sections(pe) ==
    LET kept == SelectSeq(pe, LAMBDA s : s.keep)
        base == Min({kept[i].vaddr : i \in DOMAIN kept})
        end == Max({kept[i].vaddr - base + kept[i].vsize : i \in DOMAIN kept})
        Place(image, s) ==
          LET n == Min({s.rsize, s.vsize})
              off == s.vaddr - base
          IN  [i \in 1 .. end |->
                 IF i - 1 \in off .. off + n - 1 THEN PeByte(s.roff + i - 1 - off) ELSE image[i]]
    IN  IF kept = <<>> THEN <<>>
        ELSE FoldLeft(Place, [i \in 1 .. end |-> 0], kept)

\* chain_file: at least one cluster, one after the other.
chain_file(fat, start, size) ==
    LET n == Max({1, Sectors(size)})
    IN  [fat |-> FoldLeft(LAMBDA t, i : fat12_write(t, start + i - 1,
                                          IF i < n THEN start + i ELSE EndOfChain),
                          fat, [i \in 1 .. n |-> i]),
         next |-> start + n]

\* write_data_clusters: whole sectors, the last one padded; past the end of the image
\* they make it longer.
write_data_clusters(data, text, start) ==
    [c \in (DOMAIN data) \cup start .. start + Sectors(Len(text)) - 1 |->
        IF c < start \/ c >= start + Sectors(Len(text)) THEN data[c]
        ELSE [k \in 1 .. BYTES_PER_SECTOR |->
                LET i == (c - start) * BYTES_PER_SECTOR + k
                IN  IF i <= Len(text) THEN text[i] ELSE 0]]

put_root_entry(root, name, first, size) ==
    Append(root, [name |-> name, first |-> first, size |-> size])

\* Mutant: a program begins in the last cluster of the one before it.
PlaceOverlapping(s, p) ==
    LET ch == chain_file(s.fat, s.next - 1, Len(p.text))
    IN  IF ~s.ok \/ s.next > TOTAL_CLUSTERS + 1 THEN [s EXCEPT !.ok = FALSE]
        ELSE [ok |-> Len(s.root) + 1 < ROOT_ENTRIES, fat |-> ch.fat, next |-> ch.next,
              root |-> put_root_entry(s.root, p.name, s.next - 1, Len(p.text)),
              data |-> write_data_clusters(s.data, p.text, s.next - 1)]
\* The loop of build_image over the programs.
PlaceProgram(s, p) ==
    LET ch == chain_file(s.fat, s.next, Len(p.text))
    IN  IF ~s.ok \/ s.next > TOTAL_CLUSTERS + 1 THEN [s EXCEPT !.ok = FALSE]
        ELSE [ok |-> Len(s.root) + 1 < ROOT_ENTRIES, fat |-> ch.fat, next |-> ch.next,
              root |-> put_root_entry(s.root, p.name, s.next, Len(p.text)),
              data |-> write_data_clusters(s.data, p.text, s.next)]

build_image(kernel, programs) ==
    LET n == Sectors(Len(kernel))
        blank == [a \in 0 .. TableBytes - 1 |-> 0]
        reserved == fat12_write(fat12_write(blank, 0, 4080), 1, EndOfChain)
        ch == chain_file(reserved, KERNEL_CLUSTER, Len(kernel))
        start == [ok |-> TRUE, fat |-> ch.fat, next |-> ch.next,
                  root |-> put_root_entry(<<>>, "KERNEL", KERNEL_CLUSTER, Len(kernel)),
                  data |-> [c \in 2 .. TOTAL_CLUSTERS + 1 |->
                              [k \in 1 .. BYTES_PER_SECTOR |-> 0]]]
        s == FoldLeft(PlaceProgram, start, programs)
    IN  IF KERNEL_CLUSTER + n - 1 > TOTAL_CLUSTERS + 1 \/ ~s.ok THEN NoImage
        ELSE [ok |-> TRUE, fats |-> <<s.fat, s.fat>>, root |-> s.root,
              data |-> write_data_clusters(s.data, kernel, KERNEL_CLUSTER)]

\* main: the kernel is flattened, and refused when empty or too large.
MakeImage(pe, programs) ==
    LET flat == pe_load_sections(pe)
        built == build_image(flat, programs)
    IN  /\ bpc = "build"
        /\ asked' = [kernel |-> flat, programs |-> programs]
        /\ IF flat = <<>> \/ Len(flat) > TOTAL_CLUSTERS * BYTES_PER_SECTOR \/ ~built.ok
           THEN bpc' = "refused" /\ img' = NoImage
           ELSE bpc' = "off" /\ img' = built
        /\ UNCHANGED <<ram, bp, di, mmu>>

-------------------------------------------------------------------------------
(* The boot sector.                                                        *)

boot_error == bpc' = "error" /\ UNCHANGED <<img, asked, ram, bp, di, mmu>>
Reading == bpc \in {"off", "fat", "load"}

\* find_kernel: the first entry of that name.
find_kernel ==
    LET hits == {i \in DOMAIN img.root : img.root[i].name = "KERNEL"}
    IN  /\ bpc = "off"
        /\ IF hits = {} THEN boot_error
           ELSE /\ bp' = img.root[Min(hits)].first /\ bpc' = "fat"
                /\ UNCHANGED <<img, asked, ram, di, mmu>>

\* The first FAT is read into its segment.
LoadFat ==
    /\ bpc = "fat" /\ bpc' = "load"
    /\ ram' = [a \in DOMAIN ram |->
                 IF a \in FAT_AT .. FAT_AT + TableBytes - 1 THEN img.fats[1][a - FAT_AT] ELSE ram[a]]
    /\ UNCHANGED <<img, asked, bp, di, mmu>>

\* One round of .load_loop: the cluster's sector, then its entry in the FAT in memory.
LoadCluster ==
    LET m == [a \in DOMAIN ram |->
                IF a \in di .. di + BYTES_PER_SECTOR - 1 THEN img.data[bp][a - di + 1] ELSE ram[a]]
        next == next_cluster(m, FAT_AT, bp)
    IN  /\ bpc = "load" /\ ram' = m /\ di' = di + BYTES_PER_SECTOR
        /\ IF next >= 4088 THEN bpc' = "pmode" /\ UNCHANGED bp ELSE bp' = next /\ UNCHANGED bpc
        /\ UNCHANGED <<img, asked, mmu>>

\* Any read_sectors may come back with carry set.
ReadFails == Reading /\ boot_error

-------------------------------------------------------------------------------
(* entry.asm.  The BSS begins where the flattened image ends.              *)

Runs(now, next, new) ==
    bpc = now /\ bpc' = next /\ mmu' = new /\ UNCHANGED <<img, asked, ram, bp, di>>

ClearBss ==
    /\ bpc = "pmode" /\ bpc' = "tables"
    /\ ram' = [a \in DOMAIN ram |-> IF a >= Len(asked.kernel) THEN 0 ELSE ram[a]]
    /\ UNCHANGED <<img, asked, bp, di, mmu>>
BuildTables == Runs("tables", "paging", [mmu EXCEPT !.low = TRUE, !.high = TRUE])
EnablePaging == Runs("paging", "jump", [mmu EXCEPT !.on = TRUE, !.tlb = mmu.low])
JumpHigh == Runs("jump", "unmap", [mmu EXCEPT !.eip = "high"])
start_higher_half == Runs("unmap", "flush", [mmu EXCEPT !.low = FALSE])
FlushTlb == Runs("flush", "kmain", [mmu EXCEPT !.tlb = mmu.low])

-------------------------------------------------------------------------------
BootInit ==
    /\ img = NoImage /\ asked = [kernel |-> <<>>, programs |-> <<>>] /\ bpc = "build"
    /\ ram = [a \in 0 .. RAM - 1 |-> 0] /\ bp = 0 /\ di = 0
    /\ mmu = [on |-> FALSE, low |-> FALSE, high |-> FALSE, tlb |-> FALSE, eip |-> "low"]

Ended == bpc \in {"refused", "error", "kmain"}

Loader ==
    \/ find_kernel \/ LoadFat \/ LoadCluster
    \/ ClearBss \/ BuildTables \/ EnablePaging \/ JumpHigh \/ start_higher_half \/ FlushTlb
BootNext ==
    \/ \E pe \in PEs, programs \in ProgramLists : MakeImage(pe, programs)
    \/ Loader \/ ReadFails
    \/ Ended /\ UNCHANGED bootVars

-------------------------------------------------------------------------------
(* Properties.                                                             *)

\* Memory is bytes, and the image has the FATs, entries and sectors of its geometry.
BootTypeOK ==
    /\ \A a \in DOMAIN ram : ram[a] \in 0 .. 255
    /\ img.ok => /\ \A k \in 1 .. 2 : \A a \in 0 .. TableBytes - 1 : img.fats[k][a] \in 0 .. 255
                 /\ Len(img.root) < ROOT_ENTRIES /\ 2 .. TOTAL_CLUSTERS + 1 \subseteq DOMAIN img.data

\* The clusters of an entry, along FAT k as fs/fat12.c reads it.
ChainOf(k, e) ==
    LET w[i \in 1 .. Max({1, Sectors(e.size)})] ==
          IF i = 1 THEN e.first ELSE get_fat_entry(img.fats[k], w[i - 1])
    IN  w
Want == <<asked.kernel>> \o [i \in DOMAIN asked.programs |-> asked.programs[i].text]
Last_(k, e) == get_fat_entry(img.fats[k], ChainOf(k, e)[Max({1, Sectors(e.size)})])

\* What mkimage.py packs is what the kernel's file system reads: through either FAT,
\* every file's chain ends after its size and holds its bytes, and no two files
\* share a cluster.
ImageReadsBack ==
    img.ok =>
        \A k \in 1 .. 2, f \in DOMAIN img.root :
            LET e == img.root[f]
                ch == ChainOf(k, e)
            IN  /\ e.size = Len(Want[f]) /\ Last_(k, e) >= 4088
                /\ \A i \in 1 .. e.size :
                     img.data[ch[Sectors(i)]][((i - 1) % BYTES_PER_SECTOR) + 1] = Want[f][i]
                /\ \A g \in DOMAIN img.root :
                     g # f => Range(ch) \cap Range(ChainOf(k, img.root[g])) = {}

\* The boot sector, mkimage.py and fat12.c agree on how entries are packed: an entry
\* written by one is read by the others, and its neighbours stay what they were.
PackingAgrees ==
    bpc = "off" =>
        \A c \in 2 .. TOTAL_CLUSTERS, v, w \in {0, 1, 18, 291, EndOfChain} :
            LET z == [a \in 0 .. TableBytes - 1 |-> 0]
                t == set_fat_entry(fat12_write(set_fat_entry(z, c - 1, w), c + 1, w), c, v)
                u == fat12_write(set_fat_entry(fat12_write(z, c - 1, w), c + 1, w), c, v)
            IN  /\ t = u /\ get_fat_entry(t, c) = v /\ next_cluster(t, 0, c) = v
                /\ \A n \in {c - 1, c + 1} : get_fat_entry(t, n) = w /\ next_cluster(t, 0, n) = w

\* When the boot sector has entered protected mode the whole kernel is at the load
\* address, though the FAT it was loaded by lies in the same memory.
KernelLoaded ==
    bpc \notin {"build", "off", "fat", "load", "refused", "error"} =>
        \A i \in DOMAIN asked.kernel : ram[i - 1] = asked.kernel[i]

\* The instruction being run is always mapped: paging comes on while the processor is
\* still at low addresses, and these go only once it has left them.
AlwaysMapped ==
    mmu.on => IF mmu.eip = "low" THEN mmu.low ELSE mmu.high

\* The boot ends in kmain with the low addresses gone, or with a message.
BootEnds == bpc = "off" ~> (bpc = "error" \/ (bpc = "kmain" /\ ~mmu.tlb))

\* The image holds what it was made of, the three codes read it alike, and the kernel
\* arrives whole and runs at mapped addresses.
BootSafe == BootTypeOK /\ ImageReadsBack /\ PackingAgrees /\ KernelLoaded /\ AlwaysMapped
===============================================================================
