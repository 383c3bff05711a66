# Verification of the Pasinux kernel

TLA+ models of the Pasinux kernel, checked with TLC on small instances and, for
seven of its parts, proved with TLAPS for every value of the constants. The models
follow `Kernel/`. The tree `pasinux/kernel/` is a diverged copy; `_Kernel_backup/`,
the top-level `drivers/` and `tests/` are remnants; none of these is modelled.
`Kernel/` builds twice: a freestanding 32-bit kernel, and a hosted simulator with
its own scheduler, heap, message core and console window.

Paths below are relative to `Kernel/`.

## The system and its models

### Processes, interrupts and messages

| Code | Module | How the model corresponds |
|---|---|---|
| `sched/sched_fs.c`, `arch/isr.asm`, `arch/interrupt.c` | `SchedFS` | Every interrupt saves a frame on the current stack and may switch to the next process. The boot thread creates processes and launches programs with interrupts on, so each of its stores is an action. |
| `sched/scheduler.c`, `kernel/kernel.c` | `HostedSched` | The ready ring and the sleep list by their pointers, both policies, and the commands that drive them. One round of `scheduler_run` is one action. |
| `tui/tui_wm.c`, `drivers/keyboard.c` | `EventRing` | An interrupt handler puts, the main loop gets. Getting returns a pointer into the ring, so the pointer and its use are separate actions. |
| `drivers/driver.c`, `ipc/ipc.c` | `Ipc` | A pool of slots threaded into one list per priority, and the polling loop. |
| `drivers/driver_fs.c` | `ChessFs` | The freestanding message core: its own pool, queues and chess messages. |

### Memory and programs

| Code | Module | How the model corresponds |
|---|---|---|
| `mm/mm_fs.c` | `Heap` | Headers at addresses, the block list and the size-class lists, in units of 16 bytes. |
| `mm/mm.c` | `HostedHeap` | `Heap` with headers of two units, and the fresh start of `kernel_reset`. |
| `fs/elf.c`, `arch/paging.c`, `mm/pmm.c`, part of `arch/syscall.c` | `Exec` | Validation, frames, page tables, loading, and the check of user ranges. A launch does not give up the CPU, so it is one action up to ring 3. Addresses wrap. |

### Disk and files

| Code | Module | How the model corresponds |
|---|---|---|
| `fs/fat12.c` | `Fat12` | FAT and root directory in memory and on disk. A call is one action up to its next sector write; writes fail and power goes at any of them. |
| `arch/syscall.c` | `Files` | The descriptor table over the driver's whole calls. |
| `user/notepad.c` | `Notepad` | The editor's buffer and its files, with all limits. |
| `kernel/kmain.c` | `BootTests` | The self-tests of every boot. It extends `Fat12`: the calls of the tests are the driver's, step by step, over a volume that keeps what earlier boots left. |
| `drivers/ata.c` | `Ata` | Driver and drive step by step; the drive refuses, refuses late, slows down or dies. |
| `boot/mkimage.py`, `boot/boot.asm`, `boot/entry.asm` | `Boot` | The image as bytes, loading it, and the order in which paging comes on. |

### What the user meets

| Code | Module | How the model corresponds |
|---|---|---|
| `drivers/keyboard.c`, `tui/shell.c`, `arch/syscall.c` | `Input` | One flag says who gets keys: the window manager or a program's line read. Keys arrive between all steps. |
| `drivers/ps2mouse.c` | `Mouse` | Packets of three real bytes, some lost on the way. |
| `tui/tui_wm.c` | `TuiWM` | Windows, focus, z order, dragging, and the painting loop. |
| `tui/widgets.c`, `tui/shell.c` | `ShellWindow` | The line editor with its history ring, the output buffer, drawing it, and the copy into the frame, whose border covers the first line and the first column. |
| `drivers/vga.c`, `tui/tui_core.c` | `Screen` | The scrolling console and the composed frame. |
| `tui/shell.c`, names of `fs/fat12.c` | `Commands` | The commands on files and packages, with the conversions of 8.3 names. |
| `gui/gui_main.c` | `Gui` | The window, worker and reader threads of the hosted console. |

### Network and other devices

| Code | Module | How the model corresponds |
|---|---|---|
| `net/net_tcp.c` | `Tcp` | One connection. A transmission whose address is unknown polls the card, so segments are handled in the middle of it: these are kept on a stack. |
| `net/http.c` | `Http` | Downloads over a stream that is cut anywhere. |
| `net/net_arp.c`, `net/net_ip.c`, `net/net_eth.c` | `NetLink` | The cache, nested resolutions, and the length arithmetic. |
| `drivers/rtl8139.c` | `Rtl8139` | The receive ring as card and driver each address it, with what its uncleared memory held before, and the transmit descriptors. |
| `drivers/rtc.c` | `Rtc` | Reading register by register while the clock goes on. |
| `drivers/pci.c` | `Pci` | The search for the card and its command register. |

`RoundRobin`, `BoundedQueue`, `Mailbox` and `LruMap` are abstract specifications.
`SchedFS` implements the first, `EventRing` the second, `Ipc` and `ChessFs` the
third, and the ARP cache of `NetLink` the fourth. `MC*` modules give values to the
constants. A definition whose comment says `Mutant` is a deliberately wrong variant
and part of no model; it shows that a property can fail. `PROJECT.json` gives the
source lines of every definition, all parts of the system, and the hazards that
matter most.

How modules rest on one another: `BootTests` extends `Fat12` and runs its calls step by
step. `Files` and `Notepad` take the calls below them whole, as `Fat12` and `Files` show
they may on a disk that does not fail. `Commands` takes a call of the file system as
success or failure. `Http` assumes of `tcp_recv` what `DeliveredInOrder` states. `TuiWM`
takes whole packets from `Mouse`. `HostedHeap` is `Heap` with other headers.
Components that share no state are put into one run; a variable `part` says which
one moves, so they are not interleaved with each other. The interleavings that
matter are inside the modules.

## What the runs show

A module's safety invariants are checked together, as one invariant that is the
conjunction of the named parts: `SchedSafe`, `VolumeSafe`, `FilesSafe`, `TcpSafe` and so
on. Each part is stated and explained on its own in its module. `IpcSafe` (in
`MCSchedIpc`) covers both message cores; `NothingHangs` (in `MCDevices`) and
`BlockingCallsReturn` (in `MCUiNet`) are the liveness properties of their runs' parts.

Passing:

| Run | Parts and bounds | Shows |
|---|---|---|
| `sched_ipc` | `SchedFS`: table of 4, one process too many, slice 10, 2 launches. `EventRing`: 4 slots, 2 events. `Ipc`: 3 slots, 2 texts, polls of up to 2. `ChessFs`: 2 slots, 4 sends | A switch resumes the process's own frame, `g_current` is the thread on the CPU, the page directory matches, switches go round robin and every process runs again. The ring is a bounded queue and every event it accepts is handled. No message slot is lost or shared, both cores serve by priority, and an exhausted pool recovers. |
| `volume` | `Fat12`: 2 names, 2 entries, 3 clusters, 5 calls, 1 fault. `Files`: 2 descriptors, 6 system calls. `Notepad`: 3 lines, 6 commands. `Exec`: 7 frames, two launches of 50 files. `HostedSched`: 3 processes, 4 ticks | The volume in memory stays sound through failures, files read back, the disk follows, and a power loss harms at most the file being changed. A descriptor reads its file while other files change. The editor opens what it saved. Programs own their frames and find their image; the range check equals a check byte by byte. Queues match the states, sleepers wake in time, turns are fair. |
| `ui_net` | Buffers of 2 keys, 1 event; 3 packets with 2 bytes lost; 4 windows, 5 events; lines of 3, history of 2; screen of 4 by 3, 5 characters; 3 commands over 2 entries. Two peers' numbers, 2 bytes, 2 tries, 3 calls, nesting of 1; header buffer of 6; 3 hosts, cache of 2, nesting of 2; ring of 10 units, 3 frames | Whoever waits for keys gets them. The pointer follows the hand, and a slip heals. One window has the focus and a click reaches what is seen. History, draft, output and screen show what they should. What `ls` prints can be typed; `cat` shows what was stored. Bytes are delivered once and in order, what is acknowledged is kept, nothing but body is stored, the cache is a least-recently-used map, lengths never lead past a frame, the rings keep the order in the first lap. Every blocking call, a line read or one of the stack's, returns. |
| `devices` | Images of up to 3 programs; self-tests in 2 boots on 3 entries and 3 clusters, 2 faults; 3 sectors, 3 calls; four clock modes; 2 by 2 by 3 places; 2 requests through a pipe of 2; hosted heap of 60 units, 7 calls | The image reads back and boots; the write self-test fails only for a cause and, when it reports OK, has left nothing; transfers are exact; no torn time; the card is found and keeps the bits the firmware had set; every request runs and the log and the panel are right in the end; allocations of the hosted heap do not overlap and tile it, under the conditions below. |

The bounds are the smallest at which buffers fill, rings wrap, tables overflow,
volumes run out, a retry follows a failure, and lists have a first, a middle and a
last element. Constants that the code compares with (`MAX_PROCS`, sector and header
lengths) are scaled down, except where a width is the point: mouse bytes, frame
lengths and `g_next_z` are the real ones.

Violated, each a disagreement between the code and what is written about it:

| Run | Shows |
|---|---|
| `persist_marker` | The third self-test expects its marker to survive into the next boot. `fat12_write_file` frees the clusters a deleted entry still names; after a power cut in an earlier boot these are the marker's, the next boot's tests take its cluster, and the persistence test reports FAILED. |
| `fat12_failed_flush` | A write that returns -1 can leave the FAT changed on disk. |
| `input_hook_parked` | After its first console read a program runs with its keys routed to the window manager. |
| `tui_wm_paint` | Once `g_next_z`, 8 bits wide, is 255, the painting loop does not end, with interrupts off. |
| `heap_overlap` | A freed block that takes in the free block before it keeps its own address, grows over what follows, and live allocations overlap. |
| `exec_refused` | Nothing in `Kernel/` calls `pmm_init`, so the first launch is refused for want of frames with the whole region free. |
| `http_one_chunk` | When one piece of the answer holds the empty line and the start of the body, the header is never seen to end, and `http_download` returns 0 with nothing stored. |
| `rtc_bcd` | `rtc_read_time` has the 24-hour bit and the binary bit of register B swapped: in the usual mode 23:01:58 is returned as 35:01:88. |

### Conditions of the passing runs

These hold only under assumptions that the code does not enforce.

- `Fat12`, `Files` in `volume`: `ReuseStaleSlot = FALSE`, no file is written straight into
  a deleted entry that names a cluster. Such a write can free another file's
  clusters. `BootTests` has `ReuseStaleSlot = TRUE`, in `devices` and in `persist_marker`.
- `Files`: `FilesSafe` says nothing of a descriptor that was itself written through.
- `HostedHeap`: `Lifo`, frees come in reverse order. `heap_overlap`, about `Heap` as the
  freestanding kernel has it, drops this. The hosted heap also has room for everything
  held at once, so blocks are not kept by size class: on a heap of 22 units
  `BlocksTileHeap` of `Heap` fails even with `Lifo`, and with frees in any order `AllocFits`
  fails, because a 48-byte block is filed under the 64-byte class (`mm/mm_fs.c:72`).
  No passing run is about `Heap` itself: the kernel does not keep to the order, as
  `user_prog_exec` frees the file buffer (`fs/elf.c:636`) before the trap stack allocated
  after it (`fs/elf.c:660`).
- `Exec` in `volume`: `PmmInitCalled = TRUE`, the loader as it would be if `pmm_init` were
  called. `exec_refused` has the tree as it stands, in which no program is launched.
- `BootTests`: `FailsOnlyByLeftover` excepts a `_TSTDIR` found at the mount, and a boot in
  which a call failed for the disk or for room. A read of the disk that fails counts
  as such a call.
- `TuiWM`: nothing is claimed once a drag has outlived its window. Esc can close the
  window being dragged, and the next packet writes through the old pointer. The focus
  falls to the window created last, not to the topmost one.
- `HostedSched`: `process_join` is not called on the process that ran last; it has no
  caller.
- `Mouse`: `PointerFollows` is about packets with no byte lost and a horizontal movement
  within -16 .. 127, beyond which the marker test or the sign goes wrong.
- `Ata`: `SlowDrive = FALSE`, a drive that is alive answers before the driver gives up.
  Without it a late answer is taken for the next command's, and `ReadExact` and
  `WriteExact` fail. `WriteExact` also excepts sectors refused after their data was
  taken: the status is not looked at again.
- `Rtc`: `HeldUp = FALSE`, the reader is not held up for longer than the clock announces
  an update. The only caller, `clock_draw`, runs between `cli` and `sti` of
  `tui_composite`, so no interrupt holds it up.
- `Boot`: kernels end below the FAT's buffer (256 sectors). A longer one, which
  `mkimage.py` accepts, overwrites it while it is read.
- `Tcp`: `DeliveredInOrder` and `AckedIsKept` are about a connection that began with an
  empty receive buffer, the latter about a peer whose numbers are above the client's;
  `SentIsReceivedBelow` about one whose numbers are below. In the other case
  `tcp_send` can report bytes the peer never got, since `ack_num` serves both directions.
  In the run one transmission at a time waits for an address (`MaxDepth` 1).
- `Rtl8139`: `FirstLapInOrder` is about the first lap of the ring and a driver that has
  not taken old memory for a header: `kmalloc` does not clear the ring, and `rtl8139_poll`
  tests one bit of what it finds there. After the first lap old headers are met again,
  and the card wraps inside a frame where the driver does not.
- `Http`: `StoredIsBody` and `EndsWithBody` say that nothing but body is stored and that a
  download that ends early is whole. They do not say that a body is stored at all:
  `http_one_chunk` shows that it need not be. `StoredIsBody` is about answers that fit
  into the header buffer.
- `ShellWindow`: the first line of the output and the first character of every line are
  under the frame and not shown; a cell without a character keeps what it showed.
- `Commands`: names without inner blanks, and paths that fit. `touch`, `mkdir` and `pkg`
  also accept a name with a blank or only a dot, which `ls` prints under a name that
  finds nothing.
- `Gui`: the message queue has room. A full one drops lines and refreshes. The log is
  shorter than the text limit of its control.

### Fairness

- `SchedFS`: the timer keeps interrupting and the boot thread advances when it has
  the CPU. Nothing makes a program exit; launches are bounded, since each one
  resets the slice.
- `EventRing`: the main loop keeps running.
- `Ipc`: polls keep coming. There is no polling loop; every command that sends
  also polls afterwards (`kernel/kernel.c:24`, `164`, `170`).
- `Input`: the thread keeps running, and Enter is pressed again and again, some
  of the time with room in the buffer (strong fairness: a full buffer drops it).
  This is an assumption about the user.
- `TuiWM` (`tui_wm_paint` only): the loop keeps running.
- `Tcp`, `Http`, `NetLink`: the loops poll, and their counters run out. Of the polls only
  that of a call that waits is assumed to go on. Timeouts are counted in rounds or
  ticks by the code, so no message has to arrive; segments that keep arriving do not
  stop a count, hence strong fairness for the timeouts of `Tcp`.
- `Boot`, `Ata`: the processor runs the loader and the driver, and a drive that is alive
  answers. A dead one does not, and the bounded polls end.
- `Gui`: Windows runs the three threads. Nothing makes a user click.

## What is proved

Each proof module extends its component. The invariants in question are not
inductive by themselves; the strengthening is given with each.

| Module | Assumes | Theorems |
|---|---|---|
| `SchedFSProofs` | table and slice not empty | `TypeCorrect`, `SwitchesAreSafe`, `BookkeepingIsRight`, `AddressSpacesAreRight`, and with them `SchedulerIsSafe`; `RoundRobinRefinement` |
| `EventRingProofs` | at least two slots | `RingTypeCorrect`, `HandIsStable`, `QueueRefinement` |
| `InputProofs` | the types of the constants | `LinesFit`, `WaitersAreServed`, with them `InputIsSafe` |
| `AtaProofs` | `Reasonable` | `AtaTypeCorrect`, `ReadsAreExact`, `WritesAreExact`, with them `TransfersAreExact`; `CursorIsExact` (this one without `Reasonable`) |
| `RtcProofs` | not `HeldUp` | `NoTornTime` |
| `BootTestsProofs` | clusters are numbered below FAT12's special values, `ReuseStaleSlot` | `FailureHasACause`, `OkIsClean`, with them `SelfTestsAreSound` |
| `GuiProofs` | nothing | `NoLostWakeup`, `RequestsRunInOrder` |

- `SchedInv`: whether a switch is safe depends on where the boot thread stands.
  Preemption is off exactly inside a launch, a slot being built is not counted until
  its frame is stored, and counted processes use the kernel's page directory.
  The refinement goes step by step from it.
- `RingInv` says where the consumer's pointer is: at the tail while it gets, one slot
  behind it while it handles. The slot kept free by `key_queue_full` is then the one
  in use.
- `InputInv`: the type invariant and the routing together, with the limit of the line
  a number. The flag is right at both waits because every path to a wait sets it.
- `AtaInv`: while the drive is alive, it works on the driver's last command
  (`InStep`), and the sectors behind the driver's counter are the ones moved
  (`Moved`); a sector being stored counts only once the drive is done. `Reasonable` says
  that a drive answers in time, that seeks are within the command registers, and
  that the drive does not fill these, so that a transfer past the last sector does
  not come round to the first.
- `RtcInv`: all registers read so far are from the time the clock still shows, as an
  update announced after the wait comes only after the reading.
- `TestsInv`: over the driver step by step, for a volume of any size. A directory is
  the set of its names as long as none appears twice and no entry that was never used
  comes before one in use (`Dir`, in `Media`); each step of a call keeps that and adds or
  drops the call's one name (`Running`); and while no call has failed, the names that
  are there at each step of the script are known (`Script`). The search for an entry and
  the reading of a chain are recursive functions; the induction over them is done with
  sets of numbers, from the library's theorem on well-founded relations.
- `RequestInv`: the request waiting is newer than the last one begun, and the worker
  is not asleep on it.

Proved for every value of the constants, and in no run: `RingTypeOK`,
`EventInHandStable` (no interrupt overwrites the slot in the consumer's hand),
`CursorOnSuccess` (the disk's cursor moves only by a seek or past a whole transfer) and
`RunsInOrder` (no request is begun twice or after a later one).

Everything else is model-checked only. Liveness under fairness is out of the prover's
reach; so are `Heap` and `HostedHeap`, which use a recursive operator, and what
recursive functions compute for every input (`Boot`, `Commands`).

## Observed without a run

Behaviour met while modelling which no document contradicts, or which is outside
what a run asks. The models have it unless said otherwise.

- Files: a descriptor keeps the first cluster it was opened with, so after a write
  through it, it does not read what was written (`arch/syscall.c:323`). Descriptors
  stay open over `SYS_EXIT`. `sys_open` creates a file before it looks at the mode. A
  console write may have printed chunks before it fails.
- Editor: a file as long as the transfer buffer loads empty; saving drops lines that
  do not fit; a failed write is reported as 4294967295 bytes.
- Self-tests: a `_TSTDIR` left by a power cut makes all later boots report FAILED.
- Shell: names of nine characters and more are cut, so long names can be the same
  file. `cat` of an empty file says that reading failed, shows CR as a newline, and does
  not tell a typed `\x` from an escape. Down after Up, Up shows the second-newest line
  again. `clear` empties the buffer, not the window's surface.
- Hosted scheduler: zombies are never in the ring, so none is reaped, and a join of a
  process that is not a zombie always times out.
- Loader: a launch that fails does not give its frames back.
- Image builder: a program that begins inside the volume and ends past it is accepted,
  and the image gets longer than the floppy.
- PCI: the value for "not found" is the address of the last function of the last bus.
- Mouse: the vertical axis is not inverted; its handler sends a second end of
  interrupt after the dispatcher's.
- TCP: a reset handled while the answer to a SYN-ACK waits for an address is
  overwritten by ESTABLISHED. A connection the peer has closed is left in TIME_WAIT.
- Hosted console: one request waits at a time, so a click can replace the RESET of the
  start. The panel reads the kernel while the worker changes it, and the
  configuration is written without a lock (not modelled).

## Not modelled

- CPU exceptions, which halt the machine; CPU tables, filled once before interrupts
  are enabled; the serial port; mode switching and A20 in the boot sector.
- `vga_write` and `vga_write_u32`, which put boot messages and the report of an exception
  into fixed rows of the screen; the cursor does not move.
- `net/json.c` and the functions nothing calls (`vga_putc_attr`, `vga_set_cursor`,
  `krealloc`): code that cannot run has no behaviour to check.
- Commands and functions that only print, and the tokeniser and demonstration of
  `kernel/kernel.c`: text in, text out, no state kept. The driver registry of the
  hosted build is a list that only grows at start-up.
- Building the controls of the hosted window: calls of Windows with fixed arguments.
- `g_nprocs` is not volatile. `SchedFS` takes its stores in program order.
- `kfree` of the trap stack leaves `esp0` of the TSS pointing to it until the next
  launch sets it.
- `Fat12` stops recording what files should hold at a power loss; what holds
  afterwards is `CrashSparesOthers`.
- Contents are texts or numbers wherever a property does not look into them, and
  checksums are right: a packet whose checksum is wrong is one of the lost ones.
- `Heap` leaves out the last 8 bytes of the 32-bit arena.
- `Ipc` also sends payloads the receiver does not know, at any priority. The
  exported `msg_send` accepts them; nothing in the tree sends them.
