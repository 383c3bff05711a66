---------------------------------- MODULE Ata ----------------------------------
(***************************************************************************)
(* The polling ATA driver, Kernel/drivers/ata.c, with the drive it talks   *)
(* to.  A sector is one value.  The two polling loops end when the drive   *)
(* answers or after a million reads of the status register; a drive that   *)
(* has not answered by then is dead (the comment in ata_poll_bsy), unless  *)
(* SlowDrive says that it may still answer later.                          *)
(***************************************************************************)
EXTENDS Integers, Sequences

CONSTANTS Lba,        \* sectors of the drive, 0 ..
          LBA_SPACE,  \* 2^28: how far the command registers reach
          Seeks,      \* cursors asked for
          Contents,   \* what is written
          MaxSectors, \* sectors in one call
          SlowDrive,  \* can a drive answer after the driver has given up?
          MaxAtaCalls \* bound on calls

ASSUME AtaAssumption ==
    /\ Lba \subseteq Nat /\ LBA_SPACE \in Nat /\ \A l \in Lba : l < LBA_SPACE
    /\ Seeks \subseteq Nat /\ MaxSectors \in Nat /\ MaxAtaCalls \in Nat
    /\ SlowDrive \in BOOLEAN

VARIABLES cur_lba,   \* g_ata_dev.cur_lba
          apc,       \* where the driver is
          acall,     \* the call being served
          drive,     \* the drive: status, command, sector, its data, and whether it works
          medium,    \* what is on the disk
          ret,       \* what the last call returned
          before,    \* the disk when the call began
          late,      \* sectors of the call the drive has refused after taking the data
          acalls

ataVars == <<cur_lba, apc, acall, drive, medium, ret, before, late, acalls>>

NoCall == [op |-> "none", lba |-> 0, n |-> 0, i |-> 0, buf |-> <<>>]
NoData == <<"bus", 0>>
NoReturn == [call |-> NoCall, got |-> 0]

\* ata_init has probed the drive with a read.
AtaInit ==
    /\ cur_lba = 0 /\ apc = "idle" /\ acall = NoCall
    /\ drive = [st |-> "idle", cmd |-> "none", lba |-> 0, data |-> NoData, alive |-> TRUE]
    /\ medium = [l \in Lba |-> <<"sector", l>>] /\ before = medium
    /\ ret = NoReturn /\ late = {} /\ acalls = 0

-------------------------------------------------------------------------------
(* The drive, as the driver uses it.                                       *)

\* It takes a command unless it is busy with another one.
Takes(cmd, l) ==
    IF drive.st = "busy" THEN drive
    ELSE [drive EXCEPT !.st = "busy", !.cmd = cmd, !.lba = l % LBA_SPACE]

\* It answers a command: with its data, or with an error, always so for a sector it has not.
DriveAnswers ==
    /\ drive.st = "busy" /\ drive.alive /\ drive.cmd \in {"read", "write"}
    /\ drive' \in {[drive EXCEPT !.st = s] : s \in IF drive.lba \in Lba THEN {"drq", "err"} ELSE {"err"}}
    /\ UNCHANGED <<cur_lba, apc, acall, medium, ret, before, late, acalls>>
\* It has taken a sector's data and stores it, or reports an error afterwards.
DriveStores ==
    /\ drive.st = "busy" /\ drive.alive /\ drive.cmd = "store"
    /\ \/ /\ medium' = [medium EXCEPT ![drive.lba] = drive.data]
          /\ drive' = [drive EXCEPT !.st = "idle", !.cmd = "none", !.data = NoData] /\ UNCHANGED late
       \/ /\ drive' = [drive EXCEPT !.st = "err", !.cmd = "none", !.data = NoData] /\ UNCHANGED medium
          /\ late' = late \cup {drive.lba}
    /\ UNCHANGED <<cur_lba, apc, acall, ret, before, acalls>>
DriveDies ==
    /\ drive.alive /\ drive' = [drive EXCEPT !.alive = FALSE, !.st = "busy"]
    /\ UNCHANGED <<cur_lba, apc, acall, medium, ret, before, late, acalls>>

\* A million reads of the status register without an answer.
SpinsOut == drive.st = "busy" /\ (SlowDrive \/ ~drive.alive)

-------------------------------------------------------------------------------
(* The driver.                                                             *)

Return(got) ==
    /\ apc' = "idle" /\ acall' = NoCall
    /\ ret' = [call |-> acall, got |-> got]
    /\ UNCHANGED <<medium, before, late, acalls>>

\* ata_drv_ioctl, ATA_IOCTL_SEEK.
Seek(l) ==
    /\ apc = "idle" /\ acalls < MaxAtaCalls /\ acalls' = acalls + 1
    /\ cur_lba' = l /\ UNCHANGED <<apc, acall, drive, medium, ret, before, late>>

\* ata_drv_read and ata_drv_write of n sectors; data is what is to be written.
Begin(op, n, data) ==
    /\ apc = "idle" /\ acalls < MaxAtaCalls /\ acalls' = acalls + 1
    /\ before' = medium /\ late' = {}
    /\ IF n = 0
       THEN /\ ret' = [call |-> [op |-> op, lba |-> cur_lba, n |-> 0, i |-> 0, buf |-> <<>>], got |-> 0]
            /\ UNCHANGED <<apc, acall>>
       ELSE /\ apc' = "start" /\ UNCHANGED ret
            /\ acall' = [op |-> op, lba |-> cur_lba, n |-> n, i |-> 1, buf |-> data]
    /\ UNCHANGED <<cur_lba, drive, medium>>

\* ata_start: the command goes out once the drive is not busy, or after the last spin.
ata_start ==
    /\ apc = "start" /\ (drive.st # "busy" \/ SpinsOut)
    /\ drive' = Takes(acall.op, acall.lba + acall.i - 1)
    /\ apc' = "drq" /\ UNCHANGED <<cur_lba, acall, medium, ret, before, late, acalls>>

\* ata_poll_drq; without data the call ends with the sectors transferred so far.
ata_poll_drq ==
    /\ apc = "drq" /\ (drive.st # "busy" \/ SpinsOut)
    /\ IF drive.st = "drq"
       THEN apc' = "words" /\ UNCHANGED <<acall, medium, ret, before, late, acalls>>
       ELSE Return(acall.i - 1)
    /\ UNCHANGED <<cur_lba, drive>>

\* ata_read_256_words and ata_write_256_words.
Words ==
    /\ apc = "words" /\ apc' = "done"
    /\ IF acall.op = "read"
       THEN /\ acall' = [acall EXCEPT !.buf = Append(@, IF drive.st = "drq" THEN medium[drive.lba] ELSE NoData)]
            /\ drive' = IF drive.alive THEN [drive EXCEPT !.st = "idle", !.cmd = "none"] ELSE drive
       ELSE /\ UNCHANGED acall
            /\ drive' = IF drive.alive
                        THEN [drive EXCEPT !.st = "busy", !.cmd = "store", !.data = acall.buf[acall.i]]
                        ELSE drive
    /\ UNCHANGED <<cur_lba, medium, ret, before, late, acalls>>

\* Mutant: the next sector is begun while the drive still stores this one.
DoneAtOnce ==
    /\ apc = "done"
    /\ IF acall.i < acall.n
       THEN /\ apc' = "start" /\ acall' = [acall EXCEPT !.i = @ + 1]
            /\ UNCHANGED <<cur_lba, medium, ret, before, late, acalls>>
       ELSE Return(acall.n) /\ cur_lba' = acall.lba + acall.n
    /\ UNCHANGED drive
\* ata_poll_bsy after the data, and the loop over the sectors.
Done ==
    /\ apc = "done" /\ (drive.st # "busy" \/ SpinsOut)
    /\ IF acall.i < acall.n
       THEN /\ apc' = "start" /\ acall' = [acall EXCEPT !.i = @ + 1]
            /\ UNCHANGED <<cur_lba, medium, ret, before, late, acalls>>
       ELSE Return(acall.n) /\ cur_lba' = acall.lba + acall.n
    /\ UNCHANGED drive

Driver == ata_start \/ ata_poll_drq \/ Words \/ Done
Drive == DriveAnswers \/ DriveStores \/ DriveDies
Callers ==
    \/ \E l \in Seeks : Seek(l)
    \/ \E n \in 0 .. MaxSectors :
         \/ Begin("read", n, <<>>)
         \/ \E data \in [1 .. n -> Contents] : Begin("write", n, data)
AtaNext == Driver \/ Drive \/ Callers \/ (apc = "idle" /\ UNCHANGED ataVars)
AtaSpec == AtaInit /\ [][AtaNext]_ataVars

-------------------------------------------------------------------------------
(* Properties.                                                             *)

\* A transfer is within its call, and data comes from sectors the drive has.
AtaTypeOK ==
    /\ apc \in {"idle", "start", "drq", "words", "done"} /\ DOMAIN medium = Lba
    /\ apc # "idle" => acall.i \in 1 .. acall.n
    /\ drive.st = "drq" => drive.lba \in Lba

AtRest == apc = "idle" /\ drive.alive

\* What a read says it got is what those sectors of the disk hold, in their order,
\* whatever has failed before or in the middle.
ReadExact ==
    AtRest /\ ret.call.op = "read" =>
        \A k \in 1 .. ret.got : ret.call.buf[k] = before[ret.call.lba + k - 1]

\* What a write says it wrote is on the disk in its place, and nothing else has
\* changed; excepted are sectors the drive refuses once it has their data, since the
\* status is not looked at after the last poll, and a drive that has died.
WriteExact ==
    AtRest /\ ret.call.op = "write" =>
        medium = [l \in Lba |-> IF l \in (ret.call.lba .. ret.call.lba + ret.got - 1) \ late
                                THEN ret.call.buf[l - ret.call.lba + 1] ELSE before[l]]

\* The cursor moves by a seek or past a call that has transferred everything: a call
\* that is repeated after a failure transfers the same sectors again.
CursorOnSuccess ==
    [][cur_lba' # cur_lba /\ apc # "idle" => ret'.got = acall.n /\ cur_lba' = acall.lba + acall.n]_ataVars

\* "Bound the loop so a dead drive can't hang us": every call returns, whenever the
\* drive dies.
AtaReturns == apc # "idle" ~> apc = "idle"

\* Transfers stay within their call and do what the driver reports.
AtaSafe == AtaTypeOK /\ ReadExact /\ WriteExact
===============================================================================
