------------------------------ MODULE AtaProofs ------------------------------
(***************************************************************************)
(* Proofs about Ata for every drive, every transfer length, any contents   *)
(* and any number of calls.                                                *)
(***************************************************************************)
EXTENDS Ata, TLAPS

Values == {<<"sector", l>> : l \in Lba} \cup Contents \cup {NoData}
CallType == [op : {"none", "read", "write"}, lba : Nat, n : Nat, i : Nat, buf : Seq(Values)]
DriveType == [st : {"idle", "busy", "drq", "err"}, cmd : {"none", "read", "write", "store"},
              lba : Nat, data : Values, alive : BOOLEAN]

AtaShape ==
    /\ apc \in {"idle", "start", "drq", "words", "done"} /\ cur_lba \in Nat
    /\ acall \in CallType /\ drive \in DriveType
    /\ medium \in [Lba -> Values] /\ before \in [Lba -> Values] /\ late \subseteq Lba
    /\ ret \in [call : CallType, got : Nat]
    /\ apc # "idle" => /\ acall.i \in 1 .. acall.n /\ acall.op \in {"read", "write"}
                       /\ acall.lba = cur_lba
                       /\ acall.op = "write" => Len(acall.buf) = acall.n
    /\ drive.st = "drq" => drive.lba \in Lba

\* The sector the driver is at.
Here == acall.lba + acall.i - 1

\* The drive works on the command the driver has given last, and never on one the
\* driver has left behind.
InStep ==
    /\ cur_lba < LBA_SPACE
    /\ apc # "idle" => Here < LBA_SPACE
    /\ apc \in {"idle", "start"} => drive.st \in {"idle", "err"}
    /\ apc = "drq" => /\ drive.cmd = acall.op /\ drive.lba = Here
                      /\ drive.st \in {"busy", "drq", "err"}
    /\ apc = "words" => drive.cmd = acall.op /\ drive.lba = Here /\ drive.st = "drq"
    /\ apc = "done" => /\ Here \in Lba /\ drive.st # "drq"
                       /\ drive.st = "busy" => /\ acall.op = "write" /\ drive.cmd = "store"
                                               /\ drive.lba = Here
                                               /\ drive.data = acall.buf[acall.i]

\* The sectors of the call that are done with.
Behind == IF apc = "done" /\ drive.st # "busy" THEN acall.i ELSE acall.i - 1
Fetched(c, n) == \A k \in 1 .. n : c.buf[k] = before[c.lba + k - 1]
Stored(c, n) ==
    medium = [l \in Lba |-> IF l \in (c.lba .. c.lba + n - 1) \ late
                            THEN c.buf[l - c.lba + 1] ELSE before[l]]
Moved ==
    /\ apc # "idle" /\ acall.op = "read" =>
         medium = before /\ Len(acall.buf) = Behind /\ Fetched(acall, Behind)
    /\ apc # "idle" /\ acall.op = "write" =>
         Stored(acall, Behind) /\ \A l \in late : l < acall.lba + Behind
    /\ apc = "idle" /\ ret.call.op = "read" => Fetched(ret.call, ret.got)
    /\ apc = "idle" /\ ret.call.op = "write" => Stored(ret.call, ret.got)

AtaInv == AtaShape /\ (drive.alive => InStep /\ Moved)

\* A drive that answers in time, seeks within the command registers, and a drive that
\* does not fill them: a transfer past the last sector must not come round to the first.
Reasonable ==
    ~SlowDrive /\ (\A l \in Seeks : l < LBA_SPACE) /\ (\A l \in Lba : l + 1 < LBA_SPACE)
        /\ LBA_SPACE > 0

LEMMA ModSmall == ASSUME NEW x \in Nat, NEW n \in Nat \ {0}, x < n PROVE x % n = x
OBVIOUS

LEMMA AtaInitInv == ASSUME Reasonable PROVE AtaInit => AtaInv
<1> SUFFICES ASSUME AtaInit PROVE AtaInv
  OBVIOUS
<1> USE AtaAssumption DEF AtaInit, NoCall, NoReturn
<1>1. AtaShape
  BY DEF AtaShape, CallType, DriveType, Values
<1>2. InStep
  BY DEF InStep, Reasonable
<1>3. Moved
  BY DEF Moved
<1> QED BY <1>1, <1>2, <1>3 DEF AtaInv

-------------------------------------------------------------------------------
(* One lemma for each action: the shape, then the working drive.           *)

LEMMA SeekStep ==
    ASSUME Reasonable, AtaInv, NEW l \in Seeks, Seek(l) PROVE AtaInv'
<1> USE AtaAssumption DEF Seek
<1>1. AtaShape'
  BY DEF AtaInv, AtaShape
<1>2. ASSUME drive.alive PROVE InStep' /\ Moved'
  <2>1. InStep'
    BY <1>2 DEF AtaInv, AtaShape, InStep, Here, Reasonable
  <2>2. Moved'
    BY <1>2 DEF AtaInv, Moved, Fetched, Stored, Behind
  <2> QED BY <2>1, <2>2
<1> QED BY <1>1, <1>2 DEF AtaInv

LEMMA BeginStep ==
    ASSUME Reasonable, AtaInv, NEW op \in {"read", "write"}, NEW n \in 0 .. MaxSectors,
           NEW data \in Seq(Values), IF op = "read" THEN data = <<>> ELSE Len(data) = n,
           Begin(op, n, data)
    PROVE  AtaInv'
<1> USE AtaAssumption
<1>1. CASE n = 0
  <2> USE <1>1 DEF Begin
  <2>1. ret' = [call |-> [op |-> op, lba |-> cur_lba, n |-> 0, i |-> 0, buf |-> <<>>], got |-> 0]
    OBVIOUS
  <2>2. AtaShape'
    BY <2>1 DEF AtaInv, AtaShape, CallType
  <2>3. ASSUME drive.alive PROVE InStep' /\ Moved'
    <3>1. InStep'
      BY <2>3 DEF AtaInv, InStep, Here
    <3>2. Fetched(ret.call, ret.got)'
      BY <2>1 DEF Fetched
    <3>3. Stored(ret.call, ret.got)'
      BY <2>1 DEF Stored, AtaInv, AtaShape
    <3> QED BY <3>1, <3>2, <3>3 DEF Moved, AtaInv, AtaShape
  <2> QED BY <2>2, <2>3 DEF AtaInv
<1>2. CASE n # 0
  <2> USE <1>2 DEF Begin
  <2>1. acall' = [op |-> op, lba |-> cur_lba, n |-> n, i |-> 1, buf |-> data] /\ apc' = "start"
    OBVIOUS
  <2>2. AtaShape'
    BY <2>1 DEF AtaInv, AtaShape, CallType
  <2>3. ASSUME drive.alive PROVE InStep' /\ Moved'
    <3>1. InStep'
      BY <2>1, <2>3 DEF AtaInv, AtaShape, InStep, Here
    <3>2. Behind' = 0
      BY <2>1 DEF Behind
    <3>3. acall'.op = "read" => Len(acall'.buf) = 0
      BY <2>1
    <3>4. Fetched(acall, Behind)' /\ Stored(acall, Behind)'
      BY <2>1, <3>2 DEF Fetched, Stored, AtaInv, AtaShape
    <3> QED BY <2>1, <3>1, <3>2, <3>3, <3>4 DEF Moved, AtaInv, AtaShape
  <2> QED BY <2>2, <2>3 DEF AtaInv
<1> QED BY <1>1, <1>2

LEMMA StartStep ==
    ASSUME Reasonable, AtaInv, ata_start PROVE AtaInv'
<1> USE AtaAssumption DEF ata_start
<1>1. Here \in Nat /\ Here % LBA_SPACE \in Nat
  BY DEF Here, AtaInv, AtaShape, CallType, Reasonable
<1>2. AtaShape'
  BY <1>1 DEF AtaInv, AtaShape, DriveType, CallType, Takes, Here
<1>3. ASSUME drive.alive PROVE InStep' /\ Moved'
  <2>1. Here < LBA_SPACE /\ drive.st # "busy"
    BY <1>3 DEF AtaInv, InStep
  <2>2. Here % LBA_SPACE = Here
    BY <1>1, <2>1, ModSmall
  <2>3. drive' = [drive EXCEPT !.st = "busy", !.cmd = acall.op, !.lba = Here]
    BY <2>1, <2>2 DEF Takes, Here
  <2>4. InStep'
    BY <1>3, <2>1, <2>3 DEF AtaInv, AtaShape, DriveType, InStep, Here
  <2>5. Behind' = Behind
    BY DEF Behind
  <2>6. Moved'
    BY <1>3, <2>5 DEF AtaInv, Moved, Fetched, Stored
  <2> QED BY <2>4, <2>6
<1>4. drive'.alive = drive.alive
  BY DEF Takes, AtaInv, AtaShape, DriveType
<1> QED BY <1>2, <1>3, <1>4 DEF AtaInv

LEMMA PollStep ==
    ASSUME Reasonable, AtaInv, ata_poll_drq PROVE AtaInv'
<1> USE AtaAssumption DEF ata_poll_drq
<1>1. CASE drive.st = "drq"
  <2>1. apc' = "words" /\ UNCHANGED <<acall, medium, ret, before, late>>
    BY <1>1
  <2>2. AtaShape'
    BY <2>1 DEF AtaInv, AtaShape
  <2>3. ASSUME drive.alive PROVE InStep' /\ Moved'
    <3>1. InStep'
      BY <1>1, <2>1, <2>3 DEF AtaInv, InStep, Here
    <3>2. Behind' = Behind
      BY <2>1 DEF Behind
    <3> QED BY <2>1, <2>3, <3>1, <3>2 DEF AtaInv, Moved, Fetched, Stored
  <2> QED BY <2>2, <2>3 DEF AtaInv
<1>2. CASE drive.st # "drq"
  <2>1. /\ apc' = "idle" /\ acall' = NoCall /\ ret' = [call |-> acall, got |-> acall.i - 1]
        /\ UNCHANGED <<medium, before, late>>
    BY <1>2 DEF Return
  <2>2. AtaShape'
    BY <2>1 DEF AtaInv, AtaShape, CallType, NoCall
  <2>3. ASSUME drive.alive PROVE InStep' /\ Moved'
    <3>1. drive.st \in {"idle", "err"}
      BY <1>2, <2>3 DEF AtaInv, InStep, SpinsOut, Reasonable
    <3>2. InStep'
      BY <2>1, <2>3, <3>1 DEF AtaInv, InStep
    <3>3. Behind = acall.i - 1
      BY DEF Behind
    <3>4. acall.op = "read" => Fetched(ret.call, ret.got)'
      BY <2>1, <2>3, <3>3 DEF AtaInv, Moved, Fetched
    <3>5. acall.op = "write" => Stored(ret.call, ret.got)'
      BY <2>1, <2>3, <3>3 DEF AtaInv, Moved, Stored
    <3> QED BY <2>1, <3>2, <3>4, <3>5 DEF Moved
  <2> QED BY <2>2, <2>3 DEF AtaInv
<1> QED BY <1>1, <1>2

LEMMA WordsStep ==
    ASSUME Reasonable, AtaInv, Words PROVE AtaInv'
<1> USE AtaAssumption DEF Words
<1>1. CASE acall.op = "read"
  <2> DEFINE got == IF drive.st = "drq" THEN medium[drive.lba] ELSE NoData
  <2>1. /\ acall' = [acall EXCEPT !.buf = Append(@, got)] /\ apc' = "done"
        /\ drive' = IF drive.alive THEN [drive EXCEPT !.st = "idle", !.cmd = "none"] ELSE drive
    BY <1>1
  <2>2. got \in Values
    BY DEF AtaInv, AtaShape, Values
  <2> HIDE DEF got
  <2>3. acall.buf \in Seq(Values) /\ Append(acall.buf, got) \in Seq(Values)
    BY <2>2 DEF AtaInv, AtaShape, CallType
  <2>4. AtaShape'
    BY <2>1, <2>3 DEF AtaInv, AtaShape, CallType, DriveType
  <2>5. ASSUME drive.alive PROVE InStep' /\ Moved'
    <3>1. drive.lba = Here /\ drive.st = "drq" /\ Here \in Lba
      BY <2>5 DEF AtaInv, InStep, AtaShape
    <3>2. Here' = Here /\ drive'.st = "idle"
      BY <2>1, <2>5 DEF Here, AtaInv, AtaShape, CallType, DriveType
    <3>3. InStep'
      BY <2>1, <2>5, <3>1, <3>2 DEF AtaInv, InStep
    <3>4. Behind = acall.i - 1 /\ Behind' = acall.i /\ acall'.lba = acall.lba /\ acall'.i = acall.i
      BY <2>1, <3>2 DEF Behind, AtaInv, AtaShape, CallType
    <3>5. /\ medium = before /\ Len(acall.buf) = acall.i - 1
          /\ \A k \in 1 .. acall.i - 1 : acall.buf[k] = before[acall.lba + k - 1]
      BY <1>1, <2>5, <3>4 DEF AtaInv, Moved, Fetched
    <3>6. acall'.buf = Append(acall.buf, got) /\ Len(acall'.buf) = acall.i
      BY <2>1, <2>2, <2>3, <3>5 DEF AtaInv, AtaShape, CallType
    <3>7. got = before[acall.lba + acall.i - 1]
      BY <3>1, <3>5 DEF got, Here
    <3>8. \A k \in 1 .. acall.i : acall'.buf[k] = before[acall.lba + k - 1]
      <4> SUFFICES ASSUME NEW k \in 1 .. acall.i
                   PROVE  acall'.buf[k] = before[acall.lba + k - 1]
        OBVIOUS
      <4> acall.i \in Nat /\ acall.lba \in Nat
        BY DEF AtaInv, AtaShape, CallType
      <4>1. CASE k = acall.i
        <5>1. Append(acall.buf, got)[Len(acall.buf) + 1] = got
          BY <2>2, <2>3
        <5> QED BY <3>5, <3>6, <3>7, <4>1, <5>1
      <4>2. CASE k \in 1 .. acall.i - 1
        <5>1. Append(acall.buf, got)[k] = acall.buf[k]
          BY <2>2, <2>3, <3>5, <4>2
        <5> QED BY <3>5, <3>6, <4>2, <5>1
      <4> QED BY <4>1, <4>2
    <3>9. Fetched(acall, Behind)'
      BY <3>4, <3>8 DEF Fetched
    <3> QED BY <1>1, <2>1, <3>3, <3>4, <3>5, <3>6, <3>9 DEF Moved, AtaInv, AtaShape, CallType
  <2>6. drive'.alive = drive.alive
    BY <2>1 DEF AtaInv, AtaShape, DriveType
  <2> QED BY <2>4, <2>5, <2>6 DEF AtaInv
<1>2. CASE acall.op # "read"
  <2>1. /\ acall' = acall /\ apc' = "done"
        /\ drive' = IF drive.alive
                    THEN [drive EXCEPT !.st = "busy", !.cmd = "store", !.data = acall.buf[acall.i]]
                    ELSE drive
    BY <1>2
  <2>2. AtaShape'
    <3>1. acall.i \in DOMAIN acall.buf
      BY <1>2 DEF AtaInv, AtaShape, CallType
    <3>2. acall.buf[acall.i] \in Values
      BY <3>1 DEF AtaInv, AtaShape, CallType
    <3>3. drive' \in DriveType /\ (drive'.st = "drq" => drive'.lba \in Lba)
      BY <2>1, <3>2 DEF AtaInv, AtaShape, DriveType
    <3> QED BY <2>1, <3>3 DEF AtaInv, AtaShape
  <2>3. ASSUME drive.alive PROVE InStep' /\ Moved'
    <3>1. drive.lba = Here /\ Here \in Lba /\ acall.op = "write"
      BY <1>2, <2>3 DEF AtaInv, InStep, AtaShape
    <3>2. InStep'
      BY <2>1, <2>3, <3>1 DEF AtaInv, InStep, AtaShape, DriveType, Here
    <3>3. Behind' = Behind
      BY <2>1, <2>3 DEF Behind, AtaInv, AtaShape, DriveType
    <3> QED BY <2>1, <2>3, <3>1, <3>2, <3>3 DEF AtaInv, Moved, Stored
  <2>4. drive'.alive = drive.alive
    BY <2>1 DEF AtaInv, AtaShape, DriveType
  <2> QED BY <2>2, <2>3, <2>4 DEF AtaInv
<1> QED BY <1>1, <1>2

LEMMA DoneStep ==
    ASSUME Reasonable, AtaInv, Done PROVE AtaInv'
<1> USE AtaAssumption DEF Done
<1>0. acall.i \in Nat /\ acall.n \in Nat /\ acall.lba \in Nat /\ acall.i \in 1 .. acall.n
  BY DEF AtaInv, AtaShape, CallType
<1>1. CASE acall.i < acall.n
  <2>1. /\ apc' = "start" /\ acall' = [acall EXCEPT !.i = @ + 1]
        /\ UNCHANGED <<cur_lba, drive, medium, ret, before, late>>
    BY <1>1
  <2>2. /\ acall'.i = acall.i + 1 /\ acall'.lba = acall.lba /\ acall'.op = acall.op
        /\ acall'.n = acall.n /\ acall'.buf = acall.buf /\ acall' \in CallType
    <3>1. acall \in CallType
      BY DEF AtaInv, AtaShape
    <3> QED BY <1>0, <2>1, <3>1 DEF CallType
  <2>3. AtaShape'
    BY <1>0, <1>1, <2>1, <2>2 DEF AtaInv, AtaShape
  <2>4. ASSUME drive.alive PROVE InStep' /\ Moved'
    <3>1. drive.st \in {"idle", "err"} /\ Here \in Lba
      BY <2>4 DEF AtaInv, AtaShape, DriveType, InStep, SpinsOut, Reasonable
    <3>2. Here' = Here + 1 /\ Here' < LBA_SPACE
      BY <1>0, <2>2, <3>1 DEF Here, Reasonable
    <3>3. InStep'
      BY <2>1, <2>4, <3>1, <3>2 DEF AtaInv, InStep
    <3>4. Behind = acall.i /\ Behind' = acall.i
      BY <1>0, <2>1, <2>2, <3>1 DEF Behind
    <3> QED BY <2>1, <2>2, <2>4, <3>3, <3>4 DEF AtaInv, Moved, Fetched, Stored
  <2> QED BY <2>1, <2>3, <2>4 DEF AtaInv
<1>2. CASE ~(acall.i < acall.n)
  <2>1. /\ apc' = "idle" /\ acall' = NoCall /\ ret' = [call |-> acall, got |-> acall.n]
        /\ cur_lba' = acall.lba + acall.n /\ UNCHANGED <<drive, medium, before, late>>
    BY <1>2 DEF Return
  <2>2. acall.i = acall.n
    BY <1>0, <1>2
  <2>3. AtaShape'
    BY <1>0, <2>1 DEF AtaInv, AtaShape, CallType, NoCall
  <2>4. ASSUME drive.alive PROVE InStep' /\ Moved'
    <3>1. drive.st \in {"idle", "err"} /\ Here \in Lba
      BY <2>4 DEF AtaInv, AtaShape, DriveType, InStep, SpinsOut, Reasonable
    <3>2. cur_lba' < LBA_SPACE
      BY <1>0, <2>1, <2>2, <3>1 DEF Here, Reasonable
    <3>3. InStep'
      BY <2>1, <3>1, <3>2 DEF InStep
    <3>4. Behind = acall.n
      BY <2>2, <3>1 DEF Behind
    <3>5. acall.op = "read" => Fetched(ret.call, ret.got)'
      BY <2>1, <2>4, <3>4 DEF AtaInv, Moved, Fetched
    <3>6. acall.op = "write" => Stored(ret.call, ret.got)'
      BY <2>1, <2>4, <3>4 DEF AtaInv, Moved, Stored
    <3> QED BY <2>1, <3>3, <3>5, <3>6 DEF Moved
  <2> QED BY <2>1, <2>3, <2>4 DEF AtaInv
<1> QED BY <1>1, <1>2

LEMMA AnswerStep ==
    ASSUME Reasonable, AtaInv, DriveAnswers PROVE AtaInv'
<1> USE AtaAssumption DEF DriveAnswers
<1>1. PICK s \in {"drq", "err"} : drive' = [drive EXCEPT !.st = s] /\ (s = "drq" => drive.lba \in Lba)
  OBVIOUS
<1>2. AtaShape'
  BY <1>1 DEF AtaInv, AtaShape, DriveType
<1>3. drive.alive /\ drive.st = "busy" /\ drive.cmd \in {"read", "write"}
  OBVIOUS
<1>4. apc = "drq"
  BY <1>3 DEF AtaInv, AtaShape, InStep
<1>5. InStep'
  BY <1>1, <1>3, <1>4 DEF AtaInv, AtaShape, DriveType, InStep, Here
<1>6. Behind' = Behind
  BY <1>4 DEF Behind
<1>7. Moved'
  BY <1>3, <1>4, <1>6 DEF AtaInv, Moved, Fetched, Stored
<1> QED BY <1>2, <1>5, <1>7 DEF AtaInv

LEMMA DieStep ==
    ASSUME AtaInv, DriveDies PROVE AtaInv'
<1>1. AtaShape'
  BY DEF DriveDies, AtaInv, AtaShape, DriveType
<1>2. ~drive'.alive
  BY DEF DriveDies, AtaInv, AtaShape, DriveType
<1> QED BY <1>1, <1>2 DEF AtaInv

LEMMA StoreStep ==
    ASSUME Reasonable, AtaInv, DriveStores PROVE AtaInv'
<1> USE AtaAssumption
<1>1. /\ drive.alive /\ drive.st = "busy" /\ drive.cmd = "store"
      /\ UNCHANGED <<cur_lba, apc, acall, ret, before>>
  BY DEF DriveStores
<1>2. /\ apc = "done" /\ acall.op = "write" /\ drive.lba = Here /\ Here \in Lba
      /\ drive.data = acall.buf[acall.i] /\ drive.data \in Values
  BY <1>1 DEF AtaInv, AtaShape, DriveType, InStep
<1>3. /\ drive' \in DriveType /\ drive'.st \in {"idle", "err"}
      /\ medium' \in [Lba -> Values] /\ late' \subseteq Lba
  <2>1. NoData \in Values
    BY DEF Values
  <2>2. CASE drive' = [drive EXCEPT !.st = "idle", !.cmd = "none", !.data = NoData]
    BY <1>2, <2>1, <2>2 DEF DriveStores, AtaInv, AtaShape, DriveType
  <2>3. CASE drive' = [drive EXCEPT !.st = "err", !.cmd = "none", !.data = NoData]
    BY <1>2, <2>1, <2>3 DEF DriveStores, AtaInv, AtaShape, DriveType
  <2> QED BY <2>2, <2>3 DEF DriveStores
<1>4. AtaShape'
  BY <1>1, <1>3 DEF AtaInv, AtaShape
<1>5. InStep'
  BY <1>1, <1>2, <1>3 DEF AtaInv, InStep, Here
<1>6. acall.i \in Nat /\ acall.lba \in Nat /\ acall.i >= 1
  BY <1>2 DEF AtaInv, AtaShape, CallType
<1>7. Behind = acall.i - 1 /\ Behind' = acall.i
  BY <1>1, <1>2, <1>3 DEF Behind
<1>8. /\ medium = [l \in Lba |-> IF l \in (acall.lba .. acall.lba + acall.i - 2) \ late
                                THEN acall.buf[l - acall.lba + 1] ELSE before[l]]
      /\ \A l \in late : l < Here
  BY <1>1, <1>2, <1>6, <1>7 DEF AtaInv, Moved, Stored, Here
<1>9. Stored(acall, acall.i)' /\ \A l \in late' : l < acall.lba + acall.i
  <2>1. Here = acall.lba + acall.i - 1
    BY DEF Here
  <2>2. ASSUME NEW l \in Lba
        PROVE  medium'[l] = IF l \in (acall.lba .. acall.lba + acall.i - 1) \ late'
                            THEN acall.buf[l - acall.lba + 1] ELSE before[l]
    <3>1. medium[l] = IF l \in (acall.lba .. acall.lba + acall.i - 2) \ late
                      THEN acall.buf[l - acall.lba + 1] ELSE before[l]
      BY <1>8
    <3>2. l \in Nat
      OBVIOUS
    <3>3. CASE medium' = [medium EXCEPT ![drive.lba] = drive.data] /\ late' = late
      <4>1. CASE l = Here
        <5>1. medium'[l] = acall.buf[acall.i]
          BY <1>2, <3>3, <4>1 DEF AtaInv, AtaShape
        <5>2. l \notin late /\ l - acall.lba + 1 = acall.i
          BY <1>6, <1>8, <2>1, <4>1
        <5> QED BY <1>6, <2>1, <3>3, <4>1, <5>1, <5>2
      <4>2. CASE l # Here
        <5>1. medium'[l] = medium[l]
          BY <1>2, <3>3, <4>2 DEF AtaInv, AtaShape
        <5> QED BY <1>6, <2>1, <3>1, <3>2, <3>3, <4>2, <5>1
      <4> QED BY <4>1, <4>2
    <3>4. CASE medium' = medium /\ late' = late \cup {drive.lba}
      BY <1>2, <1>6, <2>1, <3>1, <3>2, <3>4
    <3> QED BY <3>3, <3>4 DEF DriveStores
  <2>3. medium' \in [Lba -> Values]
    BY <1>3
  <2>4. \A l \in late' : l < acall.lba + acall.i
    <3>1. late' \subseteq late \cup {Here}
      BY <1>2 DEF DriveStores
    <3>2. \A l \in late : l \in Nat
      BY DEF AtaInv, AtaShape
    <3> QED BY <1>6, <1>8, <2>1, <3>1, <3>2
  <2> QED BY <1>1, <2>2, <2>3, <2>4 DEF Stored
<1>10. Moved'
  BY <1>1, <1>2, <1>7, <1>9 DEF Moved
<1> QED BY <1>4, <1>5, <1>10 DEF AtaInv

LEMMA AtaStep == ASSUME Reasonable PROVE AtaInv /\ [AtaNext]_ataVars => AtaInv'
<1> SUFFICES ASSUME AtaInv, [AtaNext]_ataVars PROVE AtaInv'
  OBVIOUS
<1>1. CASE UNCHANGED ataVars
  BY <1>1 DEF ataVars, AtaInv, AtaShape, InStep, Moved, Here, Behind, Fetched, Stored
<1>2. CASE Driver
  BY <1>2, StartStep, PollStep, WordsStep, DoneStep DEF Driver
<1>3. CASE Drive
  BY <1>3, AnswerStep, StoreStep, DieStep DEF Drive
<1>4. ASSUME NEW l \in Seeks, Seek(l) PROVE AtaInv'
  BY <1>4, SeekStep
<1>5. ASSUME NEW n \in 0 .. MaxSectors, Begin("read", n, <<>>) PROVE AtaInv'
  <2>1. <<>> \in Seq(Values)
    OBVIOUS
  <2> QED BY <1>5, <2>1, BeginStep
<1>6. ASSUME NEW n \in 0 .. MaxSectors, NEW data \in [1 .. n -> Contents],
             Begin("write", n, data)
      PROVE  AtaInv'
  <2>1. n \in Nat /\ data \in [1 .. n -> Values]
    BY AtaAssumption DEF Values
  <2>2. data \in Seq(Values) /\ Len(data) = n
    BY <2>1
  <2> QED BY <1>6, <2>2, BeginStep
<1> QED BY <1>1, <1>2, <1>3, <1>4, <1>5, <1>6 DEF AtaNext, Callers

\* Transfers stay within their calls, and data comes from sectors the drive has.
THEOREM AtaTypeCorrect == ASSUME Reasonable PROVE AtaSpec => []AtaTypeOK
<1>1. AtaInv => AtaTypeOK
  BY DEF AtaInv, AtaShape, AtaTypeOK
<1> QED BY AtaInitInv, AtaStep, <1>1, PTL DEF AtaSpec

\* What ata_drv_read says it read is what those sectors held, however the drive fails.
THEOREM ReadsAreExact == ASSUME Reasonable PROVE AtaSpec => []ReadExact
<1>1. AtaInv => ReadExact
  BY DEF AtaInv, Moved, Fetched, ReadExact, AtRest
<1> QED BY AtaInitInv, AtaStep, <1>1, PTL DEF AtaSpec

\* What ata_drv_write says it wrote is on the disk, and nothing else has changed.
THEOREM WritesAreExact == ASSUME Reasonable PROVE AtaSpec => []WriteExact
<1>1. AtaInv => WriteExact
  BY DEF AtaInv, Moved, Stored, WriteExact, AtRest
<1> QED BY AtaInitInv, AtaStep, <1>1, PTL DEF AtaSpec

\* The cursor moves by a seek or past a call that has transferred everything.
THEOREM CursorIsExact == AtaSpec => CursorOnSuccess
<1>1. [AtaNext]_ataVars =>
        [cur_lba' # cur_lba /\ apc # "idle" =>
            ret'.got = acall.n /\ cur_lba' = acall.lba + acall.n]_ataVars
  BY DEF AtaNext, Driver, Drive, Callers, ata_start, ata_poll_drq, Words, Done, Return,
         DriveAnswers, DriveStores, DriveDies, Seek, Begin, ataVars
<1> QED BY <1>1, PTL DEF AtaSpec, CursorOnSuccess

\* Together: ata_drv_read and ata_drv_write do what they report, within their calls.
THEOREM TransfersAreExact == ASSUME Reasonable PROVE AtaSpec => []AtaSafe
<1> QED BY AtaTypeCorrect, ReadsAreExact, WritesAreExact, PTL DEF AtaSafe
===============================================================================
