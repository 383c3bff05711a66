------------------------------- MODULE BootTests -------------------------------
(***************************************************************************)
(* The self-tests of the file system that Kernel/kernel/kmain.c runs in    *)
(* every boot, on a volume that keeps what earlier boots left on it.       *)
(*                                                                         *)
(* The calls of Kernel/fs/fat12.c are those of Fat12, step by step: a      *)
(* sector write of one may fail, and power may go between any two.  The    *)
(* machine then starts again, mounts what is on the disk and runs the      *)
(* tests; it also does after a boot that went well.  Only the tests use    *)
(* the volume here.  The texts of the first and the third test fill one    *)
(* cluster, that of the second two.                                        *)
(***************************************************************************)
EXTENDS Fat12

CONSTANTS MaxBoots    \* bound on boots

TestNames == {"_SELFTST.TXT", "_TSTDIR", "WRTEST.TMP", "_WTEST.TXT"}

ASSUME BootTestsAssumption == MaxBoots \in Nat /\ TestNames \subseteq Names /\ ReuseStaleSlot

VARIABLES tpc,         \* the next step of freestanding_subsystems_up
          ok,          \* ok of the write test, then content_ok of the persistence test
          verdict,     \* what the two tests have reported in this boot
          ioerr,       \* has a call failed in this boot for the disk or for room?
          mounted,     \* the test files on the disk when this boot began
          owed,        \* a boot has reported the marker written, no later one has reported
          boots

scriptVars == <<tpc, ok, verdict, ioerr, mounted, owed, boots>>
testVars == <<vars, scriptVars>>

NoVerdict == [write |-> "none", persist |-> "none"]
On(r, nm) == find_dir_entry(r, nm) # 0
Holds(nm, text) == LET i == find_dir_entry(root, nm) IN i # 0 /\ fat12_read_file(fat, root[i]) = <<<<text, 1>>>>

TestsInit ==
    /\ Init
    /\ tpc = "write" /\ ok = TRUE /\ verdict = NoVerdict
    /\ ioerr = FALSE /\ mounted = {} /\ owed = FALSE /\ boots = 1

-------------------------------------------------------------------------------
(* What the script does when the call it made has returned.                *)

Goto(l, good) == tpc' = l /\ ok' = good /\ UNCHANGED <<verdict, owed>>
Says(good) == verdict' = [verdict EXCEPT !.write = IF good THEN "ok" ELSE "failed"]
Verdict(good) == tpc' = "multi" /\ Says(good) /\ UNCHANGED <<ok, owed>>
Ends(v) ==
    /\ tpc' = "up" /\ verdict' = [verdict EXCEPT !.persist = v] /\ owed' = (v = "wrote")
    /\ UNCHANGED ok

\* After a failure the deletions of the first test are not tried; what the second test
\* wrote it deletes, whatever it read back.
Returned(good) ==
    /\ \/ tpc = "write" /\ Goto(IF good THEN "readback" ELSE "mkdir", good)
       \/ tpc = "mkdir" /\ IF good THEN Goto("rmfile", ok) ELSE Verdict(FALSE)
       \/ tpc = "rmfile" /\ IF good THEN Goto("rmdir", ok) ELSE Verdict(FALSE)
       \/ tpc = "rmdir" /\ Verdict(ok /\ good)
       \/ tpc = "multi" /\ Goto(IF good THEN "rmmulti" ELSE "persist", ok)
       \/ tpc = "rmmulti" /\ Goto("persist", ok)
       \/ tpc = "unmark" /\ Ends(IF ok /\ good THEN "survived" ELSE "failed")
       \/ tpc = "mark" /\ Ends(IF good THEN "wrote" ELSE "write failed")
    /\ UNCHANGED <<mounted, boots>>

Succeeds == Returned(TRUE) /\ UNCHANGED ioerr
Fails == Returned(FALSE) /\ ioerr' = TRUE

\* A call that is refused, and nothing is touched: for its name, or for lack of room.
Refused == Returned(FALSE) /\ UNCHANGED <<vars, ioerr>>
NoRoom == Fails /\ UNCHANGED vars

\* The call has begun, or has failed at once because the volume is full.
Begun == IF pc' = "idle" THEN Fails ELSE UNCHANGED scriptVars

-------------------------------------------------------------------------------
(* The calls.                                                              *)

Write(nm, n, text) ==
    IF ~On(root, nm) /\ find_free_dir_slot(root) = 0 THEN NoRoom
    ELSE fat12_write_file(nm, n, text) /\ Begun
Delete(nm) ==
    IF On(root, nm) THEN fat12_delete_file(nm) /\ UNCHANGED scriptVars ELSE Refused

WriteSelftest == pc = "idle" /\ tpc = "write" /\ Write("_SELFTST.TXT", 1, "hello")

\* fat12_read_file and the comparison; or the disk cannot be read.
ReadsAs(nm, text) ==
    \/ ok' = Holds(nm, text) /\ UNCHANGED <<vars, ioerr>>
    \/ /\ ok' = FALSE /\ ioerr' = TRUE /\ Fault
       /\ UNCHANGED <<mem, disk, pc, op, want, durable, clean, crashed, calls>>

ReadBack ==
    /\ pc = "idle" /\ tpc = "readback"
    /\ ReadsAs("_SELFTST.TXT", "hello") /\ tpc' = "mkdir"
    /\ UNCHANGED <<verdict, mounted, owed, boots>>

\* fat12_create_dir refuses a name that is there.
MakeDir ==
    /\ pc = "idle" /\ tpc = "mkdir"
    /\ \/ fat12_create_dir("_TSTDIR") /\ UNCHANGED scriptVars
       \/ On(root, "_TSTDIR") /\ Refused
       \/ /\ ~On(root, "_TSTDIR")
          /\ find_free_dir_slot(root) = 0 \/ fat12_alloc_chain(fat, 1).first = NoCluster
          /\ NoRoom
DeleteFile == pc = "idle" /\ tpc = "rmfile" /\ Delete("_SELFTST.TXT")
\* Mutant: the directory is forgotten.
DeleteDirForgotten == pc = "idle" /\ tpc = "rmdir" /\ Succeeds /\ UNCHANGED vars
DeleteDir == pc = "idle" /\ tpc = "rmdir" /\ Delete("_TSTDIR")

MultiCluster == pc = "idle" /\ tpc = "multi" /\ Write("WRTEST.TMP", 2, "wr")
DeleteMulti == pc = "idle" /\ tpc = "rmmulti" /\ Delete("WRTEST.TMP")

\* One boot writes the marker, the next finds, reads and deletes it.
LookForMarker ==
    /\ pc = "idle" /\ tpc = "persist"
    /\ \/ ~On(root, "_WTEST.TXT") /\ tpc' = "mark" /\ UNCHANGED <<vars, ok, ioerr>>
       \/ On(root, "_WTEST.TXT") /\ tpc' = "unmark" /\ ReadsAs("_WTEST.TXT", "persistent")
    /\ UNCHANGED <<verdict, mounted, owed, boots>>
WriteMarker == pc = "idle" /\ tpc = "mark" /\ Write("_WTEST.TXT", 1, "persistent")
DeleteMarker == pc = "idle" /\ tpc = "unmark" /\ Delete("_WTEST.TXT")

\* A step of the running call.
CallStep ==
    \/ (WriteCluster \/ WriteClusterFails \/ CommitWrite \/ WriteDirBody) /\ UNCHANGED scriptVars
    \/ fat12_flush_fat /\ Begun
    \/ flush_root /\ Succeeds
    \/ (FlushFails \/ WriteDirBodyFails) /\ Fails

\* The machine starts: fat12_mount, and the tests from the first.
Starts ==
    /\ boots < MaxBoots /\ boots' = boots + 1
    /\ tpc' = "write" /\ ok' = TRUE /\ verdict' = NoVerdict /\ ioerr' = FALSE
    /\ mounted' = {nm \in TestNames : On(droot, nm)} /\ UNCHANGED owed
PowerFails == PowerLoss /\ Starts
\* It was switched off after the tests.
ShutDown ==
    /\ pc = "idle" /\ tpc = "up" /\ Starts
    /\ fat' = dfat[1] /\ root' = droot
    /\ UNCHANGED <<disk, pc, op, ghosts>>

TestsNext ==
    \/ WriteSelftest \/ ReadBack \/ MakeDir \/ DeleteFile \/ DeleteDir
    \/ MultiCluster \/ DeleteMulti \/ LookForMarker \/ WriteMarker \/ DeleteMarker
    \/ CallStep \/ PowerFails \/ ShutDown
    \/ tpc = "up" /\ boots = MaxBoots /\ UNCHANGED testVars

TestsSpec == TestsInit /\ [][TestsNext]_testVars

-------------------------------------------------------------------------------
(* Properties.                                                             *)

\* The tests report in their order.
VerdictsInOrder == verdict.persist # "none" => verdict.write # "none"

\* A disk without errors and with room passes the write test, unless an earlier boot
\* ended, or an earlier call failed, while _TSTDIR was there; that boot's directory is
\* then in the way in all boots to come.
FailsOnlyByLeftover ==
    verdict.write = "failed" /\ ~ioerr => "_TSTDIR" \in mounted

\* A write test that reports OK has left none of its files, in memory or on the disk,
\* also those an earlier boot had left.
OkLeavesNothing ==
    verdict.write = "ok" =>
        \A nm \in {"_SELFTST.TXT", "_TSTDIR"} : ~On(root, nm) /\ ~On(droot, nm)

\* "a marker file written in one boot must survive into the next" (kmain.c): the first
\* boot to report on a marker that was written finds it whole, unless the disk fails it.
MarkerSurvives ==
    [][owed /\ tpc = "unmark" /\ tpc' = "up" => verdict'.persist = "survived" \/ ioerr']_testVars

\* What the write self-test reports is true of the volume, whatever earlier boots left
\* and wherever power was lost.
TestsSafe == VerdictsInOrder /\ FailsOnlyByLeftover /\ OkLeavesNothing
===============================================================================
