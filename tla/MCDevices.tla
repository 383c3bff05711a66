------------------------------- MODULE MCDevices -------------------------------
(***************************************************************************)
(* The boot chain, the self-tests of a boot, the drivers that poll their   *)
(* device, and the window and the heap of the hosted build, in one run.    *)
(* They share no variable: part says which one moves, and the others keep  *)
(* their initial state.                                                    *)
(***************************************************************************)
EXTENDS Boot, BootTests, Ata, Rtc, Pci, Gui, HostedHeap

VARIABLE part

\* Kernels with and without loadable sections, with a gap and with bytes past the end.
Section(keep, vs, va, rs, ro) ==
    [keep |-> keep, vsize |-> vs, vaddr |-> va, rsize |-> rs, roff |-> ro]
MCPEs ==
    {<<>>, <<Section(FALSE, 3, 0, 3, 0)>>}
    \cup {<<Section(TRUE, a, 4, 6, 20), Section(FALSE, 4, 9, 4, 3), Section(TRUE, b, 13, 4, 31)>> :
            a \in {5, 8}, b \in {1, 4, 9, 16}}
    \cup {<<Section(TRUE, 7, 20, 9, 60), Section(TRUE, n, 4, n, 17)>> : n \in {1, 14}}

\* No, one, two and three programs, of lengths around one and two clusters.
Program(name, k, n) == [name |-> name, text |-> [i \in 1 .. n |-> k * 40 + i]]
MCProgramLists ==
    {<<>>, <<Program("A", 1, 1), Program("B", 2, 1), Program("C", 3, 1)>>}
    \cup {<<Program("A", 1, n)>> : n \in {0, 1, 6, 7}}
    \cup {<<Program("A", 1, n), Program("B", 2, m)>> : n \in {0, 5, 6}, m \in {0, 6, 12}}

MCContents == {<<"data", 1>>, <<"data", 2>>}

\* Every mode of the clock.
MCModes == [bit1 : BOOLEAN, bit2 : BOOLEAN]

\* Machines with devices in up to two slots; a slot without function 0 is empty.
SlotFunctions == {f \in [0 .. 2 -> 0 .. 2] : f[0] = 0 => f[1] = 0 /\ f[2] = 0}
MCMachines ==
    {[p \in Places |-> IF <<p[1], p[2]>> = s THEN a[p[3]]
                       ELSE IF <<p[1], p[2]>> = t THEN b[p[3]] ELSE 0] :
        s, t \in (0 .. 1) \X (0 .. 1), a, b \in SlotFunctions}

\* A request that prints a line and one that prints nothing.
MCOutputs == {<<1, 0>>, <<>>}

MCInit ==
    /\ part \in {"boot", "tests", "ata", "rtc", "pci", "gui", "heap"}
    /\ BootInit /\ TestsInit /\ AtaInit /\ RtcInit /\ PciInit /\ GuiInit /\ HHeapInit

MCNext ==
    /\ UNCHANGED part
    /\ \/ part = "boot" /\ BootNext
          /\ UNCHANGED <<testVars, ataVars, rtcVars, pciVars, guiVars, hheapVars>>
       \/ part = "tests" /\ TestsNext
          /\ UNCHANGED <<bootVars, ataVars, rtcVars, pciVars, guiVars, hheapVars>>
       \/ part = "ata" /\ AtaNext
          /\ UNCHANGED <<bootVars, testVars, rtcVars, pciVars, guiVars, hheapVars>>
       \/ part = "rtc" /\ RtcNext
          /\ UNCHANGED <<bootVars, testVars, ataVars, pciVars, guiVars, hheapVars>>
       \/ part = "pci" /\ PciNext
          /\ UNCHANGED <<bootVars, testVars, ataVars, rtcVars, guiVars, hheapVars>>
       \/ part = "gui" /\ GuiNext
          /\ UNCHANGED <<bootVars, testVars, ataVars, rtcVars, pciVars, hheapVars>>
       \/ part = "heap" /\ HHeapNext
          /\ UNCHANGED <<bootVars, testVars, ataVars, rtcVars, pciVars, guiVars>>

mcVars == <<part, bootVars, testVars, ataVars, rtcVars, pciVars, guiVars, hheapVars>>

\* The processor executes the loader and the driver, a working drive answers, and
\* Windows runs the three threads.
MCFair ==
    /\ WF_bootVars(part = "boot" /\ Loader)
    /\ WF_ataVars(part = "ata" /\ Driver)
    /\ WF_ataVars(part = "ata" /\ (DriveAnswers \/ DriveStores))
    /\ WF_guiVars(part = "gui" /\ Worker) /\ WF_guiVars(part = "gui" /\ Reader)
    /\ WF_guiVars(part = "gui" /\ Window)

MCSpec == MCInit /\ [][MCNext]_mcVars /\ MCFair

\* Nothing here hangs: the loader ends, a call of the disk driver returns though the
\* drive is dead, a button has its effect, and the panel comes to show the kernel.
NothingHangs == BootEnds /\ AtaReturns /\ RequestRuns /\ PanelSettles
===============================================================================
