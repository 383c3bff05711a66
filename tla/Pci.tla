---------------------------------- MODULE Pci ----------------------------------
(***************************************************************************)
(* The PCI search of Kernel/drivers/pci.c by which kmain finds the network *)
(* card, and the command register it then sets.  The configuration space   *)
(* is external: who answers where, 0 for nobody (vendor 0xFFFF).           *)
(***************************************************************************)
EXTENDS Integers

CONSTANTS BUSES, SLOTS, FUNCS,  \* PCI_MAX_BUS, PCI_MAX_SLOT, PCI_MAX_FUNC, scaled down
          Machines              \* who answers where; the card looked for is 1

ASSUME PciAssumption == {BUSES, SLOTS, FUNCS} \subseteq Nat \ {0}

VARIABLES config,   \* who answers
          scan,     \* bus, slot and function of the loops
          found,    \* what pci_find_device returns
          command   \* the card's command register: the bits that were on, and those that are

pciVars == <<config, scan, found, command>>

Places == (0 .. BUSES - 1) \X (0 .. SLOTS - 1) \X (0 .. FUNCS - 1)
PCI_ADDR(p) == p[1] * SLOTS * FUNCS + p[2] * FUNCS + p[3]
PCI_NOT_FOUND == BUSES * SLOTS * FUNCS - 1    \* 0xFFFF
Scanning == -1
Idle_ == -2

PciInit ==
    /\ config = [p \in Places |-> 0] /\ scan = <<0, 0, 0>> /\ found = Idle_ /\ command = [had |-> {}, has |-> {}]

\* pci_find_device is called on a machine with these cards.
PciCall ==
    /\ found = Idle_ /\ found' = Scanning /\ config' \in Machines
    /\ \E bits \in {{}, {"io", "parity"}} : command' = [had |-> bits, has |-> bits]
    /\ UNCHANGED scan

NextSlot(p) == IF p[2] < SLOTS - 1 THEN <<p[1], p[2] + 1, 0>> ELSE <<p[1] + 1, 0, 0>>
\* Mutant: an empty function ends its slot.
AfterGapEndsSlot(p) ==
    IF config[p] = 0 \/ p[3] = FUNCS - 1 THEN NextSlot(p) ELSE <<p[1], p[2], p[3] + 1>>
\* Where the loops go on: function 0 missing ends the slot, other gaps do not.
After(p) ==
    IF (config[p] = 0 /\ p[3] = 0) \/ p[3] = FUNCS - 1 THEN NextSlot(p)
    ELSE <<p[1], p[2], p[3] + 1>>

pci_find_device ==
    /\ found = Scanning
    /\ IF config[scan] = 1 THEN found' = PCI_ADDR(scan) /\ UNCHANGED scan
       ELSE /\ scan' = After(scan)
            /\ found' = IF After(scan)[1] = BUSES THEN PCI_NOT_FOUND ELSE found
    /\ UNCHANGED <<config, command>>

pci_enable_bus_mastering ==
    /\ found \notin {Scanning, Idle_, PCI_NOT_FOUND}
    /\ command' = [command EXCEPT !.has = @ \cup {"io", "mem", "master"}] /\ UNCHANGED <<config, scan, found>>

PciNext ==
    \/ PciCall \/ pci_find_device \/ pci_enable_bus_mastering
    \/ found = PCI_NOT_FOUND /\ UNCHANGED pciVars

-------------------------------------------------------------------------------
(* Properties.                                                             *)

\* The card is found wherever it is, the first of several, also behind gaps in the
\* function numbers; but the last address of all is the one that means nothing was
\* found.
PciFindsCard ==
    found \notin {Scanning, Idle_} =>
        LET cards == {p \in Places : config[p] = 1}
        IN  IF cards = {} THEN found = PCI_NOT_FOUND
            ELSE \E p \in cards : found = PCI_ADDR(p) /\ \A q \in cards : PCI_ADDR(p) <= PCI_ADDR(q)

\* Bits of the command register that were on stay on.
CommandKept == command.had \subseteq command.has

\* The card is found and set up without losing what the firmware had set.
PciSafe == PciFindsCard /\ CommandKept
===============================================================================
