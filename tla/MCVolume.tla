------------------------------- MODULE MCVolume -------------------------------
(* The volume and what is above it: the FAT12 driver step by step, the file  *)
(* descriptors with the driver's calls taken whole, and the editor with the  *)
(* descriptors' calls taken whole; the loader of programs; and the hosted    *)
(* scheduler.  They share no variable; part says which of them moves.        *)
(*                                                                           *)
(* Two names and two entries, so that a directory fills up and entries are   *)
(* reused; three clusters, so that a file of two and a file of one fill the  *)
(* volume, and an allocation can fail half way.  Two descriptors, so that    *)
(* both may be open on one file.  The driver only compares names for         *)
(* equality and never looks into a text, so both sets are symmetric.  The    *)
(* editor holds three lines of three characters and files of nine bytes, so  *)
(* that three long lines do not fit; a file with a longer line is there.     *)
(* The hosted scheduler has three processes of two priorities, enough for an *)
(* inner member of the ring and for two sleepers due at the same tick.       *)
EXTENDS Files, Notepad, MCExec, HostedSched, TLC

VARIABLE part

MCOnDisk ==
    ("f" :> [lines |-> <<[word |-> "p", len |-> 5], [word |-> "p", len |-> 1]>>,
             nl |-> FALSE])

allVars == <<part, vars, fileVars, noteVars, execVars, hostedVars>>

MCInit ==
    /\ part \in {"fat12", "files", "notepad", "exec", "hosted"}
    /\ Init /\ FilesInit /\ NotepadInit /\ ExecInit /\ HostedInit
MCNext ==
    /\ UNCHANGED part
    /\ \/ part = "fat12" /\ Next /\ UNCHANGED <<fileVars, noteVars, execVars, hostedVars>>
       \/ part = "files" /\ FilesNext /\ UNCHANGED <<vars, noteVars, execVars, hostedVars>>
       \/ part = "notepad" /\ NotepadNext /\ UNCHANGED <<vars, fileVars, execVars, hostedVars>>
       \/ part = "exec" /\ ExecNext /\ UNCHANGED <<vars, fileVars, noteVars, hostedVars>>
       \/ part = "hosted" /\ HostedNext /\ UNCHANGED <<vars, fileVars, noteVars, execVars>>
MCSpec == MCInit /\ [][MCNext]_allVars

Symmetry == Permutations(Names) \cup Permutations(Text)
===============================================================================
