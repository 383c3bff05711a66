-------------------------------- MODULE Notepad --------------------------------
(***************************************************************************)
(* The line editor of ring 3, Kernel/user/notepad.c.  Only it runs while   *)
(* it runs.  A line is its first characters' text and its length; a file   *)
(* is a sequence of lines and whether the last one ends in a newline, so   *)
(* files that other programs wrote can be opened as well.  Commands that   *)
(* only show something change nothing.  A write can fail (a full volume),  *)
(* which the editor reports as a large number of bytes saved.              *)
(***************************************************************************)
EXTENDS Integers, Sequences, SequencesExt

CONSTANTS Words,       \* what lines are about
          Files_,      \* names of files
          MAX_LINES, LINE_LEN, IOBUF_SZ,
          OnDisk,      \* the files there before the editor starts
          MaxCommands  \* bound on commands

ASSUME NotepadAssumption ==
    MAX_LINES \in Nat /\ LINE_LEN \in Nat \ {0, 1} /\ IOBUF_SZ \in Nat /\ MaxCommands \in Nat

VARIABLES g_text,     \* the first g_count lines
          files,
          savedAs,    \* the buffer when a file was last saved, if it all fits
          commands

noteVars == <<g_text, files, savedAs, commands>>

NoFile == [lines |-> <<>>, nl |-> FALSE]
NotSaved == <<[word |-> "none", len |-> 0]>>

Bytes(lines) == FoldLeft(LAMBDA n, l : n + l.len + 1, 0, lines)
FileSize(f) == IF f.lines = <<>> \/ f.nl THEN Bytes(f.lines) ELSE Bytes(f.lines) - 1

NotepadInit ==
    /\ g_text = <<>> /\ files = OnDisk
    /\ savedAs = [nm \in Files_ |-> NotSaved] /\ commands = 0

Command == commands < MaxCommands /\ commands' = commands + 1

copy_line(l) == [l EXCEPT !.len = IF @ < LINE_LEN - 1 THEN @ ELSE LINE_LEN - 1]

\* A line typed, of up to two characters more than a line keeps.
Append_(w, n) ==
    /\ Command
    /\ g_text' = IF Len(g_text) >= MAX_LINES THEN g_text
                 ELSE Append(g_text, copy_line([word |-> w, len |-> n]))
    /\ UNCHANGED <<files, savedAs>>

cmd_new == Command /\ g_text' = <<>> /\ UNCHANGED <<files, savedAs>>

cmd_del(n) ==
    /\ Command /\ n \in DOMAIN g_text
    /\ g_text' = RemoveAt(g_text, n)
    /\ UNCHANGED <<files, savedAs>>

\* What cmd_open makes of a file.  The read that would fill g_iobuf is not counted.
Load(f) ==
    IF FileSize(f) >= IOBUF_SZ THEN <<>>
    ELSE [i \in 1 .. IF Len(f.lines) < MAX_LINES THEN Len(f.lines) ELSE MAX_LINES |->
            copy_line(f.lines[i])]

\* cmd_open: the buffer is replaced only when the file is there.
cmd_open(nm) ==
    /\ Command /\ nm \in DOMAIN files
    /\ g_text' = Load(files[nm])
    /\ UNCHANGED <<files, savedAs>>

\* Mutant: g_iobuf may be filled to its last byte.
FitsToTheEnd(lines, k) == Bytes(SubSeq(lines, 1, k)) <= IOBUF_SZ
Fits(lines, k) == Bytes(SubSeq(lines, 1, k)) < IOBUF_SZ

\* The lines cmd_save puts into g_iobuf: it stops at the first that does not fit.
Stored_(lines) ==
    SubSeq(lines, 1, CHOOSE k \in 0 .. Len(lines) :
                        /\ \A j \in 0 .. k : Fits(lines, j)
                        /\ k = Len(lines) \/ ~Fits(lines, k + 1))

\* cmd_save: the file is created first, and an existing one keeps its content when the
\* write fails.
cmd_save(nm) ==
    /\ Command
    /\ \E ok \in BOOLEAN :
         IF ok
         THEN /\ files' = [x \in DOMAIN files \cup {nm} |->
                             IF x = nm THEN [lines |-> Stored_(g_text), nl |-> TRUE]
                             ELSE files[x]]
              /\ savedAs' = [savedAs EXCEPT ![nm] =
                               IF Stored_(g_text) = g_text THEN g_text ELSE NotSaved]
         ELSE /\ files' = [x \in DOMAIN files \cup {nm} |->
                             IF x \in DOMAIN files THEN files[x] ELSE NoFile]
              /\ UNCHANGED savedAs
    /\ UNCHANGED g_text

\* cmd_list shows the buffer.
cmd_list == UNCHANGED noteVars

\* main, between its start and :quit.
NotepadNext ==
    \/ \E w \in Words, n \in 1 .. LINE_LEN + 1 : Append_(w, n)
    \/ cmd_new
    \/ \E n \in 1 .. MAX_LINES : cmd_del(n)
    \/ \E nm \in Files_ : cmd_open(nm) \/ cmd_save(nm)
    \/ cmd_list

NotepadSpec == NotepadInit /\ [][NotepadNext]_noteVars

-------------------------------------------------------------------------------
(* Properties.                                                             *)

\* The buffer stays inside g_text: no more lines, and no longer ones, than it has room
\* for, whatever is typed and whatever file is opened.
NotepadTypeOK ==
    /\ Len(g_text) <= MAX_LINES
    /\ \A i \in DOMAIN g_text : g_text[i].len \in 0 .. LINE_LEN - 1 /\ g_text[i].word \in Words
    /\ commands \in 0 .. MaxCommands

\* What was saved whole is what opening the file brings back, line by line, whatever was
\* edited and saved under other names in between: cmd_save never writes a file that
\* cmd_open takes to be too long, and neither shortens a line of the other.
SaveOpenRoundTrip ==
    \A nm \in Files_ : savedAs[nm] # NotSaved => Load(files[nm]) = savedAs[nm]

\* The editor stays inside its buffers and opens what it saved.
NotepadSafe == NotepadTypeOK /\ SaveOpenRoundTrip
===============================================================================
