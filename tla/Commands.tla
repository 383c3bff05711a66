------------------------------- MODULE Commands -------------------------------
(***************************************************************************)
(* The commands of the shell window that use the volume and the package    *)
(* server (Kernel/tui/shell.c), with the conversions between the name that *)
(* is typed, the 11 bytes of a directory entry and the name ls prints      *)
(* (Kernel/fs/fat12.c).                                                    *)
(*                                                                         *)
(* Characters are their codes.  The entry of a file holds its text: chains *)
(* of clusters, failed sector writes and reused entries are the module     *)
(* Fat12's, so here a call that needs clusters finds them or not.  The     *)
(* heap is Heap's: kmalloc succeeds or not, and the buffers a command has  *)
(* not freed are counted.  http_download is Http's: it fails or delivers   *)
(* some bytes.  The names on a volume mkimage made have no long-name       *)
(* entries.  reply is what the last command appended to the window,        *)
(* without the wording.                                                    *)
(***************************************************************************)
EXTENDS Integers, Sequences, SequencesExt

CONSTANTS NAME, EXT,       \* 8 and 3, the bytes of an entry's name
          FNAME,           \* sizeof(fname) in cmd_write
          PATH, HOST,      \* sizeof(path) and sizeof(g_pkg_host)
          ENTRIES,         \* root_entry_count
          Args,            \* what is typed after a command's name
          Downloads,       \* what the package server delivers
          MaxCmds          \* bound on commands

ASSUME CommandsAssumption ==
    /\ {NAME, EXT, FNAME, PATH, HOST, ENTRIES} \subseteq Nat \ {0} /\ MaxCmds \in Nat
    /\ \A s \in Args \cup Downloads : s \in Seq(0 .. 255)

Space == 32
Dot == 46
Newline == 10

VARIABLES root,        \* the directory, and the text of every file
          g_pkg_host,
          asked,       \* the request of the running or last download
          rest,        \* the name that download is to be saved under
          bufs,        \* heap buffers a command holds
          cmdpc,       \* "prompt" or "download"
          reply,       \* what the last command printed
          stored,      \* ghost: the name and text of the last file written
          meant,       \* ghost: the last address `pkg host' accepted
          cmds

cmdVars == <<root, g_pkg_host, asked, rest, bufs, cmdpc, reply, stored, meant, cmds>>
pkgVars == <<g_pkg_host, asked, rest, bufs, cmdpc, meant>>

EmptySlot == [st |-> "end", name |-> <<>>, attr |-> "file", text |-> <<>>]
Nothing == [name |-> <<>>, text |-> <<>>]
DefaultHost == <<49>>
Said(what) == [cmd |-> what, name |-> <<>>, text |-> <<>>, lines |-> <<>>]

CmdInit ==
    /\ root = [i \in 1 .. ENTRIES |-> EmptySlot]
    /\ g_pkg_host = DefaultHost /\ meant = DefaultHost
    /\ asked = [host |-> <<>>, path |-> <<>>] /\ rest = <<>>
    /\ bufs = 0 /\ cmdpc = "prompt" /\ reply = Said("none") /\ stored = Nothing /\ cmds = 0

-------------------------------------------------------------------------------
(* Names.                                                                  *)

fs_toupper(c) == IF c \in 97 .. 122 THEN c - 32 ELSE c
Field(s, n) == [i \in 1 .. n |-> IF i <= Len(s) THEN fs_toupper(s[i]) ELSE Space]
First(s, c) == SelectInSeq(s, LAMBDA x : x = c)
UpTo(s, c) == IF First(s, c) = 0 THEN s ELSE SubSeq(s, 1, First(s, c) - 1)
Behind(s, c) == IF First(s, c) = 0 THEN <<>> ELSE SubSeq(s, First(s, c) + 1, Len(s))

\* Mutant: the extension begins after the last dot.
FormatAtLastDot(name) ==
    LET back == Reverse(name)
    IN  IF First(name, Dot) = 0 THEN Field(name, NAME) \o Field(<<>>, EXT)
        ELSE Field(Reverse(Behind(back, Dot)), NAME) \o Field(Reverse(UpTo(back, Dot)), EXT)
fat12_format_name(name) == Field(UpTo(name, Dot), NAME) \o Field(Behind(name, Dot), EXT)

\* name_match over the entries before the end mark: the first that matches, or 0.
Match(formatted) ==
    LET hits == {i \in 1 .. ENTRIES :
                   /\ \A j \in 1 .. i : root[j].st # "end"
                   /\ root[i].st = "live"
                   /\ \A k \in 1 .. NAME + EXT :
                        fs_toupper(root[i].name[k]) = fs_toupper(formatted[k])}
    IN  IF hits = {} THEN 0 ELSE CHOOSE i \in hits : \A j \in hits : i <= j

\* fat12_find_file has its own copy of the conversion, find_dir_entry takes it done.
fat12_find_file(name) == Match(Field(UpTo(name, Dot), NAME) \o Field(Behind(name, Dot), EXT))

find_free_dir_slot == SelectInSeq(root, LAMBDA e : e.st \in {"end", "deleted"})

-------------------------------------------------------------------------------
(* What is printed.                                                        *)

Decimal(n) ==
    LET upto[k \in 0 .. n] == IF k < 10 THEN <<k>> ELSE Append(upto[k \div 10], k % 10)
    IN  upto[n]

\* One line of ls: the name up to its first blank, a dot and the extension likewise.
Line(e) ==
    LET ext == SubSeq(e.name, NAME + 1, NAME + EXT)
    IN  [name |-> UpTo(SubSeq(e.name, 1, NAME), Space)
                    \o (IF ext[1] = Space THEN <<>> ELSE <<Dot>> \o UpTo(ext, Space)),
         size |-> Decimal(Len(e.text))]

Hex(d) == IF d < 10 THEN 48 + d ELSE 87 + d
\* A byte as cat prints it.
ShowByte(b) == IF b \in {10, 13} THEN <<Newline>> ELSE IF b \in 32 .. 126 THEN <<b>>
               ELSE <<92, 120, Hex(b \div 16), Hex(b % 16)>>

-------------------------------------------------------------------------------
(* The commands.                                                           *)

Typed == cmdpc = "prompt" /\ cmds < MaxCmds /\ cmds' = cmds + 1
Fails(what) == reply' = Said(what) /\ UNCHANGED <<root, stored>>

\* ls stops at the end mark and passes over deleted entries.
cmd_ls ==
    LET end == SelectInSeq(root, LAMBDA e : e.st = "end")
        live == SelectSeq(IF end = 0 THEN root ELSE SubSeq(root, 1, end - 1),
                          LAMBDA e : e.st = "live")
    IN  /\ Typed /\ UNCHANGED <<pkgVars, root, stored>>
        /\ reply' = [Said("ls") EXCEPT !.lines = [k \in DOMAIN live |-> Line(live[k])]]

\* cat: a file without bytes gives no buffer, and neither does a full heap.
cmd_cat(args) ==
    LET i == fat12_find_file(args)
    IN  /\ Typed /\ UNCHANGED <<pkgVars, root, stored>>
        /\ IF args = <<>> THEN reply' = Said("usage")
           ELSE IF i = 0 THEN reply' = Said("not found")
           ELSE \/ reply' = Said("read failed")
                \/ /\ root[i].text # <<>>
                   /\ reply' = [Said("cat") EXCEPT
                        !.name = args,
                        !.text = FlattenSeq([k \in DOMAIN root[i].text |->
                                               ShowByte(root[i].text[k])]) \o <<Newline>>]

Entry(name, attr, text) ==
    [st |-> "live", name |-> fat12_format_name(name), attr |-> attr, text |-> text]

\* fat12_create_file and fat12_create_dir; a directory also needs a cluster.
Creates(name, attr, what) ==
    LET i == find_free_dir_slot
    IN  \/ /\ fat12_find_file(name) # 0 \/ i = 0 \/ attr = "dir"
           /\ Fails(what)
        \/ /\ fat12_find_file(name) = 0 /\ i # 0
           /\ root' = [root EXCEPT ![i] = Entry(name, attr, <<>>)]
           /\ reply' = Said("ok") /\ UNCHANGED stored
cmd_touch(args) ==
    /\ Typed /\ UNCHANGED pkgVars
    /\ IF args = <<>> THEN Fails("usage") ELSE Creates(args, "file", "touch failed")
cmd_mkdir(args) ==
    /\ Typed /\ UNCHANGED pkgVars
    /\ IF args = <<>> THEN Fails("usage") ELSE Creates(args, "dir", "mkdir failed")

\* fat12_write_file: the entry of that name keeps its attribute, or a new one is made.
fat12_write_file(name, text) ==
    LET at == Match(fat12_format_name(name))
        i == IF at # 0 THEN at ELSE find_free_dir_slot
    IN  \/ (i = 0 \/ text # <<>>) /\ Fails("write failed")
        \/ /\ i # 0
           /\ root' = [root EXCEPT ![i] = IF at # 0 THEN [@ EXCEPT !.text = text]
                                          ELSE Entry(name, "file", text)]
           /\ reply' = Said("ok") /\ stored' = [name |-> name, text |-> text]

IsBlank(c) == c \in {Space, 9}
\* The text after the first word and the blanks that follow it.
SkipWord(s) ==
    LET b == SelectInSeq(s, IsBlank)
        t == SelectInSeq(SubSeq(s, b, Len(s)), LAMBDA c : ~IsBlank(c))
    IN  IF b = 0 \/ t = 0 THEN <<>> ELSE SubSeq(s, b + t - 1, Len(s))
FirstWord(s) ==
    IF SelectInSeq(s, IsBlank) = 0 THEN s ELSE SubSeq(s, 1, SelectInSeq(s, IsBlank) - 1)

cmd_write(args) ==
    /\ Typed /\ UNCHANGED pkgVars
    /\ IF Len(FirstWord(args)) \notin 1 .. FNAME - 1 THEN Fails("usage")
       ELSE fat12_write_file(FirstWord(args), SkipWord(args))

\* rm: fat12_delete_file.
cmd_rm(args) ==
    LET i == Match(fat12_format_name(args))
    IN  /\ Typed /\ UNCHANGED pkgVars
        /\ IF args = <<>> THEN Fails("usage")
           ELSE IF i = 0 THEN Fails("not found")
           ELSE /\ root' = [root EXCEPT ![i].st = "deleted"]
                /\ reply' = Said("ok") /\ stored' = Nothing

valid_ip_str(s) ==
    s # <<>> /\ \A i \in DOMAIN s : (s[i] \in 48 .. 57 \/ s[i] = Dot) /\ i - 1 < HOST - 1

\* At most n characters of s.
Cut(s, n) == SubSeq(s, 1, IF Len(s) < n THEN Len(s) ELSE n)

\* pkg host: without an address it prints the one in use.
PkgHost(args) ==
    /\ Typed /\ UNCHANGED <<root, stored, asked, rest, bufs, cmdpc>>
    /\ IF args = <<>> THEN /\ reply' = [Said("host") EXCEPT !.name = g_pkg_host]
                           /\ UNCHANGED <<g_pkg_host, meant>>
       ELSE IF ~valid_ip_str(args) THEN reply' = Said("bad IP") /\ UNCHANGED <<g_pkg_host, meant>>
       ELSE g_pkg_host' = Cut(args, HOST - 1) /\ meant' = args /\ reply' = Said("ok")

\* The path asked for: a slash and the name, as far as it fits.
PathOf(args) == <<47>> \o Cut(args, PATH - 2)

\* pkg install, as far as the request.
PkgInstall(args) ==
    /\ Typed /\ UNCHANGED <<root, stored, g_pkg_host, meant>>
    /\ \/ /\ reply' = Said(IF args = <<>> THEN "usage" ELSE "reply of memory")
          /\ UNCHANGED <<asked, rest, bufs, cmdpc>>
       \/ /\ args # <<>>
          /\ bufs' = bufs + 1 /\ cmdpc' = "download" /\ rest' = args
          /\ asked' = [host |-> g_pkg_host, path |-> PathOf(args)]
          /\ reply' = Said("get")

\* ... and from the answer of the server on.
Downloaded ==
    /\ cmdpc = "download" /\ cmdpc' = "prompt" /\ bufs' = bufs - 1
    /\ UNCHANGED <<g_pkg_host, asked, rest, meant, cmds>>
    /\ \/ Fails("download failed")
       \/ \E d \in Downloads :
            IF d = <<>> THEN Fails("empty response") ELSE fat12_write_file(rest, d)

CmdNext ==
    \/ cmd_ls \/ Downloaded
    \/ \E args \in Args :
         \/ cmd_cat(args) \/ cmd_touch(args) \/ cmd_mkdir(args) \/ cmd_write(args)
         \/ cmd_rm(args) \/ PkgHost(args) \/ PkgInstall(args)
    \/ cmds = MaxCmds /\ cmdpc = "prompt" /\ UNCHANGED cmdVars

-------------------------------------------------------------------------------
(* Properties.                                                             *)

\* Entries in use have a whole name and stand before the end mark, where find_file,
\* find_dir_entry and ls stop looking.
CmdTypeOK ==
    /\ cmdpc \in {"prompt", "download"} /\ Len(g_pkg_host) \in 1 .. HOST - 1
    /\ \A i \in 1 .. ENTRIES : root[i].st = "live" =>
         /\ Len(root[i].name) = NAME + EXT
         /\ \A j \in 1 .. i : root[j].st # "end"

\* Entries whose name has a character, and no blank before one.
Plain(name) ==
    LET Solid(s) == \A i \in 2 .. Len(s) : s[i] # Space => s[i - 1] # Space
    IN  /\ \E i \in DOMAIN name : name[i] # Space
        /\ Solid(SubSeq(name, 1, NAME)) /\ Solid(SubSeq(name, NAME + 1, NAME + EXT))

\* What ls prints can be typed: the name of a line makes cat, rm and write find the
\* very entry the line is about, so no two entries share a name either.  Asked of
\* entries whose name has no blank inside: touch, mkdir and pkg take such names.
ListedIsFound ==
    \A i \in 1 .. ENTRIES :
      root[i].st = "live" /\ Plain(root[i].name) =>
        LET typed == Line(root[i]).name
        IN  fat12_find_file(typed) = i /\ Match(fat12_format_name(typed)) = i

\* What cat prints, read back as bytes: `\x' and two digits are one byte.
Digit(c) == IF c < 58 THEN c - 48 ELSE c - 87
ReadBack(s) ==
    LET from[i \in 1 .. Len(s) + 4] ==
          IF i > Len(s) THEN <<>>
          ELSE IF s[i] = 92 THEN <<16 * Digit(s[i + 2]) + Digit(s[i + 3])>> \o from[i + 4]
          ELSE <<s[i]>> \o from[i + 1]
    IN  from[1]

\* cat of a name shows, byte for byte but for CR, the text that write or pkg install
\* last stored under it and reported as stored, and a newline.
CatShowsWritten ==
    reply.cmd = "cat" /\ reply.name = stored.name =>
      ReadBack(reply.text) = [k \in DOMAIN stored.text |-> IF stored.text[k] = 13 THEN Newline
                                                       ELSE stored.text[k]] \o <<Newline>>

\* The sizes ls prints are those of the files, in decimal, one line per entry.
ListShowsSizes ==
    reply.cmd = "ls" =>
      LET live == {i \in 1 .. ENTRIES : root[i].st = "live"}
          Value(d) == FoldLeft(LAMBDA v, k : 10 * v + k, 0, d)
      IN  /\ {<<Value(l.size), l.name>> : l \in Range(reply.lines)}
                = {<<Len(root[i].text), Line(root[i]).name>> : i \in live}
          /\ \A i \in live : Plain(root[i].name) =>
               \E l \in Range(reply.lines) : fat12_find_file(l.name) = i

\* The server is asked for the whole name the file is saved under, as far as a path
\* can hold it, at the whole address that `pkg host' accepted: neither is cut short.
RequestIsWhole ==
    /\ g_pkg_host = meant
    /\ cmdpc = "download" =>
         /\ asked.host = meant
         /\ Len(rest) + 2 <= PATH => asked.path = <<47>> \o rest

\* Whichever way a command ends, the prompt comes back with its buffers freed.
BuffersReturned == cmdpc = "prompt" => bufs = 0

\* The commands agree on names, show what is stored, ask for what was typed, and give
\* back their buffers.
CommandsSafe ==
    /\ CmdTypeOK /\ ListedIsFound /\ CatShowsWritten /\ ListShowsSizes
    /\ RequestIsWhole /\ BuffersReturned
===============================================================================
