-------------------------------- MODULE MCUiNet --------------------------------
(***************************************************************************)
(* What the user of the kernel meets and the network stack, in one run:    *)
(* the keyboard's routing, the mouse, the window manager, the shell's      *)
(* window, its commands and the screen; TCP, HTTP, ARP and IP, and the     *)
(* network card.  They share no variable: part says which one moves, and   *)
(* the others keep their initial state.  Each layer of the stack states    *)
(* what it assumes of the one below.                                       *)
(***************************************************************************)
EXTENDS Input, Mouse, TuiWM, ShellWindow, Screen, Commands, Tcp, MCHttp, NetLink, Rtl8139

VARIABLE part

\* Cells of the title bar and the body of a window, one where windows overlap and a
\* corner.
MCCells == {<<0, 0>>, <<2, 1>>, <<3, 1>>, <<3, 2>>, <<5, 3>>}

\* Motion within and beyond what the driver reads, slow and fast, with and without the
\* button, and both overflow bits.
MCPackets ==
    [dx : {-130, -9, 13}, dy : {8}, btn : {0, 1}, ovf : {0}]
    \cup {[dx |-> 0, dy |-> -17, btn |-> 0, ovf |-> 0], [dx |-> 255, dy |-> 9, btn |-> 0, ovf |-> 1],
          [dx |-> 8, dy |-> 200, btn |-> 1, ovf |-> 2]}

\* Nothing, a line, and a line wider than the window followed by a part of one.
MCTexts == {<<>>, <<"a", NL>>, <<"b", "b", "b", "b", NL, "a">>}

\* No window, one, two in either order, and three.
Win(x, y, w, h, f) == [x |-> x, y |-> y, w |-> w, h |-> h, fill |-> f]
MCWindows ==
    {<<>>, <<Win(0, 0, 3, 3, "p")>>,
     <<Win(0, 0, 4, 3, "p"), Win(1, 0, 3, 3, "q")>>, <<Win(1, 0, 3, 3, "q"), Win(0, 0, 4, 3, "p")>>,
     <<Win(0, 0, 4, 3, "p"), Win(2, 1, 2, 2, "q"), Win(0, 0, 2, 3, "r")>>}
MCCursors == {<<1, 1>>}

\* Names with and without extension, too long, with two dots, with nothing but a dot
\* and with a blank (a name and a text for write), and addresses.
MCArgs ==
    {<<>>, <<97>>, <<97, 46, 66, 46>>, <<46>>, <<97, 32, 98>>, <<97, 66, 65, 46, 97>>,
     <<49, 46, 49, 50>>, <<49, 50, 51>>}
\* Nothing, bytes that cat does not print as they are, and a size of two digits.
MCDownloads == {<<>>, <<13, 200>>, [i \in 1 .. 12 |-> 70]}

UiInit == Init /\ MouseInit /\ WmInit /\ ShellInit /\ ScreenInit /\ CmdInit
uiVars == <<vars, mouseVars, wmVars, shellVars, screenVars, cmdVars>>

StackInit == TcpInit /\ HttpInit /\ NetInit /\ RtlInit
stackVars == <<tcpVars, httpVars, netVars, rtlVars>>

MCInit ==
    /\ part \in {"keys", "mouse", "wm", "shell", "screen", "commands", "tcp", "http", "link", "card"}
    /\ UiInit /\ StackInit

UiNext ==
    \/ part = "keys" /\ Next /\ UNCHANGED <<mouseVars, wmVars, shellVars, screenVars, cmdVars>>
    \/ part = "mouse" /\ MouseNext /\ UNCHANGED <<vars, wmVars, shellVars, screenVars, cmdVars>>
    \/ part = "wm" /\ WmNext /\ UNCHANGED <<vars, mouseVars, shellVars, screenVars, cmdVars>>
    \/ part = "shell" /\ ShellNext /\ UNCHANGED <<vars, mouseVars, wmVars, screenVars, cmdVars>>
    \/ part = "screen" /\ ScreenNext /\ UNCHANGED <<vars, mouseVars, wmVars, shellVars, cmdVars>>
    \/ part = "commands" /\ CmdNext
       /\ UNCHANGED <<vars, mouseVars, wmVars, shellVars, screenVars>>

StackNext ==
    \/ part = "tcp" /\ TcpNext /\ UNCHANGED <<httpVars, netVars, rtlVars>>
    \/ part = "http" /\ HttpNext /\ UNCHANGED <<tcpVars, netVars, rtlVars>>
    \/ part = "link" /\ NetNext /\ UNCHANGED <<tcpVars, httpVars, rtlVars>>
    \/ part = "card" /\ RtlNext /\ UNCHANGED <<tcpVars, httpVars, netVars>>

MCNext ==
    /\ UNCHANGED part
    /\ \/ UiNext /\ UNCHANGED stackVars
       \/ StackNext /\ UNCHANGED uiVars

mcVars == <<part, uiVars, stackVars>>

\* The fairness of Input, TcpFair, HttpFair and NetFair, each for the part that moves.
MCFair ==
    /\ WF_vars(part = "keys" /\ Thread) /\ SF_vars(part = "keys" /\ keyboard_irq("enter"))
    /\ WF_tcpVars(part = "tcp" /\ call.pc = "poll" /\ net_poll_once)
    /\ SF_tcpVars(part = "tcp" /\ Timeout)
    /\ \A d \in 1 .. MaxDepth : SF_tcpVars(part = "tcp" /\ Resolve /\ Len(stk) = d)
    /\ WF_httpVars(part = "http" /\ IdleTimeout) /\ WF_httpVars(part = "http" /\ Finish)
    /\ WF_netVars(part = "link" /\ Look) /\ WF_netVars(part = "link" /\ RequestTimeout)

MCSpec == MCInit /\ [][MCNext]_mcVars /\ MCFair

Waiting == pc = "read" \/ call # Idle \/ dl.pc # "done" \/ frames # <<>>
\* Every blocking call returns.  A program blocked in sys_read gets its line, though the
\* buffer was full of typed-ahead characters when the first Enter came and was dropped.
\* Whatever the network loses, repeats or delays, the calls of net_tcp.c return, and
\* http_download, and arp_resolve at every depth.
BlockingCallsReturn == Waiting ~> ~Waiting
===============================================================================
