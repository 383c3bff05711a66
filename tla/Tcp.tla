---------------------------------- MODULE Tcp ----------------------------------
(***************************************************************************)
(* The TCP client, Kernel/net/net_tcp.c: one connection, blocking calls    *)
(* that poll the card, retries and timeouts.                               *)
(*                                                                         *)
(* Every transmission goes through ip_send and arp_resolve.  When the      *)
(* address of the peer is not in the ARP cache, arp_resolve polls the card *)
(* itself, so segments are handled in the middle of a transmission: stk    *)
(* holds the transmissions that are waiting for an address, innermost      *)
(* last, each with what the code does after it.                            *)
(*                                                                         *)
(* The network may lose, duplicate, delay and reorder: any segment the     *)
(* peer has sent may arrive at any later time.  Ports, addresses, lengths  *)
(* and checksums are right; segments that fail those tests are dropped at  *)
(* once by tcp_handle_packet and are among the lost ones.  connected,      *)
(* waiting_for_ack, ack_received and rto_start_tick are never read.        *)
(***************************************************************************)
EXTENDS Integers, Sequences, FiniteSets

CONSTANTS InitSeq,     \* 1000 in tcp_init
          SeqSpace,      \* 2^32
          Isns,        \* first sequence numbers the peer may choose
          PeerBytes,   \* length of what the peer sends on a connection
          Mss,         \* TCP_MSS
          RecvBuf,     \* TCP_RECV_BUF_SIZE
          MaxRetries,  \* TCP_MAX_RETRIES
          SendLens, RecvLens,  \* lengths callers pass
          MaxCalls,    \* bound on calls
          MaxDepth     \* bound on nested address resolutions; 0 when always cached

ASSUME TcpAssumption ==
    /\ InitSeq \in Nat /\ SeqSpace \in Nat /\ Isns \subseteq 0 .. SeqSpace - 1
    /\ {PeerBytes, MaxCalls, MaxDepth} \subseteq Nat
    /\ {Mss, RecvBuf, MaxRetries} \subseteq Nat \ {0}
    /\ SendLens \subseteq Nat \ {0} /\ RecvLens \subseteq Nat \ {0}

VARIABLES conn,    \* g_tcp_conn
          call,    \* the call in progress and its locals
          stk,     \* transmissions waiting in arp_resolve
          out,     \* segments transmitted
          peers,   \* the peer's end of each connection it accepted
          hist,    \* what the caller has seen on the latest connection
          calls

tcpVars == <<conn, call, stk, out, peers, hist, calls>>

Plus(a, b) == (a + b) % SeqSpace
NoIsn == -1
Idle == [op |-> "none", pc |-> "none", n |-> 0, try |-> 0, seq |-> 0]

\* tcp_init.
TcpInit ==
    /\ conn = [state |-> "CLOSED", seq |-> InitSeq, ack |-> 0, recv |-> <<>>]
    /\ call = Idle /\ stk = <<>> /\ out = {} /\ peers = <<>> /\ calls = 0
    /\ hist = [isn |-> NoIsn, clean |-> TRUE, delivered |-> <<>>, sent |-> 0]

-------------------------------------------------------------------------------
(* The peer: a TCP server outside the kernel.                              *)

Segment(flags, seq, ack, data) == [flags |-> flags, seq |-> seq, ack |-> ack, data |-> data]
Byte(p, i) == <<p.isn, i>>
Bytes(p, i, n) == [k \in 1 .. n |-> Byte(p, i + k)]

\* What the peer may have sent on connection p, with every acknowledgement it
\* could give so far.
SentBy(p) ==
    LET acks == {Plus(p.syn, 1 + k) : k \in 0 .. p.got}
        at(i) == Plus(p.isn, 1 + i)
    IN  {Segment({"SYN", "ACK"}, p.isn, Plus(p.syn, 1), <<>>)}
        \cup (IF p.st = "SYN_RCVD" THEN {}
              ELSE {Segment({"ACK"}, at(i), a, Bytes(p, i, n)) :
                      i \in 0 .. PeerBytes - 1, n \in 1 .. 2, a \in acks}
                   \cup {Segment({"ACK"}, at(0), a, <<>>) : a \in acks})
        \cup (IF p.fin
              THEN {Segment({"ACK", "FIN"}, at(i), a, Bytes(p, i, PeerBytes - i)) :
                      i \in {PeerBytes, PeerBytes - 1}, a \in acks}
              ELSE {})
        \cup (IF p.rst THEN {Segment({"RST"}, at(0), 0, <<>>)} ELSE {})
InRange(m) == \A k \in DOMAIN m.data : m.data[k][2] <= PeerBytes
Arriving == {m \in UNION {SentBy(peers[k]) : k \in DOMAIN peers} : InRange(m)}

LastPeer == Len(peers)
Latest == peers[LastPeer]
PeerIs(p) == peers' = [peers EXCEPT ![LastPeer] = p]

\* A SYN opens a connection unless the latest one is for the same SYN and alive.
PeerSyn(m) ==
    /\ m \in out /\ m.flags = {"SYN"}
    /\ LastPeer > 0 => Latest.rst \/ Latest.syn < m.seq
    /\ \E isn \in Isns \ {peers[k].isn : k \in DOMAIN peers} :
         peers' = Append(peers, [syn |-> m.seq, isn |-> isn, st |-> "SYN_RCVD",
                                 got |-> 0, fin |-> FALSE, rst |-> FALSE])

PeerAck(m) ==
    /\ m \in out /\ "ACK" \in m.flags /\ LastPeer > 0 /\ ~Latest.rst
    /\ Latest.st = "SYN_RCVD" /\ m.ack = Plus(Latest.isn, 1)
    /\ PeerIs([Latest EXCEPT !.st = "ESTABLISHED"])

\* The next byte, or the FIN after the last one.
PeerData(m) ==
    /\ m \in out /\ LastPeer > 0 /\ ~Latest.rst /\ Latest.st = "ESTABLISHED"
    /\ m.seq = Plus(Latest.syn, 1 + Latest.got)
    /\ m.data # <<>> \/ "FIN" \in m.flags
    /\ PeerIs([Latest EXCEPT !.got = @ + (IF m.data # <<>> THEN Len(m.data) ELSE 1)])

PeerClose ==
    /\ LastPeer > 0 /\ Latest.st = "ESTABLISHED" /\ ~Latest.fin /\ ~Latest.rst
    /\ PeerIs([Latest EXCEPT !.fin = TRUE])

PeerAbort ==
    /\ LastPeer > 0 /\ ~Latest.rst
    /\ PeerIs([Latest EXCEPT !.rst = TRUE])

Peer ==
    /\ \/ \E m \in out : PeerSyn(m) \/ PeerAck(m) \/ PeerData(m)
       \/ PeerClose \/ PeerAbort
    /\ UNCHANGED <<conn, call, stk, out, hist, calls>>

-------------------------------------------------------------------------------
(* Transmission.  A world is the client's state; the operators below give  *)
(* the set of worlds the code may reach.                                   *)

world == [conn |-> conn, call |-> call, stk |-> stk, out |-> out, hist |-> hist]
\* What follows a transmission: nothing, the rest of the SYN-ACK case, the rest of
\* the FIN case, or the waiting loop of the call.
After(w, then) ==
    CASE then = "established" ->
           [w EXCEPT !.conn.state = "ESTABLISHED"]
      [] then = "time_wait" -> [w EXCEPT !.conn.state = "TIME_WAIT"]
      [] then = "call" ->
           [w EXCEPT !.call.pc = "poll",
                     !.conn.seq = IF w.call.op = "close" THEN Plus(w.call.seq, 1) ELSE @]
      [] OTHER -> w

\* What the peer's part of this model can tell of a segment: whether it completes the
\* handshake, and where its data or FIN is.
Kept(seg) ==
    LET opens == \E k \in DOMAIN peers : seg.ack = Plus(peers[k].isn, 1)
        bare == seg.flags = {"ACK"} /\ seg.data = <<>>
    IN  IF bare /\ ~opens THEN {}
        ELSE {[seg EXCEPT !.ack = IF opens THEN @ ELSE 0, !.seq = IF bare THEN 0 ELSE @]}

\* tcp_send_segment and ip_send: the segment is made before the address is looked up.
Transmit(w, flags, data, then) ==
    LET seg == Segment(flags, w.conn.seq, w.conn.ack, data)
    IN  {After([w EXCEPT !.out = @ \cup Kept(seg)], then)}
        \cup (IF Len(w.stk) < MaxDepth
              THEN {[w EXCEPT !.stk = Append(@, [seg |-> Kept(seg), then |-> then])]}
              ELSE {})
Ack(w, then) == Transmit(w, {"ACK"}, <<>>, then)

-------------------------------------------------------------------------------
(* tcp_handle_packet, by the state of the connection.                      *)

in_syn_sent(w, m) ==
    IF {"SYN", "ACK"} \subseteq m.flags
    THEN IF m.ack # Plus(w.conn.seq, 1) THEN {w}
         ELSE Ack([w EXCEPT !.conn.ack = Plus(m.seq, 1), !.conn.seq = m.ack,
                            !.hist.isn = m.seq], "established")
    ELSE IF "RST" \in m.flags THEN {[w EXCEPT !.conn.state = "CLOSED"]} ELSE {w}

\* An acknowledgement raises ack_num, which is also the next byte expected.
NoteAck(w, m) ==
    [w EXCEPT !.conn.ack = IF "ACK" \in m.flags /\ m.ack >= @ THEN m.ack ELSE @]

fin_established(w, m) ==
    IF "FIN" \notin m.flags THEN {w}
    ELSE IF m.seq # w.conn.ack THEN Ack(w, "none")
    ELSE Ack([w EXCEPT !.conn.ack = Plus(m.seq, 1)], "time_wait")

\* Mutant: data is taken while earlier data is still unread.
TakeOverUnread(w, m) ==
    IF m.seq # w.conn.ack \/ Len(m.data) > RecvBuf
    THEN Ack(w, "none")
    ELSE Ack([w EXCEPT !.conn.recv = m.data,
                       !.conn.ack = Plus(m.seq, Len(m.data))], "none")
\* A FIN with data is not at ack_num once the data is taken, so it is only
\* acknowledged a second time, with the same segment.
data_established(w, m) ==
    IF m.seq # w.conn.ack \/ Len(m.data) > RecvBuf \/ w.conn.recv # <<>>
    THEN Ack(w, "none")
    ELSE Ack([w EXCEPT !.conn.recv = m.data,
                       !.conn.ack = Plus(m.seq, Len(m.data))], "none")

in_established(w, m) ==
    IF "RST" \in m.flags THEN {[w EXCEPT !.conn.state = "CLOSED"]}
    ELSE IF m.data # <<>> THEN data_established(NoteAck(w, m), m)
    ELSE fin_established(NoteAck(w, m), m)

in_fin_wait_1(w, m) ==
    LET a == NoteAck(w, m)
    IN  IF "FIN" \in m.flags
        THEN Ack([a EXCEPT !.conn.ack = Plus(m.seq, 1)], "time_wait")
        ELSE IF "ACK" \in m.flags /\ m.ack >= a.conn.seq
        THEN {[a EXCEPT !.conn.state = "TIME_WAIT"]} ELSE {a}

tcp_handle_packet(w, m) ==
    CASE w.conn.state = "SYN_SENT" -> in_syn_sent(w, m)
      [] w.conn.state = "ESTABLISHED" -> in_established(w, m)
      [] w.conn.state = "FIN_WAIT_1" -> in_fin_wait_1(w, m)
      [] w.conn.state = "TIME_WAIT" -> {[w EXCEPT !.conn.state = "CLOSED"]}
      [] OTHER -> {w}

-------------------------------------------------------------------------------
(* The waiting loop of a call, as functions of the world after a poll.     *)

Chunk(c) == IF c.n < Mss THEN c.n ELSE Mss
ChunkEnd(c) == Plus(c.seq, Chunk(c))

\* The transmission at the head of the retry loop.
Try(w) ==
    LET v == [w EXCEPT !.call.pc = "sending", !.conn.seq = w.call.seq]
    IN  CASE w.call.op = "connect" -> Transmit(v, {"SYN"}, <<>>, "call")
          [] w.call.op = "send" ->
               Transmit(v, {"ACK"}, [k \in 1 .. Chunk(w.call) |-> "data"], "call")
          [] w.call.op = "close" -> Transmit(v, {"ACK", "FIN"}, <<>>, "call")

Return(w) == {[w EXCEPT !.call = Idle]}
WaitOn(w) == {[w EXCEPT !.call.pc = "wait"]}

CheckConnect(w) ==
    IF w.conn.state \in {"ESTABLISHED", "CLOSED"} THEN Return(w) ELSE WaitOn(w)

CheckSend(w) ==
    LET done == [w EXCEPT !.conn.seq = ChunkEnd(w.call), !.hist.sent = @ + Chunk(w.call)]
    IN  IF w.conn.state # "ESTABLISHED" THEN Return(w)
        ELSE IF w.conn.ack < ChunkEnd(w.call) THEN WaitOn(w)
        ELSE IF w.call.n = Chunk(w.call) THEN Return(done)
        ELSE Try([done EXCEPT !.call.n = @ - Chunk(w.call), !.call.try = 0,
                              !.call.seq = ChunkEnd(w.call)])

Copy(w) ==
    LET k == IF w.call.n < Len(w.conn.recv) THEN w.call.n ELSE Len(w.conn.recv)
    IN  Return([w EXCEPT !.conn.recv = SubSeq(@, k + 1, Len(@)),
                         !.hist.delivered = @ \o SubSeq(w.conn.recv, 1, k)])

\* When the time is up with this poll, what it brought stays in the buffer.
CheckRecv(w) ==
    IF w.conn.state \notin {"ESTABLISHED", "FIN_WAIT_1"}
    THEN IF w.conn.recv = <<>> THEN Return(w) ELSE Copy(w)
    ELSE IF w.conn.recv = <<>> THEN WaitOn(w) ELSE Copy(w) \cup Return(w)

Closed(w) == [w EXCEPT !.conn.state = "CLOSED"]
CheckClose(w) ==
    IF w.conn.state \in {"TIME_WAIT", "CLOSED"} THEN Return(Closed(w)) ELSE WaitOn(w)

\* Reached once the poll of the call has returned, with everything nested in it.
Check(w) ==
    IF w.call.pc # "check" \/ w.stk # <<>> THEN {w}
    ELSE CASE w.call.op = "connect" -> CheckConnect(w)
           [] w.call.op = "send" -> CheckSend(w)
           [] w.call.op = "recv" -> CheckRecv(w)
           [] w.call.op = "close" -> CheckClose(w)

-------------------------------------------------------------------------------
(* The actions.                                                            *)

Becomes(w) ==
    /\ conn' = w.conn /\ call' = w.call /\ stk' = w.stk /\ out' = w.out /\ hist' = w.hist
    /\ UNCHANGED peers

\* A call starts when none is in progress, with the world it has prepared.
Start(c, W(_)) ==
    /\ call = Idle /\ calls < MaxCalls /\ calls' = calls + 1
    /\ \E v \in W([world EXCEPT !.call = c]) : Becomes(v)

\* Nothing happens unless the state is closed.
tcp_connect ==
    /\ conn.state = "CLOSED"
    /\ LET opened(w) == [w EXCEPT !.conn.state = "SYN_SENT",
                                  !.hist = [isn |-> NoIsn, clean |-> conn.recv = <<>>,
                                            delivered |-> <<>>, sent |-> 0]]
           run(w) == Try(opened(w))
       IN  Start([Idle EXCEPT !.op = "connect", !.seq = conn.seq], run)

tcp_send(n) ==
    /\ conn.state = "ESTABLISHED"
    /\ Start([Idle EXCEPT !.op = "send", !.n = n, !.seq = conn.seq], Try)

tcp_recv(n) ==
    LET run(w) == IF conn.recv = <<>> THEN {w} ELSE Copy(w)
    IN  Start([Idle EXCEPT !.op = "recv", !.n = n, !.pc = "poll"], run)

tcp_close ==
    /\ conn.state = "ESTABLISHED"
    /\ LET run(w) == Try([w EXCEPT !.conn.state = "FIN_WAIT_1"])
       IN  Start([Idle EXCEPT !.op = "close", !.seq = conn.seq], run)

\* net_poll_once: in the waiting loop of a call, or in arp_resolve.
net_poll_once ==
    /\ stk # <<>> \/ call.pc \in {"poll", "wait"}
    /\ LET w == [world EXCEPT !.call.pc = IF stk = <<>> THEN "check" ELSE @]
       IN  \E h \in {w} \cup UNION {tcp_handle_packet(w, m) : m \in Arriving} :
             \E v \in Check(h) : Becomes(v)
    /\ UNCHANGED calls

\* The end of arp_resolve: the segment goes out.  When it fails after three tries the
\* segment is dropped, which is one of the ways in which it may be lost.
Resolve ==
    /\ stk # <<>>
    /\ LET f == stk[Len(stk)]
           w == [world EXCEPT !.stk = SubSeq(@, 1, Len(@) - 1), !.out = @ \cup f.seg]
       IN  \E v \in Check(After(w, f.then)) : Becomes(v)
    /\ UNCHANGED calls

\* The calls that try again.  A connect whose state a late segment has moved on without
\* opening or closing the connection gives up at once.
Retries(c) == c.op = "send" \/ (c.op = "connect" /\ conn.state = "SYN_SENT")

\* Mutant: the tries are not counted.
RetryForever ==
    /\ call.pc = "wait"
    /\ \E v \in IF Retries(call) THEN Try(world)
                ELSE Return(IF call.op = "recv" THEN world ELSE Closed(world)) :
         Becomes(v)
    /\ UNCHANGED calls
\* The waiting loop ends: the next try, or the call gives up.
Timeout ==
    /\ call.pc = "wait"
    /\ \E v \in IF Retries(call) /\ call.try + 1 < MaxRetries
                THEN Try([world EXCEPT !.call.try = @ + 1])
                ELSE Return(IF call.op \in {"recv", "send"} THEN world ELSE Closed(world)) :
         Becomes(v)
    /\ UNCHANGED calls

\* The kernel does something else.
TcpRest == call = Idle /\ UNCHANGED tcpVars

TcpNext ==
    \/ tcp_connect \/ tcp_close
    \/ \E n \in SendLens : tcp_send(n)
    \/ \E n \in RecvLens : tcp_recv(n)
    \/ net_poll_once \/ Resolve \/ Timeout
    \/ Peer \/ TcpRest

\* A waiting loop polls once, and the timer ends it, whatever arrives meanwhile: those of
\* the calls and those of arp_resolve at every depth.
TcpFair ==
    /\ WF_tcpVars(call.pc = "poll" /\ net_poll_once) /\ SF_tcpVars(Timeout)
    /\ \A d \in 1 .. MaxDepth : SF_tcpVars(Resolve /\ Len(stk) = d)

TcpSpec == TcpInit /\ [][TcpNext]_tcpVars /\ TcpFair

-------------------------------------------------------------------------------
(* Properties.                                                             *)

States == {"CLOSED", "SYN_SENT", "ESTABLISHED", "FIN_WAIT_1", "TIME_WAIT"}
Seqs == 0 .. SeqSpace - 1

\* Numbers wrap at SeqSpace, the buffer of tcp_recv holds what fits, and tries end.
TcpTypeOK ==
    /\ conn.state \in States /\ {conn.seq, conn.ack} \subseteq Seqs
    /\ Len(conn.recv) <= RecvBuf
    /\ call.op \in {"none", "connect", "send", "recv", "close"}
    /\ call.try \in 0 .. MaxRetries - 1 /\ Len(stk) <= MaxDepth

\* tcp_recv hands out the bytes the peer sent, each once and in order, when the
\* connection started with an empty receive buffer.
DeliveredInOrder ==
    hist.clean => \A k \in DOMAIN hist.delivered : hist.delivered[k] = <<hist.isn, k>>

FinTaken == \E k \in DOMAIN stk : stk[k].then = "time_wait"

\* While established with a peer whose numbers are above the client's, ack_num counts
\* what the caller got and what is in the buffer: data that is refused because the
\* buffer is in use is never acknowledged, and what is acknowledged is never lost.
\* The peer's FIN, while its acknowledgement waits for an address, counts for one more.
AckedIsKept ==
    hist.clean /\ conn.state = "ESTABLISHED" /\ hist.isn > conn.seq /\ ~FinTaken
      => conn.ack = hist.isn + 1 + Len(hist.delivered) + Len(conn.recv)

\* What tcp_send reports as sent has reached the peer.
SentIsReceived ==
    hist.sent > 0 => \E k \in DOMAIN peers : hist.sent <= peers[k].got

\* With a peer whose numbers are below the client's, ack_num exceeds the end of a
\* chunk only once the peer has acknowledged it, so tcp_send tells the truth.
SentIsReceivedBelow ==
    hist.isn < InitSeq => SentIsReceived

\* No call leaves a handshake or a close half done.  What it can leave is TIME_WAIT,
\* and only when the peer has closed.
RestingState ==
    call = Idle => /\ conn.state \in {"CLOSED", "ESTABLISHED", "TIME_WAIT"}
                   /\ conn.state = "TIME_WAIT" => \E k \in DOMAIN peers : peers[k].fin

\* Whatever is lost, repeated or reordered, and with segments handled inside a send:
\* tcp_recv hands out the stream when it starts with an empty buffer, ack_num is right
\* with a peer whose numbers are above the client's, tcp_send tells the truth with one
\* whose numbers are below, and no call leaves a handshake or a close half done.
TcpSafe ==
    TcpTypeOK /\ DeliveredInOrder /\ AckedIsKept /\ SentIsReceivedBelow /\ RestingState
===============================================================================
