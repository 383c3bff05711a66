------------------------------- MODULE NetLink -------------------------------
(***************************************************************************)
(* Frames and addresses: Kernel/net/net_eth.c, net_ip.c and net_arp.c.     *)
(*                                                                         *)
(* arp_resolve polls the card while it waits, and a segment that arrives   *)
(* then makes TCP transmit an acknowledgement to the same peer, which      *)
(* resolves the address again: frames holds the resolutions in progress,   *)
(* innermost last.  Only TCP transmits IP packets, always to its one peer. *)
(* The contents of packets are left out; the lengths are kept.             *)
(***************************************************************************)
EXTENDS Integers, Sequences, FiniteSets, SequencesExt, FiniteSetsExt

CONSTANTS Hosts,        \* addresses heard of on the network
          Peer_,        \* the one TCP talks to
          Macs,
          CacheSize,    \* ARP_CACHE_SIZE
          ArpRetries,   \* ARP_RETRIES
          MaxNest,      \* bound on nested resolutions
          MaxArrivals,  \* bound on packets sent and received
          Lens, Totals  \* lengths of frames and of IP packets that arrive

ASSUME NetLinkAssumption ==
    /\ Peer_ \in Hosts /\ CacheSize \in Nat \ {0} /\ ArpRetries \in Nat \ {0}
    /\ MaxNest \in Nat /\ MaxArrivals \in Nat /\ Lens \subseteq Nat /\ Totals \subseteq Nat

VARIABLES cache,    \* g_arp_cache, with g_arp_age
          clock,    \* g_arp_age_counter
          frames,   \* resolutions in progress
          last,     \* what the latest packet of each host said its address is
          askedKnown, \* was a request sent for an address in the cache?
          past,     \* did a handler look past the end of a frame?
          got       \* packets sent and received

netVars == <<cache, clock, frames, last, askedKnown, past, got>>

Slots == 1 .. CacheSize
NoMac == "none"

\* arp_init.
NetInit ==
    /\ cache = [i \in Slots |-> [valid |-> FALSE, ip |-> Peer_, mac |-> NoMac, age |-> 0]]
    /\ clock = 0 /\ frames = <<>> /\ last = [h \in Hosts |-> NoMac]
    /\ askedKnown = FALSE /\ past = FALSE /\ got = 0

-------------------------------------------------------------------------------
(* Lengths: what reaches a handler, as functions of the lengths in a       *)
(* packet.  0 stands for a packet that is dropped.                         *)

ETH_HLEN == 14
IP_HLEN == 20
TCP_HLEN == 20

eth_payload(len) == IF len < ETH_HLEN THEN 0 ELSE len - ETH_HLEN

\* ip_handle_packet: where the payload starts and how long it is.
ip_payload(len, ihl, total) ==
    IF len < IP_HLEN \/ ihl < 5 \/ 4 * ihl > len \/ total < 4 * ihl \/ total > len
    THEN <<0, 0>> ELSE <<4 * ihl, total - 4 * ihl>>

\* The first tests of tcp_handle_packet.
tcp_payload(len, words) ==
    IF len < TCP_HLEN \/ words < 5 \/ 4 * words > len THEN <<0, 0>>
    ELSE <<4 * words, len - 4 * words>>

-------------------------------------------------------------------------------
(* The cache.                                                              *)

Holding(c, ip) == {i \in Slots : c[i].valid /\ c[i].ip = ip}

\* arp_cache_lookup renews the age of what it finds.
arp_cache_lookup(c, ip, now) ==
    IF Holding(c, ip) = {} THEN c ELSE [c EXCEPT ![Min(Holding(c, ip))].age = now]

\* Mutant: the first slot is taken when the cache is full.
EvictFirst(c, ip) ==
    LET free == {i \in Slots : ~c[i].valid}
    IN  IF Holding(c, ip) # {} THEN Min(Holding(c, ip))
        ELSE IF free # {} THEN Min(free) ELSE 1
\* Mutant: an address that is known already gets another slot.
FreeSlotFirst(c, ip) ==
    LET free == {i \in Slots : ~c[i].valid}
    IN  IF free # {} THEN Min(free) ELSE IF Holding(c, ip) # {} THEN Min(Holding(c, ip)) ELSE 1
\* The slot arp_cache_add uses: the address's own, a free one, the oldest one.
SlotFor(c, ip) ==
    LET free == {i \in Slots : ~c[i].valid}
    IN  IF Holding(c, ip) # {} THEN Min(Holding(c, ip))
        ELSE IF free # {} THEN Min(free)
        ELSE CHOOSE i \in Slots : \A j \in Slots : c[i].age < c[j].age
                                     \/ (c[i].age = c[j].age /\ i <= j)

arp_cache_add(c, ip, mac, now) ==
    [c EXCEPT ![SlotFor(c, ip)] = [valid |-> TRUE, ip |-> ip, mac |-> mac, age |-> now]]

-------------------------------------------------------------------------------
(* Resolution.                                                             *)

Known(ip) == Holding(cache, ip) # {}
Bounded == got < MaxArrivals /\ got' = got + 1

\* The start of arp_resolve, with the resolutions fs around it: the address is in the
\* cache, or a request goes out.
arp_resolve(fs) ==
    IF Known(Peer_)
    THEN /\ cache' = arp_cache_lookup(cache, Peer_, clock + 1) /\ clock' = clock + 1
         /\ frames' = fs /\ UNCHANGED askedKnown
    ELSE /\ frames' = Append(fs, [try |-> 0, pc |-> "wait"])
         /\ UNCHANGED <<cache, clock, askedKnown>>

ip_send ==
    /\ frames = <<>> /\ Bounded
    /\ arp_resolve(<<>>)
    /\ UNCHANGED <<last, past>>

Top == Len(frames)
Polling == frames # <<>> /\ frames[Top].pc = "wait" /\ Bounded
Polled == [frames EXCEPT ![Top].pc = "look"]

\* net_poll_once gets an ARP request or reply of host h: arp_handle_packet learns the
\* sender, whatever is asked.  The reply to a request for our address is left out.
arp_handle_packet(h, mac) ==
    /\ Polling
    /\ cache' = arp_cache_add(cache, h, mac, clock + 1) /\ clock' = clock + 1
    /\ last' = [last EXCEPT ![h] = mac]
    /\ frames' = Polled
    /\ UNCHANGED <<askedKnown, past>>

\* It gets an IP packet of the peer.  When the lengths are right TCP acknowledges it,
\* inside this resolution.  A packet with a wrong version, checksum or protocol, and a
\* fragment, is dropped like one with a wrong length.
ip_handle_packet(len, ihl, total, words) ==
    LET ip == ip_payload(eth_payload(len), ihl, total)
        tcp == tcp_payload(ip[2], words)
    IN  /\ Polling /\ Top < MaxNest
        /\ past' = (past \/ (tcp[1] > 0 /\ ETH_HLEN + ip[1] + tcp[1] + tcp[2] > len))
        /\ IF tcp[1] = 0 THEN frames' = Polled /\ UNCHANGED <<cache, clock, askedKnown>>
           ELSE arp_resolve(Polled)
        /\ UNCHANGED last

\* After each poll the address is looked up.
Look ==
    /\ frames # <<>> /\ frames[Top].pc = "look"
    /\ IF Known(Peer_)
       THEN /\ cache' = arp_cache_lookup(cache, Peer_, clock + 1) /\ clock' = clock + 1
            /\ frames' = Front(frames)
       ELSE frames' = [frames EXCEPT ![Top].pc = "wait"] /\ UNCHANGED <<cache, clock>>
    /\ UNCHANGED <<last, askedKnown, past, got>>

\* The time for this request is over: the next request, or the resolution fails.
RequestTimeout ==
    /\ frames # <<>> /\ frames[Top].pc = "wait"
    /\ IF frames[Top].try + 1 < ArpRetries
       THEN /\ frames' = [frames EXCEPT ![Top].try = @ + 1]
            /\ askedKnown' = (askedKnown \/ Known(Peer_))
       ELSE frames' = Front(frames) /\ UNCHANGED askedKnown
    /\ UNCHANGED <<cache, clock, last, past, got>>

\* Nothing to send.
NetRest == frames = <<>> /\ UNCHANGED netVars

NetNext ==
    \/ ip_send
    \/ \E h \in Hosts, m \in Macs : arp_handle_packet(h, m)
    \/ \E len \in Lens, ihl \in {4, 5, 6}, total \in Totals, words \in {4, 5, 6} :
         ip_handle_packet(len, ihl, total, words)
    \/ Look \/ RequestTimeout \/ NetRest

\* The timer ends each request, whatever arrives meanwhile.
NetFair == WF_netVars(Look) /\ WF_netVars(RequestTimeout)

NetSpec == NetInit /\ [][NetNext]_netVars /\ NetFair

-------------------------------------------------------------------------------
(* Properties.                                                             *)

\* Ages are times of the past, and the tries of arp_resolve end.
NetTypeOK ==
    /\ \A i \in Slots : cache[i].ip \in Hosts /\ cache[i].age \in 0 .. clock
    /\ \A k \in DOMAIN frames : frames[k].try \in 0 .. ArpRetries - 1
    /\ got \in 0 .. MaxArrivals

\* An address that the cache knows is the one its host announced last, and it is in
\* one slot only: arp_cache_add never leaves an old entry beside the new one.
CacheIsLatest ==
    /\ \A i \in Slots : cache[i].valid => cache[i].mac = last[cache[i].ip]
    /\ \A i, j \in Slots : cache[i].valid /\ cache[j].valid /\ cache[i].ip = cache[j].ip
                             => i = j

\* A request is sent only for an address that the cache does not hold, also from the
\* resolutions nested in one another: one reply releases all of them.
AsksOnlyUnknown == ~askedKnown

\* No combination of received length, header lengths and total length makes the
\* handlers look past the end of the frame.
NoReadPastEnd == ~past

\* The cache, read from the entry used last to the one used longest ago.
ByAge ==
    LET used == {i \in Slots : cache[i].valid}
        seq == SetToSortSeq(used, LAMBDA i, j : cache[i].age > cache[j].age)
    IN  [k \in DOMAIN seq |-> <<cache[seq[k]].ip, cache[seq[k]].mac>>]

Lru == INSTANCE LruMap WITH entries <- ByAge, Size <- CacheSize, Keys <- Hosts, Values <- Macs

\* The cache forgets the address used longest ago and no other.
ImplementsLru == Lru!LruSpec

\* Addresses are the latest, requests are needed, and lengths stay within the frame.
NetSafe == NetTypeOK /\ CacheIsLatest /\ AsksOnlyUnknown /\ NoReadPastEnd
===============================================================================
