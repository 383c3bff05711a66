-------------------------------- MODULE Rtl8139 --------------------------------
(***************************************************************************)
(* The network card and its driver, Kernel/drivers/rtl8139.c: four         *)
(* transmit descriptors and a receive ring that the card fills by DMA.     *)
(*                                                                         *)
(* Frames and offsets are counted in units of 4 bytes, to which the card   *)
(* aligns them: a frame of d units takes a header, d units and a checksum. *)
(* The card wraps at RingLen, 8192 bytes, in the middle of a frame too;    *)
(* the driver's buffer has Slack, 16 bytes, after it.  kmalloc does not    *)
(* clear the buffer, and kmain has had KERNEL.BIN in that memory before.   *)
(* What the driver finds in a place that holds old memory or data instead  *)
(* of a header is any header, or none.                                     *)
(***************************************************************************)
EXTENDS Integers, Sequences, FiniteSets

CONSTANTS RingLen, Slack,
          FrameLens,    \* lengths of frames that arrive
          MaxLen,       \* longest frame the driver takes, with its checksum
          NumDesc,      \* RTL_NUM_TX_DESC
          MaxRx, MaxPolled, MaxTx  \* bounds on frames received, returned and sent

ASSUME RtlAssumption ==
    /\ RingLen \in Nat \ {0} /\ Slack \in Nat /\ FrameLens \subseteq Nat \ {0}
    /\ MaxLen \in Nat /\ NumDesc \in Nat \ {0} /\ MaxRx \in Nat
    /\ MaxPolled \in Nat /\ MaxTx \in Nat

VARIABLES ring,     \* the receive buffer
          cbr,      \* where the card writes next
          capr,     \* where the card believes the driver reads
          rx,       \* nic->rx_offset
          misled,   \* history: has the driver taken old memory for a header?
          arrived,  \* frames the card has stored, oldest first
          polled,   \* what rtl8139_poll has returned
          tx,       \* the descriptors: owner, and the frame in the buffer
          cur,      \* nic->tx_cur
          queued,   \* frames rtl8139_send has accepted
          onWire      \* frames the card has sent

rxVars == <<ring, cbr, capr, rx, misled, arrived, polled>>
txVars == <<tx, cur, queued, onWire>>
rtlVars == <<rxVars, txVars>>

OldMemory == [k |-> "stale"]
Descs == 0 .. NumDesc - 1

\* rtl8139_init.
RtlInit ==
    /\ ring = [a \in 0 .. RingLen + Slack - 1 |-> OldMemory]
    /\ cbr = 0 /\ capr = 0 /\ rx = 0 /\ misled = FALSE /\ arrived = <<>> /\ polled = <<>>
    /\ tx = [d \in Descs |-> [busy |-> FALSE, own |-> FALSE, frame |-> 0]]
    /\ cur = 0 /\ queued = 0 /\ onWire = <<>>

-------------------------------------------------------------------------------
(* Receiving.                                                              *)

Taken(d) == d + 2
Free == IF cbr = capr THEN RingLen ELSE (capr - cbr) % RingLen

\* The card stores a frame when it fits, and drops it otherwise.
CardReceives(d) ==
    LET id == Len(arrived) + 1
        at(k) == (cbr + k) % RingLen
        cell(k) == IF k = 0 THEN [k |-> "header", id |-> id, len |-> d + 1]
                   ELSE [k |-> "data", id |-> id]
    IN  /\ Len(arrived) < MaxRx /\ Taken(d) < Free
        /\ ring' = [a \in DOMAIN ring |->
                      IF \E k \in 0 .. Taken(d) - 1 : at(k) = a
                      THEN cell(CHOOSE k \in 0 .. Taken(d) - 1 : at(k) = a) ELSE ring[a]]
        /\ cbr' = at(Taken(d)) /\ arrived' = Append(arrived, d)
        /\ UNCHANGED <<capr, rx, misled, polled>> /\ UNCHANGED txVars

\* The headers the driver may read at offset a.  It may also read there that nothing has
\* been received: the call then returns 0 and changes nothing.
Headers(a) ==
    IF ring[a].k = "header" THEN {[id |-> ring[a].id, len |-> ring[a].len]}
    ELSE [id : {0}, len : 0 .. MaxLen + 1]

\* Mutant: the driver goes on at the checksum of the frame it has read.
NextIgnoresHeader(at, len) == (at + len) % (RingLen + Slack)
\* The offset after a frame, reduced by the size of the buffer.
NextOffset(at, len) == (at + len + 1) % (RingLen + Slack)

\* rtl8139_poll: the offset is masked when it is used.
rtl8139_poll ==
    LET at == rx % RingLen
    IN  \E h \in Headers(at) :
          /\ Len(polled) < MaxPolled
          /\ rx' = NextOffset(IF h.len < 1 \/ h.len > MaxLen THEN rx ELSE at, h.len)
          /\ capr' = rx' % RingLen
          /\ polled' = IF h.len < 1 \/ h.len > MaxLen THEN polled ELSE Append(polled, h.id)
          /\ misled' = (misled \/ ring[at] = OldMemory)
          /\ UNCHANGED <<ring, cbr, arrived>> /\ UNCHANGED txVars

-------------------------------------------------------------------------------
(* Sending.                                                                *)

\* rtl8139_send: a descriptor that was used waits for the card to be done with it.
rtl8139_send ==
    /\ queued < MaxTx
    /\ tx[cur].busy => ~tx[cur].own
    /\ tx' = [tx EXCEPT ![cur] = [busy |-> TRUE, own |-> TRUE, frame |-> queued + 1]]
    /\ cur' = (cur + 1) % NumDesc /\ queued' = queued + 1
    /\ UNCHANGED onWire /\ UNCHANGED rxVars

\* The card is not done in time: the call fails and changes nothing.
SendTimeout == tx[cur].busy /\ tx[cur].own /\ UNCHANGED rtlVars

\* The card sends what is in a buffer it owns, in the order of the descriptors.
CardSends(d) ==
    /\ tx[d].own
    /\ \A e \in Descs : tx[e].own => tx[d].frame <= tx[e].frame
    /\ onWire' = Append(onWire, tx[d].frame)
    /\ tx' = [tx EXCEPT ![d].own = FALSE]
    /\ UNCHANGED <<cur, queued>> /\ UNCHANGED rxVars

RtlRest == UNCHANGED rtlVars

RtlNext ==
    \/ \E d \in FrameLens : CardReceives(d)
    \/ rtl8139_poll
    \/ rtl8139_send \/ SendTimeout
    \/ \E d \in Descs : CardSends(d)
    \/ RtlRest

RtlSpec == RtlInit /\ [][RtlNext]_rtlVars

-------------------------------------------------------------------------------
(* Properties.                                                             *)

\* The offsets of card and driver stay inside the buffer each of them has.
RtlTypeOK ==
    /\ {cbr, capr} \subseteq 0 .. RingLen - 1 /\ rx \in 0 .. RingLen + Slack - 1
    /\ cur \in Descs /\ queued \in 0 .. MaxTx /\ Len(arrived) <= MaxRx

Stored == LET sum[k \in 0 .. Len(arrived)] ==
                IF k = 0 THEN 0 ELSE sum[k - 1] + Taken(arrived[k])
          IN  sum[Len(arrived)]

Ids == [k \in DOMAIN arrived |-> k]
TakenIds == SelectSeq(Ids, LAMBDA k : arrived[k] + 1 <= MaxLen)

\* Until the card has filled the ring once, and while the driver has not taken for a
\* header what was in the memory before, rtl8139_poll returns the frames that were stored
\* and are not too long, each once and in order, and nothing else.  Neither condition can
\* be dropped: kmalloc leaves old bytes, of which poll tests one bit; after a lap the old
\* headers are there again, and card and driver reduce their offsets by different sizes.
FirstLapInOrder ==
    Stored < RingLen /\ ~misled
      => \E n \in 0 .. Len(TakenIds) : polled = SubSeq(TakenIds, 1, n)

\* A buffer is not filled again before the card has sent what is in it: the frames on
\* the wire are those that were accepted, each once and in order.
TxInOrder ==
    /\ \A k \in DOMAIN onWire : onWire[k] = k
    /\ Cardinality({d \in Descs : tx[d].own}) = queued - Len(onWire)

\* What rtl8139_send accepts goes out in order; what arrives is returned in order in the
\* first lap, if the memory of the ring held nothing like a header.
RtlSafe == RtlTypeOK /\ FirstLapInOrder /\ TxInOrder
===============================================================================
