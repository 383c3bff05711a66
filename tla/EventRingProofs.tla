--------------------------- MODULE EventRingProofs ---------------------------
(***************************************************************************)
(* Proofs about EventRing for every ring size and every set of events.     *)
(***************************************************************************)
EXTENDS EventRing, SequenceTheorems, TLAPS

\* Where the consumer's pointer stands relative to the tail: at it while get
\* runs, one slot behind it while the event is handled.
RingInv ==
    /\ RingTypeOK
    /\ stage = "got" => ev = tail /\ head # tail
    /\ stage = "use" => tail = after(ev)

LEMMA AfterInIndex == ASSUME NEW i \in Index PROVE after(i) \in Index
<1> USE RingAssumption DEF after, Index
<1>1. CASE i + 1 < SIZE
  BY <1>1
<1>2. CASE i + 1 = SIZE
  <2>1. SIZE % SIZE = 0
    OBVIOUS
  <2> QED BY <1>2, <2>1
<1> QED BY <1>1, <1>2

LEMMA RingInitInv == RingInit => RingInv
BY RingAssumption DEF RingInit, RingInv, RingTypeOK, Index

LEMMA RingStep == RingInv /\ [RingNext]_ringVars => RingInv'
<1> SUFFICES ASSUME RingInv, [RingNext]_ringVars PROVE RingInv'
  OBVIOUS
<1> USE DEF RingInv, RingTypeOK
<1>1. CASE UNCHANGED ringVars
  BY <1>1 DEF ringVars
<1>2. ASSUME NEW e \in Event, key_queue_put(e) PROVE RingInv'
  <2>1. head' = after(head) /\ head' \in Index
    BY <1>2, AfterInIndex DEF key_queue_put
  <2>2. slot' \in [Index -> Event \cup {NoEvent}]
    BY <1>2 DEF key_queue_put
  <2>3. head' # tail'
    BY <1>2, <2>1 DEF key_queue_put, key_queue_full
  <2> QED BY <1>2, <2>1, <2>2, <2>3 DEF key_queue_put
<1>3. CASE GetPointer
  BY <1>3 DEF GetPointer, key_queue_empty
<1>4. CASE GetAdvance
  BY <1>4, AfterInIndex DEF GetAdvance
<1>5. CASE Handled
  BY <1>5 DEF Handled
<1> QED BY <1>1, <1>2, <1>3, <1>4, <1>5 DEF RingNext, Consumer

\* The indices of the ring stay inside the array, for every ring size.
THEOREM RingTypeCorrect == RingSpec => []RingTypeOK
<1>1. RingSpec => []RingInv
  BY RingInitInv, RingStep, PTL DEF RingSpec
<1>2. RingInv => RingTypeOK
  BY DEF RingInv
<1> QED BY <1>1, <1>2, PTL

\* The slot a handler reads through the pointer key_queue_get returned is never
\* written while the handler holds it.
THEOREM HandIsStable == RingSpec => EventInHandStable
<1>1. RingSpec => []RingInv
  BY RingInitInv, RingStep, PTL DEF RingSpec
<1>2. RingInv /\ [RingNext]_ringVars => [stage # "idle" => slot'[ev] = slot[ev]]_ringVars
  <2> SUFFICES ASSUME RingInv, RingNext, stage # "idle" PROVE slot'[ev] = slot[ev]
    OBVIOUS
  <2>1. CASE Consumer
    BY <2>1 DEF Consumer, GetPointer, GetAdvance, Handled
  <2>2. ASSUME NEW e \in Event, key_queue_put(e) PROVE slot'[ev] = slot[ev]
    <3>1. ev # head
      BY <2>2 DEF RingInv, RingTypeOK, key_queue_put, key_queue_full
    <3> QED BY <2>2, <3>1 DEF RingInv, RingTypeOK, key_queue_put
  <2> QED BY <2>1, <2>2 DEF RingNext
<1> QED BY <1>1, <1>2, PTL DEF RingSpec, EventInHandStable

------------------------------------------------------------------------------
(* Refinement of the bounded queue.                                        *)

\* Where an index i places after x lands: one wrap at most.
LEMMA Wrap ==
    ASSUME NEW x \in Index, NEW i \in Index
    PROVE  (x + i) % SIZE = IF x + i < SIZE THEN x + i ELSE x + i - SIZE
<1> USE RingAssumption DEF Index
<1>1. CASE x + i < SIZE
  BY <1>1
<1>2. CASE x + i >= SIZE
  <2>1. (x + i - SIZE) % SIZE = x + i - SIZE
    BY <1>2
  <2>2. (x + i - SIZE + SIZE) % SIZE = (x + i - SIZE) % SIZE
    BY <1>2
  <2> QED BY <1>2, <2>1, <2>2
<1> QED BY <1>1, <1>2

\* The number of events between two indices.
LEMMA Distance ==
    ASSUME NEW h \in Index, NEW t \in Index
    PROVE  (h - t) % SIZE = IF h >= t THEN h - t ELSE h - t + SIZE
<1> USE RingAssumption DEF Index
<1>1. CASE h >= t
  BY <1>1
<1>2. CASE h < t
  <2>1. (h - t + SIZE) % SIZE = h - t + SIZE
    BY <1>2
  <2>2. (h - t + SIZE) % SIZE = (h - t) % SIZE
    BY <1>2
  <2> QED BY <1>2, <2>1, <2>2
<1> QED BY <1>1, <1>2

LEMMA AfterIs ==
    ASSUME NEW i \in Index
    PROVE  after(i) = IF i + 1 < SIZE THEN i + 1 ELSE 0
<1> USE RingAssumption DEF Index
<1>1. CASE i + 1 < SIZE
  BY <1>1 DEF after
<1>2. CASE i + 1 = SIZE
  <2>1. SIZE % SIZE = 0
    OBVIOUS
  <2> QED BY <1>2, <2>1 DEF after
<1> QED BY <1>1, <1>2

LEMMA ContentsType ==
    ASSUME RingInv
    PROVE  /\ Waiting \in 0 .. SIZE - 1
           /\ Contents \in Seq(Event \cup {NoEvent})
           /\ Len(Contents) = Waiting
           /\ \A i \in 1 .. Waiting :
                /\ (tail + i - 1) % SIZE \in Index
                /\ Contents[i] = slot[(tail + i - 1) % SIZE]
<1>1. Waiting \in 0 .. SIZE - 1
  BY Distance, RingAssumption DEF Waiting, RingInv, RingTypeOK, Index
<1>2. ASSUME NEW i \in 1 .. Waiting PROVE (tail + i - 1) % SIZE \in Index
  <2>1. i - 1 \in Index /\ tail + (i - 1) = tail + i - 1
    BY <1>1, RingAssumption DEF Index, RingInv, RingTypeOK
  <2> QED BY <2>1, Wrap, RingAssumption DEF RingInv, RingTypeOK, Index
<1>3. Contents \in Seq(Event \cup {NoEvent})
  BY <1>1, <1>2 DEF Contents, RingInv, RingTypeOK
<1> QED BY <1>1, <1>2, <1>3 DEF Contents

\* A put appends to the contents.
LEMMA PutAppends ==
    ASSUME RingInv, RingInv', NEW e \in Event, key_queue_put(e)
    PROVE  Waiting < SIZE - 1 /\ Contents' = Append(Contents, e)
<1> USE RingAssumption DEF RingInv, RingTypeOK
<1>1. head' = after(head) /\ tail' = tail /\ after(head) # tail
  BY DEF key_queue_put, key_queue_full
<1>2. Waiting' = Waiting + 1 /\ Waiting < SIZE - 1
  <2>1. Waiting = IF head >= tail THEN head - tail ELSE head - tail + SIZE
    BY Distance DEF Waiting
  <2>2. Waiting' = IF head' >= tail THEN head' - tail ELSE head' - tail + SIZE
    BY Distance, <1>1 DEF Waiting
  <2>3. head' = IF head + 1 < SIZE THEN head + 1 ELSE 0
    BY <1>1, AfterIs
  <2> QED BY <1>1, <2>1, <2>2, <2>3 DEF Index
<1>3. \A i \in 1 .. Waiting : (tail + i - 1) % SIZE # head
  <2> TAKE i \in 1 .. Waiting
  <2>1. Waiting = IF head >= tail THEN head - tail ELSE head - tail + SIZE
    BY Distance DEF Waiting
  <2>2. i - 1 \in Index /\ tail + (i - 1) = tail + i - 1
    <3>1. Waiting \in 0 .. SIZE - 1
      BY ContentsType
    <3> QED BY <3>1 DEF Index
  <2>3. (tail + i - 1) % SIZE =
          IF tail + i - 1 < SIZE THEN tail + i - 1 ELSE tail + i - 1 - SIZE
    BY <2>2, Wrap
  <2> QED BY <2>1, <2>3 DEF Index
<1>4. (tail + Waiting) % SIZE = head
  <2>1. Waiting = IF head >= tail THEN head - tail ELSE head - tail + SIZE
    BY Distance DEF Waiting
  <2>2. Waiting \in Index
    BY ContentsType DEF Index
  <2>3. (tail + Waiting) % SIZE =
          IF tail + Waiting < SIZE THEN tail + Waiting
                                   ELSE tail + Waiting - SIZE
    BY <2>2, Wrap
  <2>4. head \in Index /\ tail \in Index
    OBVIOUS
  <2> QED BY <2>1, <2>2, <2>3, <2>4 DEF Index
<1>5. slot' = [slot EXCEPT ![head] = e]
  BY DEF key_queue_put
<1>6. Waiting \in Nat /\ tail \in Int
  BY ContentsType DEF Index
<1>7. ASSUME NEW i \in 1 .. Waiting + 1
      PROVE  slot'[(tail + i - 1) % SIZE] = Append(Contents, e)[i]
  <2>1. CASE i = Waiting + 1
    <3>1. tail + i - 1 = tail + Waiting
      BY <2>1, <1>6
    <3>2. slot'[head] = e
      BY <1>5
    <3>3. Append(Contents, e)[i] = e
      BY <2>1, ContentsType, <1>6
    <3> QED BY <3>1, <3>2, <3>3, <1>4
  <2>2. CASE i \in 1 .. Waiting
    <3>1. Append(Contents, e)[i] = Contents[i]
      BY <2>2, ContentsType, <1>6
    <3>2. slot'[(tail + i - 1) % SIZE] = slot[(tail + i - 1) % SIZE]
      BY <2>2, <1>3, <1>5, ContentsType
    <3> QED BY <2>2, <3>1, <3>2, ContentsType
  <2>3. i = Waiting + 1 \/ i \in 1 .. Waiting
    BY <1>6
  <2> QED BY <2>1, <2>2, <2>3
<1>8. Contents' = [i \in 1 .. Waiting + 1 |-> slot'[(tail + i - 1) % SIZE]]
  BY <1>1, <1>2 DEF Contents
<1>9. /\ Append(Contents, e) \in Seq(Event \cup {NoEvent})
      /\ Len(Append(Contents, e)) = Waiting + 1
  BY ContentsType
<1>10. Append(Contents, e) = [i \in 1 .. Waiting + 1 |-> Append(Contents, e)[i]]
  BY <1>9, LenProperties
<1> QED BY <1>2, <1>7, <1>8, <1>10

\* The head of the contents is the event at the tail, and moving the tail past
\* it takes it off.
LEMMA AdvanceTakes ==
    ASSUME RingInv, head # tail
    PROVE  /\ Waiting >= 1
           /\ Contents # <<>>
           /\ Head(Contents) = slot[tail]
<1> USE RingAssumption DEF RingInv, RingTypeOK
<1>1. Waiting >= 1
  <2>1. Waiting = IF head >= tail THEN head - tail ELSE head - tail + SIZE
    BY Distance DEF Waiting
  <2> QED BY <2>1 DEF Index
<1>2. Contents \in Seq(Event \cup {NoEvent}) /\ Len(Contents) = Waiting
  BY ContentsType
<1>3. Contents # <<>>
  BY <1>1, <1>2
<1>4. Contents[1] = slot[tail]
  <2>1. 1 \in 1 .. Waiting
    BY <1>1, ContentsType
  <2>2. (tail + 1 - 1) % SIZE = tail
    BY DEF Index
  <2> QED BY <2>1, <2>2, ContentsType
<1>5. Head(Contents) = Contents[1]
  BY <1>2, <1>3, HeadTailProperties
<1> QED BY <1>1, <1>3, <1>4, <1>5

LEMMA TailAdvance ==
    ASSUME RingInv, RingInv', head # tail, head' = head, slot' = slot,
           tail' = after(tail)
    PROVE  Contents' = Tail(Contents)
<1> USE RingAssumption DEF RingInv, RingTypeOK
<1>1. Waiting' = Waiting - 1 /\ Waiting >= 1
  <2>1. Waiting = IF head >= tail THEN head - tail ELSE head - tail + SIZE
    BY Distance DEF Waiting
  <2>2. Waiting' = IF head >= tail' THEN head - tail' ELSE head - tail' + SIZE
    BY Distance DEF Waiting
  <2>3. tail' = IF tail + 1 < SIZE THEN tail + 1 ELSE 0
    BY AfterIs
  <2> QED BY <2>1, <2>2, <2>3 DEF Index
<1>2. /\ Contents \in Seq(Event \cup {NoEvent}) /\ Len(Contents) = Waiting
      /\ Waiting \in 0 .. SIZE - 1
  BY ContentsType
<1>3. Contents # <<>>
  BY <1>1, <1>2
<1>4. ASSUME NEW i \in 1 .. Waiting - 1
      PROVE  slot[(tail' + i - 1) % SIZE] = Tail(Contents)[i]
  <2>1. Tail(Contents)[i] = Contents[i + 1]
    BY <1>2, <1>3
  <2>2. i + 1 \in 1 .. Waiting
    BY <1>2
  <2>3. Contents[i + 1] = slot[(tail + (i + 1) - 1) % SIZE]
    BY <2>2, ContentsType
  <2>4. (tail' + i - 1) % SIZE = (tail + (i + 1) - 1) % SIZE
    <3>1. i \in Index /\ i - 1 \in Index
      BY <1>2 DEF Index
    <3>2. /\ tail' + i - 1 = tail' + (i - 1)
          /\ tail + (i + 1) - 1 = tail + i
      BY <1>2 DEF Index
    <3>3. (tail + i) % SIZE =
            IF tail + i < SIZE THEN tail + i ELSE tail + i - SIZE
      BY <3>1, Wrap
    <3>4. (tail' + (i - 1)) % SIZE =
            IF tail' + (i - 1) < SIZE THEN tail' + (i - 1)
                                      ELSE tail' + (i - 1) - SIZE
      BY <3>1, Wrap
    <3>5. tail' = IF tail + 1 < SIZE THEN tail + 1 ELSE 0
      BY AfterIs
    <3> QED BY <3>1, <3>2, <3>3, <3>4, <3>5 DEF Index
  <2> QED BY <2>1, <2>3, <2>4
<1>5. Contents' = [i \in 1 .. Waiting - 1 |-> slot[(tail' + i - 1) % SIZE]]
  BY <1>1 DEF Contents
<1>6. Tail(Contents) \in Seq(Event \cup {NoEvent}) /\ Len(Tail(Contents)) = Waiting - 1
  BY <1>2, <1>3, HeadTailProperties
<1>7. Tail(Contents) = [i \in 1 .. Waiting - 1 |-> Tail(Contents)[i]]
  BY <1>6, LenProperties
<1> QED BY <1>4, <1>5, <1>7

LEMMA PutKeepsHand ==
    ASSUME RingInv, NEW e \in Event, key_queue_put(e), stage # "idle"
    PROVE  slot'[ev] = slot[ev]
<1>1. ev # head
  BY DEF RingInv, RingTypeOK, key_queue_put, key_queue_full
<1> QED BY <1>1 DEF RingInv, RingTypeOK, key_queue_put

LEMMA RingRefines ==
    RingInv /\ RingInv' /\ [RingNext]_ringVars =>
        [Queue!QNext]_<<IF stage = "got" THEN Tail(Contents) ELSE Contents,
                        IF stage = "idle" THEN NoEvent ELSE slot[ev]>>
<1> DEFINE Q == IF stage = "got" THEN Tail(Contents) ELSE Contents
           H == IF stage = "idle" THEN NoEvent ELSE slot[ev]
<1> SUFFICES ASSUME RingInv, RingInv', [RingNext]_ringVars
             PROVE  Queue!QNext \/ (Q' = Q /\ H' = H)
  OBVIOUS
<1>1. CASE UNCHANGED ringVars
  <2>1. /\ slot' = slot /\ head' = head /\ tail' = tail /\ stage' = stage
        /\ ev' = ev
    BY <1>1 DEF ringVars
  <2>2. Contents' = Contents
    BY <2>1 DEF Contents, Waiting
  <2> QED BY <2>1, <2>2
<1>2. ASSUME NEW e \in Event, key_queue_put(e) PROVE Queue!Arrive(e)
  <2>1. Waiting < SIZE - 1 /\ Contents' = Append(Contents, e)
    BY <1>2, PutAppends
  <2>2. /\ Contents \in Seq(Event \cup {NoEvent}) /\ Len(Contents) = Waiting
        /\ Waiting \in Int /\ SIZE \in Int
    BY ContentsType, RingAssumption
  <2>3. stage' = stage /\ ev' = ev
    BY <1>2 DEF key_queue_put
  <2>4. H' = H
    BY <1>2, <2>3, PutKeepsHand
  <2>5. CASE stage = "got"
    <3>1. Contents # <<>>
      BY <2>5, AdvanceTakes DEF RingInv
    <3>2. Tail(Append(Contents, e)) = Append(Tail(Contents), e)
      BY <2>2, <3>1, HeadTailAppend
    <3>3. Len(Tail(Contents)) = Waiting - 1
      BY <2>2, <3>1, HeadTailProperties
    <3>4. Len(Tail(Contents)) < SIZE - 1
      BY <2>1, <2>2, <3>3
    <3>5. Q' = Append(Q, e) /\ Len(Q) < SIZE - 1
      BY <2>1, <2>3, <2>5, <3>2, <3>4
    <3> QED BY <2>4, <3>5 DEF Queue!Arrive
  <2>6. CASE stage # "got"
    <3>1. Q' = Append(Q, e) /\ Len(Q) < SIZE - 1
      BY <2>1, <2>2, <2>3, <2>6
    <3> QED BY <2>4, <3>1 DEF Queue!Arrive
  <2> QED BY <2>5, <2>6
<1>3. CASE GetPointer
  <2>1. /\ slot' = slot /\ head' = head /\ tail' = tail /\ ev' = tail
        /\ stage = "idle" /\ stage' = "got" /\ head # tail
    BY <1>3 DEF GetPointer, key_queue_empty
  <2>2. Contents' = Contents
    BY <2>1 DEF Contents, Waiting
  <2>3. Contents # <<>> /\ Head(Contents) = slot[tail]
    BY <2>1, AdvanceTakes
  <2>4. Queue!Take
    BY <2>1, <2>2, <2>3 DEF Queue!Take
  <2> QED BY <2>4 DEF Queue!QNext
<1>4. CASE GetAdvance
  <2>1. /\ slot' = slot /\ head' = head /\ tail' = after(tail) /\ ev' = ev
        /\ stage = "got" /\ stage' = "use" /\ head # tail
    BY <1>4 DEF GetAdvance, RingInv
  <2>2. Contents' = Tail(Contents)
    BY <2>1, TailAdvance
  <2> QED BY <2>1, <2>2
<1>5. CASE Handled
  <2>1. /\ slot' = slot /\ head' = head /\ tail' = tail
        /\ stage = "use" /\ stage' = "idle"
    BY <1>5 DEF Handled
  <2>2. Contents' = Contents
    BY <2>1 DEF Contents, Waiting
  <2>3. Q' = Q /\ H' = NoEvent
    BY <2>1, <2>2
  <2>4. CASE H = NoEvent
    BY <2>3, <2>4
  <2>5. CASE H # NoEvent
    <3>1. Queue!Finish
      BY <2>3, <2>5 DEF Queue!Finish
    <3> QED BY <3>1 DEF Queue!QNext
  <2> QED BY <2>4, <2>5
<1> QED
  BY <1>1, <1>2, <1>3, <1>4, <1>5 DEF RingNext, Consumer, Queue!QNext

\* The ring is a bounded FIFO queue for every size: nothing is reordered,
\* duplicated or altered between the interrupt that posts an event and the
\* handler that reads it.
THEOREM QueueRefinement == RingSpec => ImplementsQueue
<1>1. RingSpec => []RingInv
  BY RingInitInv, RingStep, PTL DEF RingSpec
<1>2. RingInit => Queue!QInit
  <2> SUFFICES ASSUME RingInit PROVE Queue!QInit
    OBVIOUS
  <2>1. RingInv
    BY RingInitInv
  <2>2. Waiting = 0
    BY RingAssumption DEF RingInit, Waiting
  <2>3. Contents = <<>>
    BY <2>1, <2>2, ContentsType
  <2> QED BY <2>3 DEF RingInit, Queue!QInit
<1> QED
  BY <1>1, <1>2, RingRefines, PTL DEF RingSpec, ImplementsQueue, Queue!QSpec
==============================================================================
