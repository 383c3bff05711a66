-------------------------------- MODULE LruMap --------------------------------
(***************************************************************************)
(* What the ARP cache promises: a map of bounded size that forgets the     *)
(* address used longest ago.                                               *)
(***************************************************************************)
EXTENDS Integers, Sequences, SequencesExt

CONSTANTS Size, Keys, Values

VARIABLE entries   \* pairs of key and value, the one used last first

Without(k) == SelectSeq(entries, LAMBDA e : e[1] # k)

LruInit == entries = <<>>

\* A key that is known moves to the front.
Use(k) ==
    \E i \in DOMAIN entries :
        entries[i][1] = k /\ entries' = <<entries[i]>> \o Without(k)

\* A pair goes to the front; only a new key in a full map drops the last pair.
Learn(k, v) ==
    LET rest == Without(k)
    IN  entries' = <<<<k, v>>>> \o (IF Len(rest) = Size THEN Front(rest) ELSE rest)

LruNext == \E k \in Keys : Use(k) \/ \E v \in Values : Learn(k, v)

LruSpec == LruInit /\ [][LruNext]_entries
===============================================================================
