---------------------------- MODULE RecencyList -----------------------------
(***************************************************************************)
(* What lru_cache promises (lru-cache.h:24-41): a bounded number of keys   *)
(* with values, in the order of their last use.                            *)
(***************************************************************************)
EXTENDS Integers, Sequences, SequencesExt

CONSTANTS Key, Value, Capacity

VARIABLE recent \* the pairs of key and value, the most recently used first

Init == recent = <<>>

\* find, or insert of a present key: the value stays
Use(i) == recent' = <<recent[i]>> \o RemoveAt(recent, i)

Insert(k, v) ==
    /\ \A i \in DOMAIN recent : recent[i][1] # k
    /\ recent' = <<<<k, v>>>> \o (IF Len(recent) < Capacity THEN recent ELSE Front(recent))

Erase(i) == recent' = RemoveAt(recent, i)

Next ==
    \/ \E i \in DOMAIN recent : Use(i) \/ Erase(i)
    \/ \E k \in Key, v \in Value : Insert(k, v)

Spec == Init /\ [][Next]_recent
=============================================================================
