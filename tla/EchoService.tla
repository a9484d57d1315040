---------------------------- MODULE EchoService -----------------------------
(***************************************************************************)
(* What the echo server is for (README.md:4): each client gets back what   *)
(* it sent.  Between a peer's sending and its receiving there is one queue *)
(* of bytes, in order, without loss or duplication, until the connection   *)
(* is cut; then an end of the queue may be lost, and nothing is sent.      *)
(***************************************************************************)
EXTENDS Integers, Sequences

CONSTANTS
    Peer,
    MaxSend   \* bound: bytes a peer sends

VARIABLES
    sent,     \* the number of bytes each peer has sent: the n-th is n
    pipe,     \* what is on its way back to each peer
    received, \* what each peer has received
    cut       \* the peers whose connections have ended

vars == <<sent, pipe, received, cut>>

Init ==
    /\ sent = [p \in Peer |-> 0]
    /\ pipe = [p \in Peer |-> <<>>]
    /\ received = [p \in Peer |-> <<>>]
    /\ cut = {}

Send(p, k) ==
    /\ p \notin cut
    /\ sent' = [sent EXCEPT ![p] = @ + k]
    /\ pipe' = [pipe EXCEPT ![p] = @ \o [j \in 1..k |-> sent[p] + j]]
    /\ UNCHANGED <<received, cut>>

Deliver(p) ==
    /\ pipe[p] # <<>>
    /\ received' = [received EXCEPT ![p] = Append(@, Head(pipe[p]))]
    /\ pipe' = [pipe EXCEPT ![p] = Tail(@)]
    /\ UNCHANGED <<sent, cut>>

Cut(p) ==
    /\ p \notin cut
    /\ cut' = cut \cup {p}
    /\ \E k \in 0..Len(pipe[p]) : pipe' = [pipe EXCEPT ![p] = SubSeq(@, 1, k)]
    /\ UNCHANGED <<sent, received>>

Next ==
    \E p \in Peer :
        \/ \E k \in 1..MaxSend : Send(p, k)
        \/ Deliver(p)
        \/ Cut(p)

Spec == Init /\ [][Next]_vars
=============================================================================
