------------------------------ MODULE TimerSet ------------------------------
(***************************************************************************)
(* What a deadline_container promises its callers: a set of clients, each  *)
(* with one deadline, that can always be asked for a client no other is    *)
(* due before.  Queues, timeouts and iterators are not visible here.       *)
(***************************************************************************)
EXTENDS Integers

CONSTANTS
    Client,
    Deadline,
    NoClient  \* not a client: nothing was asked since the last change

VARIABLES
    deadline, \* a function from the clients in the set to their deadlines
    min       \* the answer to the last question

vars == <<deadline, min>>

Init ==
    /\ deadline = [c \in {} |-> 0]
    /\ min = NoClient

Arm(c, d) ==
    /\ c \notin DOMAIN deadline
    /\ deadline' = [x \in DOMAIN deadline \cup {c} |-> IF x = c THEN d ELSE deadline[x]]
    /\ min' = NoClient

Rearm(c, d) ==
    /\ c \in DOMAIN deadline
    /\ deadline' = [deadline EXCEPT ![c] = d]
    /\ min' = NoClient

Disarm(c) ==
    /\ c \in DOMAIN deadline
    /\ deadline' = [x \in DOMAIN deadline \ {c} |-> deadline[x]]
    /\ min' = NoClient

GetMin(c) ==
    /\ c \in DOMAIN deadline
    /\ \A x \in DOMAIN deadline : deadline[c] <= deadline[x]
    /\ min' = c
    /\ UNCHANGED deadline

Next ==
    \E c \in Client :
        \/ \E d \in Deadline : Arm(c, d) \/ Rearm(c, d)
        \/ Disarm(c)
        \/ GetMin(c)

Spec == Init /\ [][Next]_vars
=============================================================================
