--------------------------- MODULE DeadlineTimers ---------------------------
(***************************************************************************)
(* A deadline_container and the clients that use it the way                *)
(* wrappers/deadline_client.cpp does: a client adds itself once, keeps the *)
(* iterator it was given, replaces it by the one each update returns, and  *)
(* removes itself with it.  The order of the calls and the deadlines are   *)
(* free, as long as no deadline is earlier than one in its queue: more     *)
(* calls than the header's precondition allows, and all the server makes.  *)
(***************************************************************************)
EXTENDS DeadlineContainer

CONSTANT NoClient  \* get_min was not called since the last change

ASSUME ClientAssumption == NoClient \notin Client

VARIABLES
    dc,   \* the container
    held, \* the field "it" of each client that is in the container
    min   \* the client get_min returned

vars == <<dc, held, min>>

Init ==
    /\ dc = NewContainer
    /\ held = [c \in {} |-> <<>>]
    /\ min = NoClient

\* The constructor of deadline_client
AddClient(c, t, d) ==
    LET n == [timeout |-> t, deadline |-> d, client |-> c]
    IN  /\ c \notin DOMAIN held
        /\ NotBefore(dc, t, d)
        /\ dc' = Add(dc, n)
        /\ held' = MapInsert(held, c, n)
        /\ min' = NoClient

\* read_from_client and write_to_client: it = dc.update(it, ...)
UpdateClient(c, d) ==
    /\ c \in DOMAIN held
    /\ NotBefore(dc, held[c].timeout, d)
    /\ dc' = Update(dc, held[c], d)
    /\ held' = [held EXCEPT ![c] = Renewed(@, d)]
    /\ min' = NoClient

\* The destructor of deadline_client
RemoveClient(c) ==
    /\ c \in DOMAIN held
    /\ dc' = RemoveNode(dc, held[c])
    /\ held' = MapErase(held, c)
    /\ min' = NoClient

\* The server asks who is due first
AskMin ==
    /\ ~IsEmpty(dc)
    /\ min' = GetMin(dc).client
    /\ UNCHANGED <<dc, held>>

Next ==
    \/ \E c \in Client, t \in Timeout, d \in Deadline : AddClient(c, t, d)
    \/ \E c \in Client, d \in Deadline : UpdateClient(c, d)
    \/ \E c \in Client : RemoveClient(c)
    \/ AskMin

Spec == Init /\ [][Next]_vars

-----------------------------------------------------------------------------
\* The container and the iterators of its users have their types: the two maps,
\* the multimap and the queues of deadline_container.h
TypeOK ==
    /\ ContainerType(dc)
    /\ held = [c \in DOMAIN held |-> held[c]]
    /\ DOMAIN held \subseteq Client
    /\ \A c \in DOMAIN held : held[c] \in Wrapper /\ held[c].deadline \in Deadline
    /\ min \in Client \cup {NoClient}

\* The four structures of the container agree with each other between any two
\* calls, whatever the order of add, update and remove: no empty queue is left,
\* queues and multimap are sorted, and the multimap holds for each queue exactly
\* the entry multimap_iterators points to, under the deadline of the queue's head
ContainerConsistent == Consistent(dc)

\* Every iterator a client keeps is still valid (it points to the client's own
\* node), and the container holds no node of anybody else
IteratorsValid ==
    /\ \A c \in DOMAIN held : held[c].client = c /\ InQueue(dc, held[c])
    /\ \A t \in DOMAIN dc.timeouts : \A i \in 1..Len(dc.timeouts[t]) :
           LET n == dc.timeouts[t][i]
           IN  n.client \in DOMAIN held /\ held[n.client] = n

\* get_min returns a deadline none in the container is smaller than: what the
\* tester asserts after each operation (deadline_container_tester.cpp:84)
MinIsLeast ==
    IF DOMAIN held = {} THEN IsEmpty(dc)
    ELSE /\ ~IsEmpty(dc)
         /\ \A c \in DOMAIN held : GetMin(dc).deadline <= held[c].deadline

\* Queue t has a node of client c
Queued(t, c) == \E i \in 1..Len(dc.timeouts[t]) : dc.timeouts[t][i].client = c

\* A node of client c, in the first queue that has one
NodeOf(c) ==
    LET q == dc.timeouts[CHOOSE t \in DOMAIN dc.timeouts : Queued(t, c)]
    IN  q[CHOOSE i \in 1..Len(q) : q[i].client = c]

\* The clients and their deadlines as TimerSet sees them: what is in the queues
armed ==
    [c \in {x \in Client : \E t \in DOMAIN dc.timeouts : Queued(t, x)} |-> NodeOf(c).deadline]

Timers == INSTANCE TimerSet WITH deadline <- armed

\* The container implements the set of timers: an update or a removal touches
\* no other client's deadline, and get_min names a client none is due before
ImplementsTimerSet == Timers!Spec
=============================================================================
