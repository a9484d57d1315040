------------------------ MODULE EchoServerProperties ------------------------
(* What EchoServer is checked for.                                         *)
EXTENDS EchoServer

-----------------------------------------------------------------------------
(* Safety                                                                  *)

\* The variables have the types of echo_server.cpp and of the kernel's side
TypeOK ==
    /\ pc \in {"top", "asleep", "expire", "events", "unwind", "stopped", "killed"}
    /\ DOMAIN clients \subseteq Fd
    /\ \A f \in DOMAIN clients :
           clients[f].peer \in Peer /\ clients[f].it \in Wrapper
    /\ ContainerType(dc)
    /\ next \in 1..(Len(events) + 1)
    /\ wake \in Nat \cup {Never}
    /\ ready \subseteq Peer
    /\ \A p \in Peer : link[p].state \in {"none", "queued", "accepted", "closed"}
    /\ now \in 0..MaxTime /\ lag \in 0..MaxLag

\* The map, the deadline container and epoll name the same clients ("the only
\* dogma, the source of truth", echo_server.cpp:55), also while clients are being
\* expired or unwound: every client's iterator is valid, no node belongs to a
\* client that is gone, the container's own structures agree, and a connection is
\* accepted exactly while one client object has it
SourceOfTruth ==
    /\ Consistent(dc)
    /\ \A f \in DOMAIN clients :
           clients[f].it.client = f /\ InQueue(dc, clients[f].it)
    /\ \A t \in DOMAIN dc.timeouts : \A i \in 1..Len(dc.timeouts[t]) :
           dc.timeouts[t][i].client \in DOMAIN clients
    /\ \A p \in Peer : link[p].state = "accepted" <=>
           \E f \in DOMAIN clients : clients[f].peer = p
    /\ \A f, g \in DOMAIN clients : clients[f].peer = clients[g].peer => f = g

\* An event still to be handled is about a client that is alive and is the one
\* it was reported for, although clients are dropped and descriptors are reused
\* while a batch is handled: all_clients[fd] never makes an empty client
EventsFresh ==
    pc = "events" => \A j \in next..Len(events) :
        events[j].kind = "client" =>
            /\ events[j].fd \in DOMAIN clients
            /\ clients[events[j].fd].peer = events[j].peer

\* The events the loop adds fit behind those epoll_wait reported
EventsFit == Len(events) <= MaxEvents

\* abstract_read never writes past the storing buffer ("there is always such free
\* size in storing buffer", storing_client.cpp:71): clients that do not read are
\* dropped in time
BufferFits == \A f \in DOMAIN clients : Len(clients[f].buffer) <= BufferSize

\* Whenever the server may call add or update, however much time passes while it works,
\* no node of the queue has a later deadline than the one it would set: the queues stay
\* sorted (deadline_container.cpp:45, 55).  That is less than the precondition which is
\* written, see DeadlinePrecondition
DeadlinesInOrder == NotBefore(dc, ClientTimeout, NewDeadline)

\* The server never sits with a client whose deadline is past, as long as no time has
\* passed except in epoll_wait: clients are dropped in the second they are due
NoneOverdue == lag = 0 => \A f \in DOMAIN clients : now <= clients[f].it.deadline

\* A stopped server has destroyed every client and emptied the container, so
\* that ~deadline_container comes after the last dc.remove
CleanStop ==
    pc = "stopped" => /\ clients = [f \in {} |-> <<>>]
                      /\ dc = NewContainer
                      /\ \A p \in Peer : link[p].state # "accepted"

\* Expiry drops no client before its deadline, nor one that was active since it
\* was last armed
NoEarlyExpiry ==
    [][pc = "expire" =>
           \A f \in DOMAIN clients \ DOMAIN clients' : clients[f].it.deadline <= now]_vars

\* When the server goes back to sleep after an expiry, all clients that were due
\* are gone, and those that were not are still there
ExpiryComplete ==
    [][pc = "expire" /\ pc' = "top" =>
           \A f \in DOMAIN clients' : clients'[f].it.deadline > expired]_vars

-----------------------------------------------------------------------------
(* The abstract service                                                    *)

Gone(p) == link[p].left \/ link[p].rst

Stored(p) ==
    IF \E f \in DOMAIN clients : clients[f].peer = p
    THEN clients[CHOOSE f \in DOMAIN clients : clients[f].peer = p].buffer
    ELSE <<>>

\* What is between a peer's sending and its receiving, nearest to it first
pipe == [p \in Peer |-> IF Gone(p) THEN <<>> ELSE toPeer[p] \o Stored(p) \o toServer[p]]

cut == { p \in Peer : Gone(p) \/ link[p].state = "closed" }

Service == INSTANCE EchoService

\* Bytes come back in the order they were sent, none twice and none left out
\* until the connection ends, whatever the sizes of reads and partial writes
ImplementsEchoService == Service!Spec

-----------------------------------------------------------------------------
(* Liveness                                                                *)

\* A client that stays silent is disconnected (README.md:4) by a server that is prompt:
\* no second passes while it works (echo_server.cpp:61-64).  Peers fall silent after
\* LastActivity, so every accepted client is
LazyDroppedIfPrompt ==
    \A p \in Peer : link[p].state = "accepted" ~> link[p].state = "closed" \/ lag > 0

\* SIGTERM or SIGINT stops the server, however busy the clients keep it
SignalStops == signalled ~> pc \in {"stopped", "killed"}

\* What a polite client sends comes back to it (README.md:4), whatever the others
\* do, unless the connection or the server ends.  It holds of no other client: an
\* edge-triggered client is read once, so what a second read would take stays in
\* the socket.
EchoCompletes ==
    \A p \in Polite : \A n \in 1..MaxSend :
        sent[p] >= n ~> \/ Len(received[p]) >= n
                       \/ Gone(p) \/ link[p].state = "closed"
                       \/ pc \in {"stopped", "killed"}

-----------------------------------------------------------------------------
(* What the documentation says and the code does not do                    *)

\* "client, which does not send messages for specified amount of time is being
\* disconnected" (README.md:4), with no word of how fast the server is
LazyDropped ==
    \A p \in Peer : link[p].state = "accepted" ~> link[p].state = "closed"

\* "Deadline in node is greater, than every other deadline in respective queue"
\* (deadline_container.h:55, and :78 for update): whenever a client is armed
DeadlinePrecondition ==
    [][\A f \in DOMAIN clients' :
           f \notin DOMAIN clients \/ clients'[f].it # clients[f].it =>
               GreaterThanOthers(dc, clients'[f].it)]_vars

\* "client, who only does writing to the server, but not reading will also be
\* soon disconnected" (README.md:4): it costs the server nothing but the client
OnlySignalStops == pc \in {"unwind", "stopped", "killed"} => signalled
=============================================================================
