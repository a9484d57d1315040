----------------------------- MODULE EchoServer -----------------------------
(***************************************************************************)
(* echo_server.cpp with its clients (wrappers/), its deadline container    *)
(* (timeouts/) and the part of the kernel it talks to.                     *)
(*                                                                         *)
(* The server is one thread: it sleeps in epoll_wait, then either expires  *)
(* clients or handles the events it got, one after the other.  A step of   *)
(* the server is one iteration of one of its loops; each makes at most one *)
(* read or write.  Peers and the clock act between any two steps.          *)
(*                                                                         *)
(* The kernel and the peers are external.  Each peer connects once.  The   *)
(* n-th byte a peer sends is the number n.                                 *)
(***************************************************************************)
EXTENDS DeadlineContainer, FiniteSets

CONSTANTS
    Peer,           \* the processes that connect to the server
    Fd,             \* the descriptors the process may have for clients
    BufferSize,     \* default_client_buffer_size
    ChunkSize,      \* default_buffer_size: what one read asks for
    ClientTimeout,  \* default_timeout, in seconds
    MaxEvents,      \* default_max_epoll_events: the length of the array events; one
                    \* epoll_wait reports all that is pending
    SocketCap,      \* bytes the kernel holds for a peer that does not read
    MaxSend,        \* bound: bytes a peer sends
    MaxTime,        \* bound: the clock stops there
    LastActivity,   \* bound: peers do nothing after this time
    MaxLag,         \* bound: seconds that pass while the server is not asleep
    PeerMoves,      \* what peers do besides connecting, sending and receiving
    Polite,         \* the peers that send a chunk at most, and only when all came back
    SignalSent      \* a SIGTERM or SIGINT may come

ASSUME ServerAssumption ==
    /\ Fd \subseteq Nat /\ IsFiniteSet(Fd) /\ Client = Fd
    /\ BufferSize \in Nat /\ ChunkSize \in Nat \ {0} /\ ChunkSize < BufferSize
    /\ ClientTimeout \in Nat \ {0} /\ Timeout = {ClientTimeout}
    /\ SocketCap \in Nat \ {0}
    /\ MaxEvents \in Nat /\ Cardinality(Fd) + 2 <= MaxEvents
    /\ {MaxSend, MaxTime, LastActivity, MaxLag} \subseteq Nat
    /\ Deadline = 0..(MaxTime + ClientTimeout)
    /\ PeerMoves \subseteq {"close", "shutdown", "reset"}
    /\ Polite \subseteq Peer /\ SignalSent \in BOOLEAN

VARIABLES
    \* the server
    pc,        \* where the thread is
    clients,   \* all_clients: from descriptors to echo_client objects
    dc,        \* the deadline container
    events,    \* the first res.first elements of the array events
    next,      \* i, the index of the event to handle
    expired,   \* expired_deadline
    \* the kernel
    wake,      \* the time at which epoll_wait gives up, or Never
    backlog,   \* the peers waiting to be accepted
    ready,     \* the peers whose sockets are on the ready list of epoll
    link,      \* the connection of each peer
    toServer,  \* bytes of each peer not yet read by the server
    toPeer,    \* bytes of the server not yet received by each peer
    signalled, \* a signal is pending
    now, lag,
    \* the peers
    sent,      \* the number of bytes each peer has sent
    received   \* the bytes each peer has received

serverVars == <<pc, clients, dc, events, next, expired>>
kernelVars == <<wake, backlog, ready, link, toServer, toPeer>>
clockVars  == <<now, lag>>
peerVars   == <<sent, received>>
vars       == <<serverVars, kernelVars, signalled, clockVars, peerVars>>

Never == -1

\* state: "none", "queued", "accepted", "closed" (by the server); fin: the peer
\* will send no more; left: it will not read either; rst: a reset came from it
NoLink == [state |-> "none", fin |-> FALSE, left |-> FALSE, rst |-> FALSE]

Init ==
    /\ pc = "top"
    /\ clients = [f \in {} |-> <<>>]
    /\ dc = NewContainer
    /\ events = <<>>
    /\ next = 1
    /\ expired = 0
    /\ wake = Never
    /\ backlog = <<>>
    /\ ready = {}
    /\ link = [p \in Peer |-> NoLink]
    /\ toServer = [p \in Peer |-> <<>>]
    /\ toPeer = [p \in Peer |-> <<>>]
    /\ signalled = FALSE
    /\ now = 0
    /\ lag = 0
    /\ sent = [p \in Peer |-> 0]
    /\ received = [p \in Peer |-> <<>>]

-----------------------------------------------------------------------------
(* epoll                                                                   *)

Readable(p) == toServer[p] # <<>> \/ link[p].fin \/ link[p].rst
Writable(p) == Len(toPeer[p]) < SocketCap \/ link[p].rst

\* An element of events; peer names the connection the event was reported for
\* (data.fd does not), so that an event that outlives its client can be seen
Event(kind, f, p, in, out) ==
    [kind |-> kind, fd |-> f, peer |-> p, in |-> in, out |-> out]

\* What epoll_wait would report now.  Clients are edge-triggered: only those on
\* the ready list.  The listening socket and signalfd are level-triggered.
Pending ==
    { Event("client", f, clients[f].peer, Readable(clients[f].peer), Writable(clients[f].peer)) :
          f \in { g \in DOMAIN clients : /\ clients[g].peer \in ready
                                         /\ Readable(clients[g].peer) \/ Writable(clients[g].peer) } }
    \cup { Event("listen", 0, "", TRUE, FALSE) : x \in { y \in {1} : backlog # <<>> } }
    \cup { Event("signal", 0, "", TRUE, FALSE) : x \in { y \in {1} : signalled } }

\* The orders in which a set may be reported
Orders(S) ==
    { s \in [1..Cardinality(S) -> S] : \A i, j \in DOMAIN s : s[i] = s[j] => i = j }

-----------------------------------------------------------------------------
(* echo_client and its bases                                               *)

IsNasty_WhenFull(c) == BufferSize = Len(c.buffer)

IsNasty(c) == BufferSize - Len(c.buffer) <= ChunkSize

NewDeadline_Sign == now - ClientTimeout

NewDeadline == now + ClientTimeout

ReadCount_OffByOne(p) ==
    IF Len(toServer[p]) < ChunkSize THEN Len(toServer[p]) ELSE ChunkSize - 1

\* What read returns when it does not fail
ReadCount(p) == IF Len(toServer[p]) < ChunkSize THEN Len(toServer[p]) ELSE ChunkSize

Shl_Clears(buffer, n) == <<>>

\* storing_buffer::shl
Shl(buffer, n) == SubSeq(buffer, n + 1, Len(buffer))

\* The destructors of echo_client, deadline_client, storing_client and
\* file_descriptor.  d is the container, and it the client's iterator in it.
\* Closing a socket with unread bytes resets it: what the peer has not got is lost.
Destroy(f, d, it) ==
    LET p == clients[f].peer
    IN  /\ ready' = ready \ {p}
        /\ dc' = RemoveNode(d, it)
        /\ clients' = MapErase(clients, f)
        /\ link' = [link EXCEPT ![p].state = "closed"]
        /\ toServer' = [toServer EXCEPT ![p] = <<>>]
        /\ toPeer' = IF toServer[p] = <<>> THEN toPeer ELSE [toPeer EXCEPT ![p] = <<>>]

-----------------------------------------------------------------------------
(* echo_server::start                                                      *)

SleepTimeout_Whole == IF IsEmpty(dc) THEN -1 ELSE ClientTimeout

SleepTimeout_NoMin == -1

\* The argument of epoll_wait; a negative one means no timeout
SleepTimeout == IF IsEmpty(dc) THEN -1 ELSE GetMin(dc).deadline - now

StartSleeping ==
    /\ pc = "top"
    /\ pc' = "asleep"
    /\ wake' = IF SleepTimeout < 0 THEN Never ELSE now + SleepTimeout
    /\ UNCHANGED <<clients, dc, events, next, expired>>
    /\ UNCHANGED <<backlog, ready, link, toServer, toPeer, signalled, clockVars, peerVars>>

WakeUp_Appends ==
    /\ pc = "asleep"
    /\ Pending # {}
    /\ events' \in { events \o s : s \in Orders(Pending) }
    /\ next' = Len(events) + 1
    /\ ready' = {}
    /\ pc' = "events"
    /\ UNCHANGED <<clients, dc, expired>>
    /\ UNCHANGED <<wake, backlog, link, toServer, toPeer, signalled, clockVars, peerVars>>

WakeUp ==
    /\ pc = "asleep"
    /\ Pending # {}
    /\ events' \in Orders(Pending)
    /\ next' = 1
    /\ ready' = {}
    /\ pc' = "events"
    /\ UNCHANGED <<clients, dc, expired>>
    /\ UNCHANGED <<wake, backlog, link, toServer, toPeer, signalled, clockVars, peerVars>>

TimeoutDue == pc = "asleep" /\ Pending = {} /\ wake # Never /\ now >= wake

TimeOut ==
    /\ TimeoutDue
    /\ expired' = GetMin(dc).deadline
    /\ events' = <<>>
    /\ next' = 1
    /\ pc' = "expire"
    /\ UNCHANGED <<clients, dc, kernelVars, signalled, clockVars, peerVars>>

MoreExpired_All == ~IsEmpty(dc)

MoreExpired_Before == ~IsEmpty(dc) /\ GetMin(dc).deadline < expired

MoreExpired == ~IsEmpty(dc) /\ GetMin(dc).deadline = expired

ExpireOne ==
    /\ pc = "expire"
    /\ MoreExpired
    /\ LET f == GetMin(dc).client IN Destroy(f, dc, clients[f].it)
    /\ UNCHANGED <<pc, events, next, expired, wake, backlog, signalled, clockVars, peerVars>>

ExpireDone ==
    /\ pc = "expire"
    /\ ~MoreExpired
    /\ pc' = "top"
    /\ UNCHANGED <<clients, dc, events, next, expired, kernelVars, signalled, clockVars, peerVars>>

\* The event the loop is at
AtEvent(kind) == pc = "events" /\ next <= Len(events) /\ events[next].kind = kind

EventsDone ==
    /\ pc = "events"
    /\ next > Len(events)
    /\ pc' = "top"
    /\ UNCHANGED <<clients, dc, events, next, expired, kernelVars, signalled, clockVars, peerVars>>

\* accept, and the constructors of the client.  A new client is on the ready
\* list at once: its socket can be written.  With no descriptor left accept
\* fails and the server throws.
Free == Fd \ DOMAIN clients

OnListen ==
    /\ AtEvent("listen")
    /\ IF Free = {}
       THEN pc' = "unwind" /\ UNCHANGED <<clients, dc, next, backlog, ready, link>>
       ELSE LET f == CHOOSE g \in Free : \A h \in Free : g <= h
                p == Head(backlog)
                n == [timeout |-> ClientTimeout, deadline |-> NewDeadline, client |-> f]
            IN  /\ backlog' = Tail(backlog)
                /\ dc' = Add(dc, n)
                /\ clients' = MapInsert(clients, f, [peer |-> p, buffer |-> <<>>, it |-> n])
                /\ link' = [link EXCEPT ![p].state = "accepted"]
                /\ ready' = ready \cup {p}
                /\ next' = next + 1
                /\ UNCHANGED pc
    /\ UNCHANGED <<events, expired, wake, toServer, toPeer, signalled, clockVars, peerVars>>

OnSignal_Ignored ==
    /\ AtEvent("signal")
    /\ next' = next + 1
    /\ UNCHANGED <<pc, clients, dc, events, expired, kernelVars, signalled, clockVars, peerVars>>

OnSignal_Exits ==
    /\ AtEvent("signal")
    /\ pc' = "stopped"
    /\ UNCHANGED <<clients, dc, events, next, expired, kernelVars, signalled, clockVars, peerVars>>

\* "Caught signal" is thrown out of the loop
OnSignal ==
    /\ AtEvent("signal")
    /\ pc' = "unwind"
    /\ UNCHANGED <<clients, dc, events, next, expired, kernelVars, signalled, clockVars, peerVars>>

\* The event that has the client written to, put at the end of the array
WriteEvent(f, p) == Event("client", f, p, FALSE, TRUE)

Drop_NoContinue(f, d, it) ==
    /\ Destroy(f, d, it)
    /\ events' = Append(events, WriteEvent(f, clients[f].peer))
    /\ next' = next + 1
    /\ UNCHANGED pc

\* all_clients.erase and continue; d and it as in Destroy
Drop(f, d, it) ==
    /\ Destroy(f, d, it)
    /\ next' = next + 1
    /\ UNCHANGED <<pc, events>>

\* EPOLLIN: a nasty client is dropped without a read, one that has closed after
\* a read of nothing; otherwise what is read goes to the end of the buffer and an
\* event for writing is put at the end of the array.  read fails after a reset.
OnReadable ==
    /\ AtEvent("client")
    /\ events[next].in
    /\ LET f == events[next].fd
           c == clients[f]
           p == c.peer
           n == ReadCount(p)
       IN  \/ /\ IsNasty(c)
              /\ Drop(f, dc, c.it)
           \/ /\ ~IsNasty(c) /\ n = 0 /\ link[p].fin
              /\ Drop(f, Update(dc, c.it, NewDeadline), Renewed(c.it, NewDeadline))
           \/ /\ ~IsNasty(c) /\ n = 0 /\ ~link[p].fin
              /\ pc' = "unwind"
              /\ UNCHANGED <<clients, dc, events, next, ready, link, toServer, toPeer>>
           \/ /\ ~IsNasty(c) /\ n > 0
              /\ toServer' = [toServer EXCEPT ![p] = SubSeq(@, n + 1, Len(@))]
              /\ dc' = Update(dc, c.it, NewDeadline)
              /\ clients' = [clients EXCEPT ![f].buffer = @ \o SubSeq(toServer[p], 1, n),
                                            ![f].it = Renewed(@, NewDeadline)]
              /\ events' = Append(events, WriteEvent(f, p))
              /\ next' = next + 1
              /\ UNCHANGED <<pc, ready, link, toPeer>>
    /\ UNCHANGED <<expired, wake, backlog, signalled, clockVars, peerVars>>

\* EPOLLOUT alone: the whole buffer is offered to the socket and what it took is
\* shifted out.  write fails when the socket is full (EAGAIN) or was reset; when
\* the peer's FIN came before its reset the write raises SIGPIPE, which nothing
\* handles.  A peer that has left answers bytes with a reset.
OnWritable ==
    /\ AtEvent("client")
    /\ ~events[next].in /\ events[next].out
    /\ LET f    == events[next].fd
           c    == clients[f]
           p    == c.peer
           room == SocketCap - Len(toPeer[p])
           n    == IF Len(c.buffer) < room THEN Len(c.buffer) ELSE room
       IN  \/ /\ link[p].rst
              /\ pc' = IF link[p].fin THEN "killed" ELSE "unwind"
              /\ UNCHANGED <<clients, dc, next, ready, link, toPeer>>
           \/ /\ ~link[p].rst /\ n = 0 /\ c.buffer # <<>>
              /\ pc' = "unwind"
              /\ UNCHANGED <<clients, dc, next, ready, link, toPeer>>
           \/ /\ ~link[p].rst /\ (n > 0 \/ c.buffer = <<>>)
              /\ dc' = Update(dc, c.it, NewDeadline)
              /\ clients' = [clients EXCEPT ![f].buffer = Shl(@, n),
                                            ![f].it = Renewed(@, NewDeadline)]
              /\ IF link[p].left /\ n > 0
                 THEN /\ link' = [link EXCEPT ![p].rst = TRUE]
                      /\ ready' = ready \cup {p}
                      /\ UNCHANGED toPeer
                 ELSE /\ toPeer' = [toPeer EXCEPT ![p] = @ \o SubSeq(c.buffer, 1, n)]
                      /\ UNCHANGED <<link, ready>>
              /\ next' = next + 1
              /\ UNCHANGED pc
    /\ UNCHANGED <<events, expired, wake, backlog, toServer, signalled, clockVars, peerVars>>

\* The exception destroys all_clients, its elements in an unspecified order, then dc
UnwindOne ==
    /\ pc = "unwind"
    /\ \E f \in DOMAIN clients : Destroy(f, dc, clients[f].it)
    /\ UNCHANGED <<pc, events, next, expired, wake, backlog, signalled, clockVars, peerVars>>

UnwindDone ==
    /\ pc = "unwind"
    /\ DOMAIN clients = {}
    /\ pc' = "stopped"
    /\ UNCHANGED <<clients, dc, events, next, expired, kernelVars, signalled, clockVars, peerVars>>

ServerStep ==
    \/ StartSleeping \/ WakeUp \/ TimeOut
    \/ ExpireOne \/ ExpireDone
    \/ OnListen \/ OnSignal \/ OnReadable \/ OnWritable \/ EventsDone
    \/ UnwindOne \/ UnwindDone

-----------------------------------------------------------------------------
(* The peers, the signal and the clock                                     *)

Active(p) == now <= LastActivity /\ link[p].state \in {"queued", "accepted"} /\ ~link[p].rst

\* What happens on a client's socket puts it on the ready list, once epoll has it
Notified(p) == IF link[p].state = "accepted" THEN ready \cup {p} ELSE ready

Connect(p) ==
    /\ now <= LastActivity
    /\ link[p].state = "none"
    /\ link' = [link EXCEPT ![p].state = "queued"]
    /\ backlog' = Append(backlog, p)
    /\ UNCHANGED <<serverVars, wake, ready, toServer, toPeer, signalled, clockVars, peerVars>>

Send(p, k) ==
    /\ Active(p) /\ ~link[p].fin
    /\ sent[p] + k <= MaxSend
    /\ p \in Polite => k <= ChunkSize /\ Len(received[p]) = sent[p]
    /\ toServer' = [toServer EXCEPT ![p] = @ \o [j \in 1..k |-> sent[p] + j]]
    /\ sent' = [sent EXCEPT ![p] = @ + k]
    /\ ready' = Notified(p)
    /\ UNCHANGED <<serverVars, wake, backlog, link, toPeer, signalled, clockVars, received>>

\* Room in a full socket wakes the server up
Receive(p) ==
    /\ toPeer[p] # <<>> /\ ~link[p].left
    /\ received' = [received EXCEPT ![p] = Append(@, Head(toPeer[p]))]
    /\ toPeer' = [toPeer EXCEPT ![p] = Tail(@)]
    /\ ready' = IF Len(toPeer[p]) = SocketCap THEN Notified(p) ELSE ready
    /\ UNCHANGED <<serverVars, wake, backlog, link, toServer, signalled, clockVars, sent>>

\* shutdown for writing: the peer still reads
Shutdown(p) ==
    /\ "shutdown" \in PeerMoves
    /\ Active(p) /\ ~link[p].fin
    /\ link' = [link EXCEPT ![p].fin = TRUE]
    /\ ready' = Notified(p)
    /\ UNCHANGED <<serverVars, wake, backlog, toServer, toPeer, signalled, clockVars, peerVars>>

\* close sends a FIN, or a reset when the peer has bytes it did not read
Close(p) ==
    /\ "close" \in PeerMoves
    /\ Active(p) /\ ~link[p].left
    /\ link' = IF toPeer[p] = <<>> THEN [link EXCEPT ![p].fin = TRUE, ![p].left = TRUE]
               ELSE [link EXCEPT ![p].rst = TRUE, ![p].left = TRUE]
    /\ toPeer' = [toPeer EXCEPT ![p] = <<>>]
    /\ ready' = Notified(p)
    /\ UNCHANGED <<serverVars, wake, backlog, toServer, signalled, clockVars, peerVars>>

Reset(p) ==
    /\ "reset" \in PeerMoves
    /\ Active(p) /\ ~link[p].left
    /\ link' = [link EXCEPT ![p].rst = TRUE, ![p].left = TRUE]
    /\ toPeer' = [toPeer EXCEPT ![p] = <<>>]
    /\ ready' = Notified(p)
    /\ UNCHANGED <<serverVars, wake, backlog, toServer, signalled, clockVars, peerVars>>

PeerStep ==
    \E p \in Peer :
        \/ Connect(p)
        \/ \E k \in 1..MaxSend : Send(p, k)
        \/ Receive(p)
        \/ Shutdown(p) \/ Close(p) \/ Reset(p)

Signal ==
    /\ SignalSent /\ ~signalled
    /\ signalled' = TRUE
    /\ UNCHANGED <<serverVars, kernelVars, clockVars, peerVars>>

\* The server has nothing to do but wait
Idle == pc = "asleep" /\ Pending = {} /\ ~TimeoutDue

\* A second passes: while the server waits, or, MaxLag times, while it works
Tick ==
    /\ now < MaxTime
    /\ pc \notin {"stopped", "killed"}
    /\ \/ Idle /\ UNCHANGED lag
       \/ ~Idle /\ lag < MaxLag /\ lag' = lag + 1
    /\ now' = now + 1
    /\ UNCHANGED <<serverVars, kernelVars, signalled, peerVars>>

Next == ServerStep \/ PeerStep \/ Signal \/ Tick

Spec == Init /\ [][Next]_vars

\* When a ServerStep is possible: always, except in epoll_wait with nothing to
\* report, and after the end
ServerCanStep ==
    \/ pc \in {"top", "expire", "events", "unwind"}
    \/ pc = "asleep" /\ (Pending # {} \/ TimeoutDue)

\* The operating system runs the server and lets time pass; a peer that reads
\* goes on reading.  The first conjunct is WF_vars(ServerStep), with ENABLED
\* spelled out (TLC is slow at ENABLED of the container's operations).
Fairness ==
    /\ []<>~ServerCanStep \/ []<><<ServerStep>>_vars
    /\ WF_vars(Tick)
    /\ \A p \in Peer : WF_vars(Receive(p))

FairSpec == Spec /\ Fairness
=============================================================================
