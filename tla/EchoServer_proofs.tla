------------------------- MODULE EchoServer_proofs --------------------------
(***************************************************************************)
(* The echo server, for any peers, descriptors, buffer sizes, timeouts and *)
(* lag: its safety properties, from one inductive invariant, and its       *)
(* refinement of EchoService.                                              *)
(***************************************************************************)
EXTENDS EchoServerProperties, DeadlineContainer_proofs, FiniteSetTheorems

-----------------------------------------------------------------------------
(* The inductive invariant.                                                *)

ClientRecord == [peer : Peer, buffer : Seq(Nat), it : Wrapper]
LinkRecord   == [state : {"none", "queued", "accepted", "closed"},
                 fin : BOOLEAN, left : BOOLEAN, rst : BOOLEAN]

\* Map cs and container d have the same clients, whose deadlines are at most t
Held(d, cs, t) ==
    /\ GoodContainer(d)
    /\ cs \in [DOMAIN cs -> ClientRecord]
    /\ DOMAIN cs \subseteq Fd
    /\ \A f \in DOMAIN cs : /\ cs[f].it.client = f
                            /\ InQueue(d, cs[f].it)
                            /\ cs[f].it.deadline <= t
    /\ \A u \in DOMAIN d.timeouts : \A i \in 1..Len(d.timeouts[u]) :
           /\ d.timeouts[u][i].client \in DOMAIN cs
           /\ cs[d.timeouts[u][i].client].it = d.timeouts[u][i]

\* A client that has not been dropped in time has room for one more read
Roomy(cs) == \A f \in DOMAIN cs : Len(cs[f].buffer) <= BufferSize

\* The links lk and the clients of cs are about the same connections; only a peer
\* that has left sends a reset, and one that has left sent a FIN or a reset
Linked(lk, cs) ==
    /\ lk \in [Peer -> LinkRecord]
    /\ \A p \in Peer : lk[p].state = "accepted" <=> \E f \in DOMAIN cs : cs[f].peer = p
    /\ \A f, g \in DOMAIN cs : cs[f].peer = cs[g].peer => f = g
    /\ \A p \in Peer : /\ lk[p].rst => lk[p].left
                       /\ lk[p].left => lk[p].fin \/ lk[p].rst

\* The backlog bl has each peer that waits to be accepted once
Waiting(bl, lk) ==
    /\ bl \in Seq(Peer)
    /\ \A i \in 1..Len(bl) : lk[bl[i]].state = "queued"
    /\ \A i, j \in 1..Len(bl) : bl[i] = bl[j] => i = j

\* Of the events es, those from the k-th on are about clients of cs, one each, and
\* one at most is about the listening socket, with a peer waiting in bl
Batch(es, k, cs, bl) ==
    /\ \A j \in k..Len(es) : es[j].kind = "client" =>
           es[j].fd \in DOMAIN cs /\ cs[es[j].fd].peer = es[j].peer
    /\ \A j \in k..Len(es) : es[j].kind = "listen" => bl # <<>>
    /\ \A i, j \in k..Len(es) :
           es[i].kind = es[j].kind /\ (es[i].kind = "client" => es[i].fd = es[j].fd) => i = j

EventRecord == [kind : {"client", "listen", "signal"}, fd : Nat, peer : Peer \cup {""},
                in : BOOLEAN, out : BOOLEAN]

\* What a socket holds for its peer
SocketBytes == {s \in Seq(Nat) : Len(s) <= SocketCap}

\* The sequences of bytes, the events and the clock
Typed ==
    /\ pc \in {"top", "asleep", "expire", "events", "unwind", "stopped", "killed"}
    /\ events \in Seq(EventRecord) /\ next \in 1..(Len(events) + 1)
    /\ expired \in Nat /\ wake \in Nat \cup {Never}
    /\ ready \subseteq Peer
    /\ toServer \in [Peer -> Seq(Nat)] /\ toPeer \in [Peer -> SocketBytes]
    /\ received \in [Peer -> Seq(Nat)] /\ sent \in [Peer -> Nat]
    /\ now \in 0..MaxTime /\ lag \in 0..MaxLag

\* The server sleeps till the least deadline, and expires the clients with it once
\* it has come
Alarm ==
    /\ pc = "asleep" /\ wake # Never => ~IsEmpty(dc) /\ wake = GetMin(dc).deadline
    /\ pc = "expire" => /\ expired <= now
                        /\ \A f \in DOMAIN clients : expired <= clients[f].it.deadline

IInv ==
    /\ Typed
    /\ Held(dc, clients, NewDeadline)
    /\ Roomy(clients)
    /\ Linked(link, clients)
    /\ Waiting(backlog, link)
    /\ pc = "events" => Batch(events, next, clients, backlog)
    /\ Alarm
    /\ pc = "stopped" => DOMAIN clients = {}

\* A socket may hold nothing
LEMMA NoBytes == <<>> \in SocketBytes /\ <<>> \in Seq(Nat)
BY EmptySeq, ServerAssumption DEF SocketBytes

-----------------------------------------------------------------------------
(* The map of clients and the container, together.                         *)

\* The fields of a client have their types
LEMMA ClientFields ==
    ASSUME NEW c \in ClientRecord
    PROVE  c.peer \in Peer /\ c.buffer \in Seq(Nat) /\ c.it \in Wrapper
BY DEF ClientRecord

\* Every node of the container is the iterator of the client it names
LEMMA HeldNode ==
    ASSUME NEW d, NEW cs, NEW t, Held(d, cs, t), NEW x, InQueue(d, x)
    PROVE  x.client \in DOMAIN cs /\ cs[x.client].it = x
BY DEF Held, InQueue

\* The converse: what is left to show of the nodes
LEMMA HeldFrom ==
    ASSUME NEW d, NEW cs, NEW t, GoodContainer(d), cs \in [DOMAIN cs -> ClientRecord],
           DOMAIN cs \subseteq Fd,
           \A f \in DOMAIN cs : /\ cs[f].it.client = f
                                 /\ InQueue(d, cs[f].it)
                                 /\ cs[f].it.deadline <= t,
           \A x : InQueue(d, x) => x.client \in DOMAIN cs /\ cs[x.client].it = x
    PROVE  Held(d, cs, t)
<1>1. ASSUME NEW u \in DOMAIN d.timeouts, NEW i \in 1..Len(d.timeouts[u])
      PROVE  InQueue(d, d.timeouts[u][i])
  <2>1. GoodQueue(d.timeouts[u], u)
    BY DEF GoodContainer, GoodQueues
  <2>2. QED
    BY <2>1 DEF InQueue, GoodQueue
<1>2. QED
  BY <1>1 DEF Held

\* A deadline that no client's exceeds comes after all nodes of any queue
LEMMA HeldNotBefore ==
    ASSUME NEW d, NEW cs, NEW t \in Nat, Held(d, cs, t), NEW u, NEW k \in Nat, t <= k
    PROVE  NotBefore(d, u, k)
<1>1. SUFFICES ASSUME u \in DOMAIN d.timeouts, NEW i \in 1..Len(d.timeouts[u])
               PROVE  d.timeouts[u][i].deadline <= k
  BY DEF NotBefore
<1> DEFINE x == d.timeouts[u][i]
<1>2. GoodQueue(d.timeouts[u], u)
  BY <1>1 DEF Held, GoodContainer, GoodQueues
<1>3. InQueue(d, x) /\ x \in Wrapper
  BY <1>1, <1>2, ElementOfSeq DEF InQueue, GoodQueue
<1>4. x.client \in DOMAIN cs /\ cs[x.client].it = x
  BY <1>3, HeldNode
<1>5. x.deadline \in Nat /\ x.deadline <= t
  BY <1>3, <1>4, WrapperFields DEF Held
<1>6. QED
  BY <1>5

\* The constants: a new deadline is one remove can exceed
LEMMA Times ==
    ASSUME NEW n \in 0..MaxTime
    PROVE  /\ n \in Nat /\ n + ClientTimeout \in Nat /\ TimeMax \in Nat
           /\ n + ClientTimeout <= TimeMax
           /\ ClientTimeout \in Timeout /\ Client = Fd
<1>1. MaxTime \in Nat /\ ClientTimeout \in Nat /\ Timeout = {ClientTimeout}
  BY ServerAssumption
<1>2. MaxTime + ClientTimeout \in Deadline
  BY <1>1, ServerAssumption
<1>3. MaxTime + ClientTimeout <= TimeMax /\ TimeMax \in Nat
  BY <1>2, TimeAssumption
<1>4. QED
  BY <1>1, <1>3, ServerAssumption

\* A constructor: echo_client adds itself to the container and to the map
\* (echo_server.cpp:86, deadline_client.cpp)
LEMMA HeldAdd ==
    ASSUME NEW d, NEW cs, NEW t \in Nat, Held(d, cs, t),
           NEW f \in Fd, f \notin DOMAIN cs, NEW p \in Peer,
           NEW n \in Wrapper, n.client = f, n.deadline = t
    PROVE  Held(Add(d, n), MapInsert(cs, f, [peer |-> p, buffer |-> <<>>, it |-> n]), t)
<1> DEFINE c  == [peer |-> p, buffer |-> <<>>, it |-> n]
           c1 == MapInsert(cs, f, c)
<1>1. GoodContainer(d) /\ NotBefore(d, n.timeout, n.deadline)
  BY HeldNotBefore DEF Held
<1>2. \A x : InQueue(d, x) => x.client # n.client
  BY HeldNode
<1>3. GoodContainer(Add(d, n))
  BY <1>1, <1>2, AddCorrect
<1>4. \A x : InQueue(Add(d, n), x) <=> x = n \/ InQueue(d, x)
  BY <1>1, <1>2, AddCorrect
<1>5. c \in ClientRecord /\ c.it = n
  BY EmptySeq DEF ClientRecord
<1> HIDE DEF c
<1>6. /\ DOMAIN c1 = DOMAIN cs \cup {f}
      /\ c1[f] = c
      /\ \A g \in DOMAIN cs : g # f /\ c1[g] = cs[g]
      /\ c1 = [g \in DOMAIN c1 |-> c1[g]]
  BY DEF MapInsert
<1> HIDE DEF c1
<1>7. c1 \in [DOMAIN c1 -> ClientRecord] /\ DOMAIN c1 \subseteq Fd
  BY <1>5, <1>6 DEF Held
<1>8. \A g \in DOMAIN c1 : /\ c1[g].it.client = g
                            /\ InQueue(Add(d, n), c1[g].it)
                            /\ c1[g].it.deadline <= t
  BY <1>4, <1>5, <1>6 DEF Held
<1>9. ASSUME NEW x, InQueue(Add(d, n), x)
      PROVE  x.client \in DOMAIN c1 /\ c1[x.client].it = x
  BY <1>4, <1>5, <1>6, <1>9, HeldNode
<1>10. Held(Add(d, n), c1, t)
  BY <1>3, <1>7, <1>8, <1>9, HeldFrom
<1>11. QED
  BY <1>10 DEF c1, c

\* The map after a read or a write of client f left it with buffer b and deadline t
AfterUse(cs, f, b, t) == [cs EXCEPT ![f].buffer = b, ![f].it = Renewed(@, t)]

\* What a client is then
LEMMA RenewedEntry ==
    ASSUME NEW cs, cs \in [DOMAIN cs -> ClientRecord], NEW f \in DOMAIN cs,
           NEW b \in Seq(Nat), NEW t \in Nat
    PROVE  LET c1 == AfterUse(cs, f, b, t)
           IN  /\ c1 \in [DOMAIN cs -> ClientRecord]
               /\ c1[f].peer = cs[f].peer /\ c1[f].buffer = b
               /\ c1[f].it = Renewed(cs[f].it, t)
               /\ \A g \in DOMAIN cs : g # f => c1[g] = cs[g]
<1> DEFINE c1 == AfterUse(cs, f, b, t)
           n  == Renewed(cs[f].it, t)
<1>1. cs[f] \in ClientRecord /\ cs[f].it \in Wrapper
  BY ClientFields
<1>2. n \in Wrapper
  BY <1>1 DEF Renewed, Wrapper
<1>3. c1 = [cs EXCEPT ![f].buffer = b, ![f].it = n]
  BY <1>1 DEF ClientRecord, AfterUse
<1> HIDE DEF n
<1>4. /\ c1[f] = [cs[f] EXCEPT !.buffer = b, !.it = n]
      /\ \A g \in DOMAIN cs : g # f => c1[g] = cs[g]
      /\ c1 = [g \in DOMAIN cs |-> c1[g]]
  BY <1>3
<1>5. /\ c1[f] \in ClientRecord
      /\ c1[f].peer = cs[f].peer /\ c1[f].buffer = b /\ c1[f].it = n
  BY <1>1, <1>2, <1>4 DEF ClientRecord
<1>6. QED
  BY <1>4, <1>5 DEF n

\* set_deadline of one client after a read or a write, which may change its
\* buffer: the container, the iterator and the map stay together
LEMMA HeldRenew ==
    ASSUME NEW d, NEW cs, NEW t \in Nat, Held(d, cs, t), NEW f \in DOMAIN cs,
           NEW c1 \in [DOMAIN cs -> ClientRecord],
           c1[f].it = Renewed(cs[f].it, t),
           \A g \in DOMAIN cs : g # f => c1[g] = cs[g]
    PROVE  Held(Update(d, cs[f].it, t), c1, t)
<1> DEFINE it == cs[f].it
           n  == Renewed(it, t)
           d1 == Update(d, it, t)
<1>1. GoodContainer(d) /\ InQueue(d, it) /\ it.client = f /\ cs[f] \in ClientRecord
  BY DEF Held
<1>2. it \in Wrapper
  BY <1>1, ClientFields
<1>3. n \in Wrapper /\ n.deadline = t /\ n.client = f
  BY <1>1, <1>2 DEF Renewed, Wrapper
<1>4. DOMAIN c1 = DOMAIN cs
  OBVIOUS
<1>5. c1[f].it = n
  OBVIOUS
<1>6. NotBefore(d, it.timeout, t)
  BY HeldNotBefore
<1> HIDE DEF it, n
<1>7. GoodContainer(d1) /\ \A x : InQueue(d1, x) <=> x = n \/ (x # it /\ InQueue(d, x))
  BY <1>1, <1>6, UpdateCorrect DEF n
<1> HIDE DEF d1
<1>8. c1 \in [DOMAIN c1 -> ClientRecord] /\ DOMAIN c1 \subseteq Fd
  BY <1>4 DEF Held
<1>9. ASSUME NEW g \in DOMAIN c1
      PROVE  c1[g].it.client = g /\ InQueue(d1, c1[g].it) /\ c1[g].it.deadline <= t
  <2>1. CASE g = f
    BY <1>3, <1>5, <1>7, <2>1
  <2>2. CASE g # f
    <3>1. /\ c1[g].it = cs[g].it /\ cs[g].it.client = g
          /\ InQueue(d, cs[g].it) /\ cs[g].it.deadline <= t
      BY <1>4, <2>2 DEF Held
    <3>2. cs[g].it # it
      BY <1>1, <2>2, <3>1
    <3>3. QED
      BY <1>7, <3>1, <3>2
  <2>3. QED
    BY <2>1, <2>2
<1>10. ASSUME NEW x, InQueue(d1, x)
       PROVE  x.client \in DOMAIN c1 /\ c1[x.client].it = x
  <2>1. CASE x = n
    BY <1>3, <1>4, <1>5, <2>1
  <2>2. CASE x # it /\ InQueue(d, x)
    <3>1. x.client \in DOMAIN cs /\ cs[x.client].it = x
      BY <2>2, HeldNode
    <3>2. x.client # f
      BY <2>2, <3>1 DEF it
    <3>3. QED
      BY <1>4, <3>1, <3>2
  <2>3. QED
    BY <1>7, <1>10, <2>1, <2>2
<1>11. Held(d1, c1, t)
  BY <1>7, <1>8, <1>9, <1>10, HeldFrom
<1>12. QED
  BY <1>11 DEF d1, it

\* A destructor: the client's node leaves the container with its entry in the map
\* (deadline_client.cpp, echo_server.cpp:73)
LEMMA HeldErase ==
    ASSUME NEW d, NEW cs, NEW t \in Nat, Held(d, cs, t), t <= TimeMax, NEW f \in DOMAIN cs
    PROVE  Held(RemoveNode(d, cs[f].it), MapErase(cs, f), t)
<1> DEFINE it == cs[f].it
           d1 == RemoveNode(d, it)
           c1 == MapErase(cs, f)
<1>1. GoodContainer(d) /\ InQueue(d, it) /\ it.client = f
  BY DEF Held
<1>2. NotBefore(d, it.timeout, TimeMax)
  BY HeldNotBefore, TimeAssumption
<1>3. GoodContainer(d1) /\ \A x : InQueue(d1, x) <=> x # it /\ InQueue(d, x)
  BY <1>1, <1>2, RemoveCorrect
<1> HIDE DEF d1
<1>4. /\ DOMAIN c1 = DOMAIN cs \ {f}
      /\ \A g \in DOMAIN c1 : c1[g] = cs[g]
      /\ c1 = [g \in DOMAIN c1 |-> c1[g]]
  BY DEF MapErase
<1> HIDE DEF c1
<1>5. c1 \in [DOMAIN c1 -> ClientRecord] /\ DOMAIN c1 \subseteq Fd
  BY <1>4 DEF Held
<1>6. ASSUME NEW g \in DOMAIN c1
      PROVE  c1[g].it.client = g /\ InQueue(d1, c1[g].it) /\ c1[g].it.deadline <= t
  <2>1. g # f /\ g \in DOMAIN cs /\ c1[g] = cs[g]
    BY <1>4
  <2>2. cs[g].it.client = g /\ InQueue(d, cs[g].it) /\ cs[g].it.deadline <= t
    BY <2>1 DEF Held
  <2>3. cs[g].it # it
    BY <1>1, <2>1, <2>2
  <2>4. QED
    BY <1>3, <2>1, <2>2, <2>3
<1>7. ASSUME NEW x, InQueue(d1, x)
      PROVE  x.client \in DOMAIN c1 /\ c1[x.client].it = x
  <2>1. x # it /\ x.client \in DOMAIN cs /\ cs[x.client].it = x
    BY <1>3, <1>7, HeldNode
  <2>2. x.client # f
    BY <2>1
  <2>3. QED
    BY <1>4, <2>1, <2>2
<1>8. Held(d1, c1, t)
  BY <1>3, <1>5, <1>6, <1>7, HeldFrom
<1>9. QED
  BY <1>8 DEF d1, c1

-----------------------------------------------------------------------------
(* The connections: their links, the backlog and the clients.              *)

\* One connection changes its state
LEMMA LinkState ==
    ASSUME NEW lk \in [Peer -> LinkRecord], NEW p \in Peer,
           NEW s \in {"none", "queued", "accepted", "closed"}, NEW l1,
           l1 = [lk EXCEPT ![p].state = s]
    PROVE  /\ l1 \in [Peer -> LinkRecord]
           /\ l1[p].state = s /\ l1[p].fin = lk[p].fin
           /\ l1[p].left = lk[p].left /\ l1[p].rst = lk[p].rst
           /\ \A q \in Peer : q # p => l1[q] = lk[q]
<1>1. l1[p] = [lk[p] EXCEPT !.state = s] /\ lk[p] \in LinkRecord
  OBVIOUS
<1>2. l1[p] \in LinkRecord
  BY <1>1 DEF LinkRecord
<1>3. l1 \in [Peer -> LinkRecord]
  BY <1>2
<1>4. QED
  BY <1>1, <1>3 DEF LinkRecord

\* A client is destroyed: its connection is closed
LEMMA LinkedErase ==
    ASSUME NEW lk, NEW cs, Linked(lk, cs), cs \in [DOMAIN cs -> ClientRecord],
           NEW f \in DOMAIN cs, NEW l1, l1 = [lk EXCEPT ![cs[f].peer].state = "closed"]
    PROVE  Linked(l1, MapErase(cs, f))
<1> DEFINE p == cs[f].peer
           c1 == MapErase(cs, f)
<1>1. p \in Peer
  BY ClientFields
<1>2. /\ l1 \in [Peer -> LinkRecord]
      /\ l1[p].state = "closed" /\ l1[p].fin = lk[p].fin
      /\ l1[p].left = lk[p].left /\ l1[p].rst = lk[p].rst
      /\ \A q \in Peer : q # p => l1[q] = lk[q]
  BY <1>1, LinkState DEF Linked
<1>3. DOMAIN c1 = DOMAIN cs \ {f} /\ \A g \in DOMAIN c1 : c1[g] = cs[g]
  BY DEF MapErase
<1>4. \A g \in DOMAIN c1 : c1[g].peer # p
  BY <1>3 DEF Linked
<1> HIDE DEF c1
<1>5. ASSUME NEW q \in Peer
      PROVE  l1[q].state = "accepted" <=> \E g \in DOMAIN c1 : c1[g].peer = q
  <2>1. CASE q = p
    BY <1>2, <1>4, <2>1
  <2>2. CASE q # p
    <3>1. l1[q].state = "accepted" <=> \E g \in DOMAIN cs : cs[g].peer = q
      BY <1>2, <2>2 DEF Linked
    <3>2. (\E g \in DOMAIN cs : cs[g].peer = q) <=> \E g \in DOMAIN c1 : c1[g].peer = q
      BY <1>3, <2>2
    <3>3. QED
      BY <3>1, <3>2
  <2>3. QED
    BY <2>1, <2>2
<1>6. \A g, h \in DOMAIN c1 : c1[g].peer = c1[h].peer => g = h
  BY <1>3 DEF Linked
<1>7. \A q \in Peer : /\ l1[q].rst => l1[q].left
                      /\ l1[q].left => l1[q].fin \/ l1[q].rst
  BY <1>2 DEF Linked
<1>8. QED
  BY <1>2, <1>5, <1>6, <1>7 DEF Linked, c1

\* A queued peer is accepted: its connection has a client
LEMMA LinkedAdd ==
    ASSUME NEW lk, NEW cs, Linked(lk, cs), NEW p \in Peer, lk[p].state = "queued",
           NEW f, f \notin DOMAIN cs, NEW c, c.peer = p,
           NEW l1, l1 = [lk EXCEPT ![p].state = "accepted"]
    PROVE  Linked(l1, MapInsert(cs, f, c))
<1> DEFINE c1 == MapInsert(cs, f, c)
<1>1. \A g \in DOMAIN cs : cs[g].peer # p
  BY DEF Linked
<1>2. /\ l1 \in [Peer -> LinkRecord]
      /\ l1[p].state = "accepted" /\ l1[p].fin = lk[p].fin
      /\ l1[p].left = lk[p].left /\ l1[p].rst = lk[p].rst
      /\ \A q \in Peer : q # p => l1[q] = lk[q]
  BY LinkState DEF Linked
<1>3. /\ DOMAIN c1 = DOMAIN cs \cup {f} /\ c1[f] = c
      /\ \A g \in DOMAIN cs : g # f /\ c1[g] = cs[g]
  BY DEF MapInsert
<1> HIDE DEF c1
<1>4. ASSUME NEW q \in Peer
      PROVE  l1[q].state = "accepted" <=> \E g \in DOMAIN c1 : c1[g].peer = q
  <2>1. CASE q = p
    BY <1>2, <1>3, <2>1
  <2>2. CASE q # p
    <3>1. l1[q].state = "accepted" <=> \E g \in DOMAIN cs : cs[g].peer = q
      BY <1>2, <2>2 DEF Linked
    <3>2. (\E g \in DOMAIN cs : cs[g].peer = q) <=> \E g \in DOMAIN c1 : c1[g].peer = q
      BY <1>3, <2>2
    <3>3. QED
      BY <3>1, <3>2
  <2>3. QED
    BY <2>1, <2>2
<1>5. \A g, h \in DOMAIN c1 : c1[g].peer = c1[h].peer => g = h
  BY <1>1, <1>3 DEF Linked
<1>6. \A q \in Peer : /\ l1[q].rst => l1[q].left
                      /\ l1[q].left => l1[q].fin \/ l1[q].rst
  BY <1>2 DEF Linked
<1>7. QED
  BY <1>2, <1>4, <1>5, <1>6 DEF Linked, c1

\* Clients keep their connections while their buffers and iterators change
LEMMA LinkedSame ==
    ASSUME NEW lk, NEW cs, Linked(lk, cs), NEW c1, DOMAIN c1 = DOMAIN cs,
           \A f \in DOMAIN cs : c1[f].peer = cs[f].peer
    PROVE  Linked(lk, c1)
BY DEF Linked

\* A FIN or a reset does not change who is accepted
LEMMA LinkedMove ==
    ASSUME NEW lk, NEW cs, Linked(lk, cs), NEW l1 \in [Peer -> LinkRecord],
           \A q \in Peer : l1[q].state = "accepted" <=> lk[q].state = "accepted",
           \A q \in Peer : /\ l1[q].rst => l1[q].left
                           /\ l1[q].left => l1[q].fin \/ l1[q].rst
    PROVE  Linked(l1, cs)
BY DEF Linked

\* The backlog waits on while other connections change
LEMMA WaitingSame ==
    ASSUME NEW bl, NEW lk, Waiting(bl, lk), NEW l1,
           \A q \in Peer : lk[q].state = "queued" => l1[q].state = "queued"
    PROVE  Waiting(bl, l1)
BY ElementOfSeq DEF Waiting

\* The first of the backlog is accepted
LEMMA WaitingTail ==
    ASSUME NEW bl, NEW lk, Waiting(bl, lk), bl # <<>>, NEW l1,
           \A q \in Peer : q # Head(bl) /\ lk[q].state = "queued" => l1[q].state = "queued"
    PROVE  /\ Head(bl) \in Peer /\ lk[Head(bl)].state = "queued"
           /\ Waiting(Tail(bl), l1)
<1>1. /\ bl \in Seq(Peer) /\ Len(bl) \in Nat /\ Len(bl) > 0
      /\ Head(bl) \in Peer /\ Head(bl) = bl[1]
      /\ Tail(bl) \in Seq(Peer) /\ Len(Tail(bl)) = Len(bl) - 1
      /\ \A i \in 1..Len(Tail(bl)) : Tail(bl)[i] = bl[i + 1]
  BY HeadTailProperties, EmptySeq, LenProperties DEF Waiting
<1>2. ASSUME NEW i \in 1..Len(Tail(bl))
      PROVE  l1[Tail(bl)[i]].state = "queued"
  <2>1. i + 1 \in 1..Len(bl) /\ 1 \in 1..Len(bl) /\ i + 1 # 1
    BY <1>1
  <2>2. bl[i + 1] # bl[1] /\ lk[bl[i + 1]].state = "queued" /\ bl[i + 1] \in Peer
    BY <1>1, <2>1, ElementOfSeq DEF Waiting
  <2>3. QED
    BY <1>1, <2>2
<1>3. ASSUME NEW i \in 1..Len(Tail(bl)), NEW j \in 1..Len(Tail(bl)), Tail(bl)[i] = Tail(bl)[j]
      PROVE  i = j
  <2>1. i + 1 \in 1..Len(bl) /\ j + 1 \in 1..Len(bl) /\ bl[i + 1] = bl[j + 1]
    BY <1>1, <1>3
  <2>2. i + 1 = j + 1
    BY <2>1 DEF Waiting
  <2>3. QED
    BY <2>2
<1>4. lk[bl[1]].state = "queued"
  BY <1>1 DEF Waiting
<1>5. QED
  BY <1>1, <1>2, <1>3, <1>4 DEF Waiting

\* A peer connects and waits behind the others
LEMMA WaitingAppend ==
    ASSUME NEW bl, NEW lk, Waiting(bl, lk), NEW p \in Peer, lk[p].state # "queued",
           NEW l1, l1[p].state = "queued",
           \A q \in Peer : q # p => l1[q].state = lk[q].state
    PROVE  Waiting(Append(bl, p), l1)
<1> DEFINE b1 == Append(bl, p)
<1>1. /\ bl \in Seq(Peer) /\ Len(bl) \in Nat
      /\ b1 \in Seq(Peer) /\ Len(b1) = Len(bl) + 1 /\ b1[Len(bl) + 1] = p
      /\ \A i \in 1..Len(bl) : b1[i] = bl[i]
  BY AppendProperties, LenProperties DEF Waiting
<1>2. \A i \in 1..Len(bl) : bl[i] \in Peer /\ bl[i] # p
  BY <1>1, ElementOfSeq DEF Waiting
<1> HIDE DEF b1
<1>3. \A i \in 1..Len(b1) : i \in 1..Len(bl) \/ i = Len(bl) + 1
  BY <1>1
<1>4. \A i \in 1..Len(b1) : l1[b1[i]].state = "queued"
  BY <1>1, <1>2, <1>3 DEF Waiting
<1>5. \A i, j \in 1..Len(b1) : b1[i] = b1[j] => i = j
  BY <1>1, <1>2, <1>3 DEF Waiting
<1>6. QED
  BY <1>1, <1>4, <1>5 DEF Waiting, b1

-----------------------------------------------------------------------------
(* The batch of events.                                                    *)

\* The loop goes on to the next event
LEMMA BatchNext ==
    ASSUME NEW es, NEW k \in Nat, Len(es) \in Nat, NEW cs, NEW bl, Batch(es, k, cs, bl),
           NEW c1, NEW b1,
           \A j \in (k + 1)..Len(es) : es[j].kind = "client" =>
               es[j].fd \in DOMAIN c1 /\ c1[es[j].fd].peer = cs[es[j].fd].peer,
           \A j \in (k + 1)..Len(es) : es[j].kind = "listen" => b1 # <<>>
    PROVE  Batch(es, k + 1, c1, b1)
<1>1. \A j \in (k + 1)..Len(es) : j \in k..Len(es)
  OBVIOUS
<1>2. QED
  BY <1>1 DEF Batch

\* The loop has put an event about a client behind the others
LEMMA BatchAppend ==
    ASSUME NEW es \in Seq(EventRecord), NEW k \in 1..(Len(es) + 1), NEW cs, NEW bl,
           Batch(es, k, cs, bl), NEW f \in DOMAIN cs, NEW p, cs[f].peer = p,
           NEW e \in EventRecord, e.kind = "client", e.fd = f, e.peer = p,
           \A j \in k..Len(es) : es[j].kind = "client" => es[j].fd # f
    PROVE  Batch(Append(es, e), k, cs, bl)
<1> DEFINE e1 == Append(es, e)
<1>1. /\ Len(es) \in Nat /\ Len(e1) = Len(es) + 1 /\ e1[Len(es) + 1] = e
      /\ \A i \in 1..Len(es) : e1[i] = es[i]
  BY AppendProperties, LenProperties
<1> HIDE DEF e1
<1>2. \A j \in k..Len(e1) : (j \in k..Len(es) /\ e1[j] = es[j]) \/ (j = Len(es) + 1 /\ e1[j] = e)
  BY <1>1
<1>3. \A j \in k..Len(e1) : e1[j].kind = "client" =>
          e1[j].fd \in DOMAIN cs /\ cs[e1[j].fd].peer = e1[j].peer
  BY <1>2 DEF Batch
<1>4. \A j \in k..Len(e1) : e1[j].kind = "listen" => bl # <<>>
  BY <1>2 DEF Batch
<1>5. \A i, j \in k..Len(e1) :
          e1[i].kind = e1[j].kind /\ (e1[i].kind = "client" => e1[i].fd = e1[j].fd) => i = j
  BY <1>2 DEF Batch
<1>6. QED
  BY <1>3, <1>4, <1>5 DEF Batch, e1

-----------------------------------------------------------------------------
(* The steps that neither touch a client nor a connection.                 *)

\* The least deadline of the container is that of a client, and no client has an
\* earlier one
LEMMA LeastClient ==
    ASSUME NEW d, NEW cs, NEW t, Held(d, cs, t), ~IsEmpty(d)
    PROVE  /\ GetMin(d).client \in DOMAIN cs
           /\ cs[GetMin(d).client].it = GetMin(d)
           /\ GetMin(d).deadline \in Nat
           /\ \A f \in DOMAIN cs : GetMin(d).deadline <= cs[f].it.deadline
<1>1. GoodContainer(d) /\ \A f \in DOMAIN cs : InQueue(d, cs[f].it) /\ cs[f] \in ClientRecord
  BY DEF Held
<1>2. InQueue(d, GetMin(d)) /\ \A x : InQueue(d, x) => GetMin(d).deadline <= x.deadline
  BY <1>1, GetMinCorrect
<1>3. GetMin(d).client \in DOMAIN cs /\ cs[GetMin(d).client].it = GetMin(d)
  BY <1>2, HeldNode
<1>4. GetMin(d) \in Wrapper
  BY <1>1, <1>3, ClientFields
<1>5. QED
  BY <1>1, <1>2, <1>3, <1>4, WrapperFields

\* A container without queues has no clients
LEMMA EmptyMeansNone ==
    ASSUME NEW d, NEW cs, NEW t, Held(d, cs, t), IsEmpty(d)
    PROVE  DOMAIN cs = {}
BY DEF Held, IsEmpty, InQueue

\* A step that leaves every variable of the invariant alone
LEMMA QuietStep ==
    ASSUME IInv, UNCHANGED <<clients, dc, backlog, link, now>>,
           Typed', Alarm',
           pc' = "events" => Batch(events', next', clients, backlog),
           pc' = "stopped" => DOMAIN clients = {}
    PROVE  IInv'
BY DEF IInv, NewDeadline

\* The loop computes its timeout from the least deadline and sleeps
LEMMA StartSleepingStep ==
    ASSUME IInv, StartSleeping
    PROVE  IInv'
<1>1. /\ UNCHANGED <<clients, dc, events, next, expired, backlog, ready, link, toServer,
                     toPeer, signalled, now, lag, sent, received>>
      /\ pc' = "asleep"
      /\ wake' = IF SleepTimeout < 0 THEN Never ELSE now + SleepTimeout
  BY DEF StartSleeping, clockVars, peerVars
<1>2. Held(dc, clients, NewDeadline) /\ Typed /\ now \in Nat
  BY Times DEF IInv, Typed
<1>3. CASE IsEmpty(dc)
  <2>1. wake' = Never
    BY <1>1, <1>3 DEF SleepTimeout
  <2>2. Typed' /\ Alarm'
    BY <1>1, <1>2, <2>1 DEF Typed, Alarm
  <2>3. QED
    BY <1>1, <2>2, QuietStep
<1>4. CASE ~IsEmpty(dc)
  <2>1. SleepTimeout = GetMin(dc).deadline - now /\ GetMin(dc).deadline \in Nat
    BY <1>2, <1>4, LeastClient DEF SleepTimeout
  <2>2. wake' = Never \/ wake' = GetMin(dc).deadline
    BY <1>1, <1>2, <2>1
  <2>3. Typed' /\ Alarm'
    BY <1>1, <1>2, <1>4, <2>1, <2>2 DEF Typed, Alarm
  <2>4. QED
    BY <1>1, <2>3, QuietStep
<1>5. QED
  BY <1>3, <1>4

\* epoll_wait gives up because a deadline has come
LEMMA TimeOutStep ==
    ASSUME IInv, TimeOut
    PROVE  IInv'
<1>1. /\ UNCHANGED <<clients, dc, wake, backlog, ready, link, toServer,
                     toPeer, signalled, now, lag, sent, received>>
      /\ pc = "asleep" /\ wake # Never /\ now >= wake
      /\ pc' = "expire" /\ expired' = GetMin(dc).deadline /\ events' = <<>> /\ next' = 1
  BY DEF TimeOut, TimeoutDue, clockVars, peerVars, kernelVars
<1>2. Held(dc, clients, NewDeadline) /\ Typed /\ Alarm
  BY DEF IInv
<1>3. ~IsEmpty(dc) /\ wake = GetMin(dc).deadline
  BY <1>1, <1>2 DEF Alarm
<1>4. /\ expired' \in Nat /\ expired' <= now
      /\ \A f \in DOMAIN clients : expired' <= clients[f].it.deadline
  BY <1>1, <1>2, <1>3, LeastClient
<1>5. events' \in Seq(EventRecord) /\ Len(events') = 0
  BY <1>1, EmptySeq
<1>6. Typed'
  BY <1>1, <1>2, <1>4, <1>5 DEF Typed
<1>7. Alarm'
  BY <1>1, <1>4 DEF Alarm
<1>8. QED
  BY <1>1, <1>6, <1>7, QuietStep

\* The thread leaves a loop, or a signal arrives
LEMMA TurnStep ==
    ASSUME IInv, ExpireDone \/ EventsDone \/ OnSignal \/ UnwindDone \/ Signal
    PROVE  IInv'
<1>1. /\ UNCHANGED <<clients, dc, events, next, expired, wake, backlog, ready, link, toServer,
                     toPeer, now, lag, sent, received>>
      /\ pc' \in {"top", "unwind"} \/ (pc' = "stopped" /\ DOMAIN clients = {}) \/ pc' = pc
  BY DEF ExpireDone, EventsDone, OnSignal, UnwindDone, Signal, clockVars, peerVars,
         kernelVars, serverVars
<1>2. Typed /\ Alarm
  BY DEF IInv
<1>3. Typed' /\ Alarm'
  BY <1>1, <1>2 DEF Typed, Alarm
<1>4. pc' = "events" => Batch(events', next', clients, backlog)
  BY <1>1 DEF IInv
<1>5. pc' = "stopped" => DOMAIN clients = {}
  BY <1>1 DEF IInv
<1>6. QED
  BY <1>1, <1>3, <1>4, <1>5, QuietStep

\* A second passes, which leaves every deadline within ClientTimeout of now
LEMMA TickStep ==
    ASSUME IInv, Tick
    PROVE  IInv'
<1>1. /\ UNCHANGED <<pc, clients, dc, events, next, expired, wake, backlog, ready, link,
                     toServer, toPeer, sent, received>>
      /\ now < MaxTime /\ now' = now + 1
      /\ lag' = lag \/ (lag < MaxLag /\ lag' = lag + 1)
  BY DEF Tick, peerVars, kernelVars, serverVars
<1>2. Typed /\ Alarm /\ Held(dc, clients, NewDeadline)
  BY DEF IInv
<1>3. now' \in 0..MaxTime /\ lag' \in 0..MaxLag /\ now \in 0..MaxTime
  BY <1>1, <1>2, ServerAssumption DEF Typed
<1>4. Typed'
  BY <1>1, <1>2, <1>3 DEF Typed
<1>5. Alarm'
  BY <1>1, <1>2, <1>3 DEF Alarm, Typed
<1>6. now \in Nat /\ now + ClientTimeout \in Nat /\ (now + 1) + ClientTimeout \in Nat
  BY <1>1, <1>3, Times
<1>7. ASSUME NEW f \in DOMAIN clients
      PROVE  clients[f].it.deadline <= (now + 1) + ClientTimeout
  <2>1. clients[f].it.deadline <= now + ClientTimeout /\ clients[f] \in ClientRecord
    BY <1>2 DEF Held, NewDeadline
  <2>2. clients[f].it.deadline \in Nat
    BY <2>1, ClientFields, WrapperFields
  <2>3. ClientTimeout \in Nat
    BY ServerAssumption
  <2>4. QED
    BY <1>6, <2>1, <2>2, <2>3
<1>8. Held(dc', clients', NewDeadline')
  BY <1>1, <1>2, <1>7 DEF Held, NewDeadline
<1>9. QED
  BY <1>1, <1>4, <1>5, <1>8 DEF IInv

-----------------------------------------------------------------------------
(* epoll_wait reports what is pending.                                     *)

\* What is pending is about clients that are alive, one event each, a queued peer or
\* a signal
LEMMA PendingEvents ==
    ASSUME IInv
    PROVE  /\ Pending \subseteq EventRecord
           /\ \A e \in Pending :
                  \/ /\ e.kind = "client" /\ e.fd \in DOMAIN clients
                     /\ clients[e.fd].peer = e.peer
                     /\ e = Event("client", e.fd, e.peer, Readable(e.peer), Writable(e.peer))
                  \/ e = Event("listen", 0, "", TRUE, FALSE) /\ e.kind = "listen" /\ backlog # <<>>
                  \/ e = Event("signal", 0, "", TRUE, FALSE) /\ e.kind = "signal"
<1>1. \A f \in DOMAIN clients : clients[f].peer \in Peer /\ f \in Nat
  BY ClientFields, ServerAssumption DEF IInv, Held
<1>2. ASSUME NEW p PROVE Readable(p) \in BOOLEAN /\ Writable(p) \in BOOLEAN
  BY DEF Readable, Writable
<1>3. ASSUME NEW e \in Pending
      PROVE  /\ e \in EventRecord
             /\ \/ /\ e.kind = "client" /\ e.fd \in DOMAIN clients
                   /\ clients[e.fd].peer = e.peer
                   /\ e = Event("client", e.fd, e.peer, Readable(e.peer), Writable(e.peer))
                \/ e = Event("listen", 0, "", TRUE, FALSE) /\ e.kind = "listen" /\ backlog # <<>>
                \/ e = Event("signal", 0, "", TRUE, FALSE) /\ e.kind = "signal"
  <2>1. \/ \E f \in DOMAIN clients :
               e = Event("client", f, clients[f].peer, Readable(clients[f].peer),
                         Writable(clients[f].peer))
        \/ e = Event("listen", 0, "", TRUE, FALSE) /\ backlog # <<>>
        \/ e = Event("signal", 0, "", TRUE, FALSE)
    BY DEF Pending
  <2>2. CASE \E f \in DOMAIN clients :
               e = Event("client", f, clients[f].peer, Readable(clients[f].peer),
                         Writable(clients[f].peer))
    <3>1. PICK f \in DOMAIN clients :
               e = Event("client", f, clients[f].peer, Readable(clients[f].peer),
                         Writable(clients[f].peer))
      BY <2>2
    <3>2. e \in EventRecord /\ e.kind = "client" /\ e.fd = f /\ e.peer = clients[f].peer
      BY <1>1, <1>2, <3>1 DEF Event, EventRecord
    <3>3. QED
      BY <3>1, <3>2
  <2>3. CASE e = Event("listen", 0, "", TRUE, FALSE) /\ backlog # <<>>
    BY <2>3 DEF Event, EventRecord
  <2>4. CASE e = Event("signal", 0, "", TRUE, FALSE)
    BY <2>4 DEF Event, EventRecord
  <2>5. QED
    BY <2>1, <2>2, <2>3, <2>4
<1>4. QED
  BY <1>3

\* No two pending events are about the same descriptor
LEMMA PendingDistinct ==
    ASSUME IInv, NEW e1 \in Pending, NEW e2 \in Pending, e1.kind = e2.kind,
           e1.kind = "client" => e1.fd = e2.fd
    PROVE  e1 = e2
<1>1. CASE e1.kind = "client"
  BY <1>1, PendingEvents
<1>2. CASE e1.kind # "client"
  <2>1. \A e \in Pending : e.kind # "client" =>
            \/ e = Event("listen", 0, "", TRUE, FALSE) /\ e.kind = "listen"
            \/ e = Event("signal", 0, "", TRUE, FALSE) /\ e.kind = "signal"
    BY PendingEvents
  <2>2. QED
    BY <1>2, <2>1
<1>3. QED
  BY <1>1, <1>2

\* One more element
LEMMA OneMore ==
    ASSUME NEW S, IsFiniteSet(S), NEW n \in Nat, Cardinality(S) <= n, NEW x
    PROVE  IsFiniteSet(S \cup {x}) /\ Cardinality(S \cup {x}) <= n + 1
<1>1. Cardinality(S) \in Nat
  BY FS_CardinalityType
<1>2. /\ IsFiniteSet(S \cup {x})
      /\ Cardinality(S \cup {x}) = IF x \in S THEN Cardinality(S) ELSE Cardinality(S) + 1
  BY FS_AddElement
<1>3. QED
  BY <1>1, <1>2

\* There is an event for each descriptor at most, and two more
LEMMA PendingFinite ==
    ASSUME IInv
    PROVE  /\ IsFiniteSet(Pending)
           /\ Cardinality(Pending) \in Nat
           /\ Cardinality(Pending) <= Cardinality(Fd) + 2
<1> DEFINE C == {e \in Pending : e.kind = "client"}
           L == Event("listen", 0, "", TRUE, FALSE)
           S == Event("signal", 0, "", TRUE, FALSE)
           g == [e \in C |-> e.fd]
<1>1. IsFiniteSet(Fd) /\ Cardinality(Fd) \in Nat
  BY ServerAssumption, FS_CardinalityType
<1>2. \A e \in C : e.fd \in Fd
  BY PendingEvents, ServerAssumption DEF IInv, Held, EventRecord
<1>3. \A x, y \in C : x.fd = y.fd => x = y
  BY PendingDistinct
<1>4. g \in Injection(C, Fd)
  BY <1>2, <1>3 DEF Injection, IsInjective
<1>5. IsFiniteSet(C) /\ Cardinality(C) <= Cardinality(Fd)
  BY <1>1, <1>4, FS_Injection
<1>5a. Pending \subseteq (C \cup {L}) \cup {S}
  BY PendingEvents
<1> HIDE DEF C, L, S
<1>6. IsFiniteSet(C \cup {L}) /\ Cardinality(C \cup {L}) <= Cardinality(Fd) + 1
  BY <1>1, <1>5, OneMore
<1>7. Cardinality(Fd) + 1 \in Nat
  BY <1>1
<1>8. /\ IsFiniteSet((C \cup {L}) \cup {S})
      /\ Cardinality((C \cup {L}) \cup {S}) <= (Cardinality(Fd) + 1) + 1
  BY <1>6, <1>7, OneMore
<1>9. QED
  BY <1>1, <1>5a, <1>8, FS_Subset, FS_CardinalityType

\* epoll_wait returns a batch of events
LEMMA WakeUpStep ==
    ASSUME IInv, WakeUp
    PROVE  IInv'
<1>1. /\ UNCHANGED <<clients, dc, expired, wake, backlog, link, toServer, toPeer,
                     signalled, now, lag, sent, received>>
      /\ events' \in Orders(Pending) /\ next' = 1 /\ ready' = {} /\ pc' = "events"
  BY DEF WakeUp, clockVars, peerVars
<1> DEFINE n == Cardinality(Pending)
<1>2. /\ n \in Nat /\ events' \in [1..n -> Pending]
      /\ \A i, j \in 1..n : events'[i] = events'[j] => i = j
  BY <1>1, PendingFinite DEF Orders
<1>3. events' \in Seq(Pending) /\ Len(events') = n
  BY <1>2
<1>4. events' \in Seq(EventRecord)
  BY <1>3, PendingEvents, SeqMonotonic
<1>5. Typed'
  BY <1>1, <1>2, <1>3, <1>4 DEF IInv, Typed
<1>6. Alarm'
  BY <1>1 DEF Alarm
<1>7. \A j \in 1..Len(events') : events'[j] \in Pending
  BY <1>3, ElementOfSeq
<1>8. \A j \in 1..Len(events') : events'[j].kind = "client" =>
          events'[j].fd \in DOMAIN clients /\ clients[events'[j].fd].peer = events'[j].peer
  BY <1>7, PendingEvents
<1>9. \A j \in 1..Len(events') : events'[j].kind = "listen" => backlog # <<>>
  BY <1>7, PendingEvents
<1>10. \A i, j \in 1..Len(events') :
           /\ events'[i].kind = events'[j].kind
           /\ events'[i].kind = "client" => events'[i].fd = events'[j].fd
           => i = j
  BY <1>2, <1>3, <1>7, PendingDistinct
<1>11. Batch(events', next', clients, backlog)
  BY <1>1, <1>8, <1>9, <1>10 DEF Batch
<1>12. QED
  BY <1>1, <1>5, <1>6, <1>11, QuietStep

-----------------------------------------------------------------------------
(* The steps that destroy a client.                                        *)

\* The four destructors of a client keep map, container and connections together,
\* also when the client has just renewed its deadline (cs is clients after that)
LEMMA DestroyParts ==
    ASSUME IInv, NEW f \in DOMAIN clients, NEW d, NEW cs, Held(d, cs, NewDeadline),
           DOMAIN cs = DOMAIN clients, \A g \in DOMAIN clients : g # f => cs[g] = clients[g],
           Destroy(f, d, cs[f].it), now' = now
    PROVE  /\ Held(dc', clients', NewDeadline')
           /\ Roomy(clients')
           /\ Linked(link', clients')
           /\ Waiting(backlog, link')
           /\ ready' \subseteq Peer
           /\ toServer' \in [Peer -> Seq(Nat)] /\ toPeer' \in [Peer -> SocketBytes]
           /\ DOMAIN clients' = DOMAIN clients \ {f}
           /\ \A g \in DOMAIN clients' : clients'[g] = clients[g]
<1> DEFINE p == clients[f].peer
<1>1. /\ ready' = ready \ {p}
      /\ dc' = RemoveNode(d, cs[f].it)
      /\ clients' = MapErase(clients, f)
      /\ link' = [link EXCEPT ![p].state = "closed"]
      /\ toServer' = [toServer EXCEPT ![p] = <<>>]
      /\ toPeer' = IF toServer[p] = <<>> THEN toPeer ELSE [toPeer EXCEPT ![p] = <<>>]
  BY DEF Destroy
<1>2. /\ Typed /\ Roomy(clients) /\ Linked(link, clients) /\ Waiting(backlog, link)
      /\ clients \in [DOMAIN clients -> ClientRecord] /\ p \in Peer
  BY ClientFields DEF IInv, Held
<1>3. /\ DOMAIN clients' = DOMAIN clients \ {f}
      /\ \A g \in DOMAIN clients' : clients'[g] = clients[g]
  BY <1>1 DEF MapErase
<1>4. MapErase(clients, f) = MapErase(cs, f)
  BY DEF MapErase
<1>5. Held(dc', clients', NewDeadline')
  <2>1. NewDeadline \in Nat /\ NewDeadline <= TimeMax /\ NewDeadline' = NewDeadline
    BY <1>2, Times DEF NewDeadline, Typed
  <2>2. Held(RemoveNode(d, cs[f].it), MapErase(cs, f), NewDeadline)
    BY <2>1, HeldErase
  <2>3. QED
    BY <1>1, <1>4, <2>1, <2>2
<1>6. Roomy(clients')
  BY <1>2, <1>3 DEF Roomy
<1>7. Linked(link', clients')
  BY <1>1, <1>2, LinkedErase
<1>8. link[p].state = "accepted"
  BY <1>2 DEF Linked
<1>9. \A q \in Peer : link[q].state = "queued" => link'[q].state = "queued"
  BY <1>1, <1>2, <1>8, LinkState DEF Linked
<1>10. Waiting(backlog, link')
  BY <1>2, <1>9, WaitingSame
<1>11. /\ ready' \subseteq Peer
       /\ toServer' \in [Peer -> Seq(Nat)] /\ toPeer' \in [Peer -> SocketBytes]
  BY <1>1, <1>2, NoBytes DEF Typed
<1>12. QED
  BY <1>3, <1>5, <1>6, <1>7, <1>10, <1>11

\* The next client whose deadline has come is disconnected
LEMMA ExpireOneStep ==
    ASSUME IInv, ExpireOne
    PROVE  /\ IInv'
           /\ \A f \in DOMAIN clients \ DOMAIN clients' : clients[f].it.deadline = expired
<1> DEFINE f == GetMin(dc).client
<1>1. /\ UNCHANGED <<pc, events, next, expired, wake, backlog, now, lag, sent, received>>
      /\ pc = "expire" /\ ~IsEmpty(dc) /\ GetMin(dc).deadline = expired
      /\ Destroy(f, dc, clients[f].it)
  BY DEF ExpireOne, MoreExpired, clockVars, peerVars
<1>2. Held(dc, clients, NewDeadline) /\ Typed /\ Alarm
  BY DEF IInv
<1>3. f \in DOMAIN clients /\ clients[f].it = GetMin(dc)
  BY <1>1, <1>2, LeastClient
<1>4. /\ Held(dc', clients', NewDeadline') /\ Roomy(clients')
      /\ Linked(link', clients') /\ Waiting(backlog, link') /\ ready' \subseteq Peer
      /\ toServer' \in [Peer -> Seq(Nat)] /\ toPeer' \in [Peer -> SocketBytes]
      /\ DOMAIN clients' = DOMAIN clients \ {f}
      /\ \A g \in DOMAIN clients' : clients'[g] = clients[g]
  BY <1>1, <1>2, <1>3, DestroyParts
<1>5. Typed'
  BY <1>1, <1>2, <1>4 DEF Typed
<1>6. Alarm'
  BY <1>1, <1>2, <1>4 DEF Alarm
<1>7. IInv'
  BY <1>1, <1>4, <1>5, <1>6 DEF IInv
<1>8. QED
  BY <1>1, <1>3, <1>4, <1>7

\* After an exception the clients are destroyed one by one
LEMMA UnwindOneStep ==
    ASSUME IInv, UnwindOne
    PROVE  IInv'
<1>1. PICK f \in DOMAIN clients : Destroy(f, dc, clients[f].it)
  BY DEF UnwindOne
<1>2. /\ UNCHANGED <<pc, events, next, expired, wake, backlog, now, lag, sent, received>>
      /\ pc = "unwind"
  BY DEF UnwindOne, clockVars, peerVars
<1>3. Held(dc, clients, NewDeadline) /\ Typed
  BY DEF IInv
<1>4. /\ Held(dc', clients', NewDeadline') /\ Roomy(clients')
      /\ Linked(link', clients') /\ Waiting(backlog, link') /\ ready' \subseteq Peer
      /\ toServer' \in [Peer -> Seq(Nat)] /\ toPeer' \in [Peer -> SocketBytes]
  BY <1>1, <1>2, <1>3, DestroyParts
<1>5. Typed'
  BY <1>2, <1>3, <1>4 DEF Typed
<1>6. Alarm'
  BY <1>2 DEF Alarm
<1>7. QED
  BY <1>2, <1>4, <1>5, <1>6 DEF IInv

-----------------------------------------------------------------------------
(* The steps that handle an event.                                         *)

\* The event the loop is at: where it is, what it is about and what is left
LEMMA CurrentEvent ==
    ASSUME IInv, NEW kind, AtEvent(kind)
    PROVE  /\ pc = "events" /\ next \in 1..Len(events) /\ Len(events) \in Nat
           /\ events[next].kind = kind /\ events[next] \in EventRecord
           /\ Batch(events, next, clients, backlog)
           /\ kind = "client" => /\ events[next].fd \in DOMAIN clients
                                 /\ clients[events[next].fd].peer = events[next].peer
           /\ kind = "listen" => backlog # <<>>
           /\ \A j \in (next + 1)..Len(events) :
                  events[j].kind = kind => kind = "client" /\ events[j].fd # events[next].fd
<1>1. /\ pc = "events" /\ next \in 1..Len(events) /\ Len(events) \in Nat
      /\ events[next].kind = kind
      /\ Batch(events, next, clients, backlog) /\ events \in Seq(EventRecord)
  BY LenProperties DEF AtEvent, IInv, Typed
<1>2. events[next] \in EventRecord
  BY <1>1, ElementOfSeq
<1>3. next \in next..Len(events)
  BY <1>1
<1>4. /\ kind = "client" => /\ events[next].fd \in DOMAIN clients
                            /\ clients[events[next].fd].peer = events[next].peer
      /\ kind = "listen" => backlog # <<>>
  BY <1>1, <1>3 DEF Batch
<1>5. ASSUME NEW j \in (next + 1)..Len(events), events[j].kind = kind
      PROVE  kind = "client" /\ events[j].fd # events[next].fd
  <2>1. j \in next..Len(events) /\ j # next
    BY <1>1
  <2>2. QED
    BY <1>1, <1>3, <1>5, <2>1 DEF Batch
<1>6. QED
  BY <1>1, <1>2, <1>4, <1>5

\* A connection is accepted, or accept fails
LEMMA OnListenStep ==
    ASSUME IInv, OnListen
    PROVE  IInv'
<1>1. /\ UNCHANGED <<events, expired, wake, toServer, toPeer, now, lag, sent, received>>
      /\ AtEvent("listen")
  BY DEF OnListen, clockVars, peerVars
<1>2. /\ Typed /\ Held(dc, clients, NewDeadline) /\ Roomy(clients)
      /\ Linked(link, clients) /\ Waiting(backlog, link)
  BY DEF IInv
<1>3. /\ pc = "events" /\ next \in 1..Len(events) /\ Len(events) \in Nat
      /\ Batch(events, next, clients, backlog) /\ backlog # <<>>
      /\ \A j \in (next + 1)..Len(events) : events[j].kind # "listen"
  BY <1>1, CurrentEvent
<1>4. CASE Free = {}
  <2>1. pc' = "unwind" /\ UNCHANGED <<clients, dc, next, backlog, ready, link>>
    BY <1>4 DEF OnListen
  <2>2. Typed' /\ Alarm'
    BY <1>1, <1>2, <2>1 DEF Typed, Alarm
  <2>3. QED
    BY <1>1, <2>1, <2>2, QuietStep
<1>5. CASE Free # {}
  <2> DEFINE f == CHOOSE g \in Free : \A h \in Free : g <= h
             p == Head(backlog)
             n == [timeout |-> ClientTimeout, deadline |-> NewDeadline, client |-> f]
             c == [peer |-> p, buffer |-> <<>>, it |-> n]
  <2>1. /\ backlog' = Tail(backlog)
        /\ dc' = Add(dc, n)
        /\ clients' = MapInsert(clients, f, c)
        /\ link' = [link EXCEPT ![p].state = "accepted"]
        /\ ready' = ready \cup {p}
        /\ next' = next + 1
        /\ pc' = pc
    BY <1>5 DEF OnListen
  <2>2. f \in Fd /\ f \notin DOMAIN clients
    <3>1. Free \in SUBSET Nat
      BY ServerAssumption DEF Free
    <3>2. \E g \in Free : \A h \in Free : g <= h
      BY <1>5, <3>1, LeastExists
    <3>3. f \in Free
      BY <3>2
    <3>4. QED
      BY <3>3 DEF Free
  <2>3. NewDeadline \in Nat /\ ClientTimeout \in Timeout /\ Client = Fd
    BY <1>2, Times DEF NewDeadline, Typed
  <2>4. n \in Wrapper /\ n.client = f /\ n.deadline = NewDeadline
    BY <2>2, <2>3 DEF Wrapper
  <2>5. c.peer = p /\ c.buffer = <<>>
    OBVIOUS
  <2>6. DOMAIN clients' = DOMAIN clients \cup {f} /\ clients'[f] = c
        /\ \A g \in DOMAIN clients : clients'[g] = clients[g]
    BY <2>1, <2>2 DEF MapInsert
  <2> HIDE DEF f, n
  <2>7. p \in Peer /\ link[p].state = "queued"
    BY <1>2, <1>3, WaitingTail
  <2>8. Held(dc', clients', NewDeadline')
    <3>1. Held(Add(dc, n), MapInsert(clients, f, c), NewDeadline)
      BY <1>2, <2>2, <2>3, <2>4, <2>7, HeldAdd
    <3>2. NewDeadline' = NewDeadline
      BY <1>1 DEF NewDeadline
    <3>3. QED
      BY <2>1, <3>1, <3>2
  <2>9. \A q \in Peer : q # p /\ link[q].state = "queued" => link'[q].state = "queued"
    BY <1>2, <2>1, <2>7, LinkState DEF Linked
  <2>10. Waiting(backlog', link')
    BY <1>2, <1>3, <2>1, <2>9, WaitingTail
  <2>11. Linked(link', clients')
    BY <1>2, <2>1, <2>2, <2>5, <2>7, LinkedAdd
  <2>12. Roomy(clients')
    BY <1>2, <2>5, <2>6, EmptySeq, ServerAssumption DEF Roomy
  <2>13. Batch(events', next', clients', backlog')
    <3>1. \A j \in (next + 1)..Len(events) : events[j].kind = "client" =>
              events[j].fd \in DOMAIN clients'
              /\ clients'[events[j].fd].peer = clients[events[j].fd].peer
      BY <1>3, <2>6 DEF Batch
    <3>2. QED
      BY <1>1, <1>3, <2>1, <3>1, BatchNext
  <2>14. Typed'
    BY <1>1, <1>2, <1>3, <2>1, <2>7 DEF Typed
  <2>15. Alarm'
    BY <1>3, <2>1 DEF Alarm
  <2>16. QED
    BY <1>3, <2>1, <2>8, <2>10, <2>11, <2>12, <2>13, <2>14, <2>15 DEF IInv
<1>6. QED
  BY <1>4, <1>5

\* A client is dropped while events are left to handle (d and cs as in DestroyParts)
LEMMA DropStep ==
    ASSUME IInv, AtEvent("client"), NEW d, NEW cs, Held(d, cs, NewDeadline),
           DOMAIN cs = DOMAIN clients,
           \A g \in DOMAIN clients : g # events[next].fd => cs[g] = clients[g],
           Drop(events[next].fd, d, cs[events[next].fd].it),
           UNCHANGED <<expired, wake, backlog, now, lag, sent, received>>
    PROVE  IInv'
<1> DEFINE f == events[next].fd
<1>1. /\ next' = next + 1 /\ pc' = pc /\ events' = events
      /\ Destroy(f, d, cs[f].it)
      /\ \A g \in DOMAIN clients : g # f => cs[g] = clients[g]
  BY DEF Drop
<1>2. /\ pc = "events" /\ next \in 1..Len(events) /\ Len(events) \in Nat
      /\ Batch(events, next, clients, backlog) /\ f \in DOMAIN clients
      /\ \A j \in (next + 1)..Len(events) : events[j].kind = "client" => events[j].fd # f
  BY CurrentEvent
<1> HIDE DEF f
<1>3. /\ Held(dc', clients', NewDeadline') /\ Roomy(clients')
      /\ Linked(link', clients') /\ Waiting(backlog, link') /\ ready' \subseteq Peer
      /\ toServer' \in [Peer -> Seq(Nat)] /\ toPeer' \in [Peer -> SocketBytes]
      /\ DOMAIN clients' = DOMAIN clients \ {f}
      /\ \A g \in DOMAIN clients' : clients'[g] = clients[g]
  BY <1>1, <1>2, DestroyParts
<1>4. Typed'
  BY <1>1, <1>2, <1>3 DEF IInv, Typed
<1>5. Alarm'
  BY <1>1, <1>2 DEF Alarm
<1>6. Batch(events', next', clients', backlog')
  <2>1. ASSUME NEW j \in (next + 1)..Len(events), events[j].kind = "client"
        PROVE  /\ events[j].fd \in DOMAIN clients'
               /\ clients'[events[j].fd].peer = clients[events[j].fd].peer
    <3>1. j \in next..Len(events) /\ events[j].fd # f
      BY <1>2, <2>1
    <3>2. events[j].fd \in DOMAIN clients
      BY <1>2, <2>1, <3>1 DEF Batch
    <3>3. QED
      BY <1>3, <3>1, <3>2
  <2>2. \A j \in (next + 1)..Len(events) : events[j].kind = "listen" => backlog # <<>>
    BY <1>2 DEF Batch
  <2>3. Batch(events, next + 1, clients', backlog)
    BY <1>2, <2>1, <2>2, BatchNext
  <2>4. QED
    BY <1>1, <2>3
<1>7. QED
  BY <1>1, <1>2, <1>3, <1>4, <1>5, <1>6 DEF IInv

\* A client has been read from or written to: its buffer may have changed, its
\* deadline is new
LEMMA RenewParts ==
    ASSUME IInv, NEW f \in DOMAIN clients, NEW b \in Seq(Nat), Len(b) <= BufferSize,
           dc' = Update(dc, clients[f].it, NewDeadline),
           clients' = AfterUse(clients, f, b, NewDeadline),
           now' = now
    PROVE  /\ Held(dc', clients', NewDeadline')
           /\ Roomy(clients')
           /\ Linked(link, clients')
           /\ DOMAIN clients' = DOMAIN clients
           /\ \A g \in DOMAIN clients : clients'[g].peer = clients[g].peer
<1>1. Held(dc, clients, NewDeadline) /\ Roomy(clients) /\ Linked(link, clients)
  BY DEF IInv
<1>2. NewDeadline \in Nat /\ NewDeadline' = NewDeadline
  BY Times DEF IInv, Typed, NewDeadline
<1>3. /\ clients' \in [DOMAIN clients -> ClientRecord]
      /\ clients'[f].peer = clients[f].peer /\ clients'[f].buffer = b
      /\ clients'[f].it = Renewed(clients[f].it, NewDeadline)
      /\ \A g \in DOMAIN clients : g # f => clients'[g] = clients[g]
  BY <1>1, <1>2, RenewedEntry DEF Held
<1>3a. Held(dc', clients', NewDeadline) /\ DOMAIN clients' = DOMAIN clients
  BY <1>1, <1>2, <1>3, HeldRenew
<1>4. \A g \in DOMAIN clients : clients'[g].peer = clients[g].peer
  BY <1>3
<1>5. Linked(link, clients')
  BY <1>1, <1>3a, <1>4, LinkedSame
<1>6. Roomy(clients')
  BY <1>1, <1>3, <1>3a DEF Roomy
<1>7. QED
  BY <1>2, <1>3a, <1>4, <1>5, <1>6

\* What is read fits: a client that is not nasty has room for a whole read
LEMMA ReadFits ==
    ASSUME NEW c \in ClientRecord, ~IsNasty(c), NEW p \in Peer, Typed
    PROVE  /\ ReadCount(p) \in 0..Len(toServer[p])
           /\ c.buffer \o SubSeq(toServer[p], 1, ReadCount(p)) \in Seq(Nat)
           /\ Len(c.buffer \o SubSeq(toServer[p], 1, ReadCount(p))) <= BufferSize
           /\ SubSeq(toServer[p], ReadCount(p) + 1, Len(toServer[p])) \in Seq(Nat)
<1> DEFINE s == toServer[p]
           n == ReadCount(p)
<1>1. s \in Seq(Nat) /\ Len(s) \in Nat /\ c.buffer \in Seq(Nat) /\ Len(c.buffer) \in Nat
  BY ClientFields, LenProperties DEF Typed
<1>2. ChunkSize \in Nat /\ BufferSize \in Nat
  BY ServerAssumption
<1>3. n \in 0..Len(s) /\ n <= ChunkSize
  BY <1>1, <1>2 DEF ReadCount
<1> HIDE DEF n
<1>4. \A i \in 1..Len(s) : s[i] \in Nat
  BY <1>1, ElementOfSeq
<1> HIDE DEF s
<1>5. SubSeq(s, 1, n) \in Seq(Nat) /\ Len(SubSeq(s, 1, n)) = n
  BY <1>1, <1>3, <1>4, SubSeqProperties
<1>6. SubSeq(s, n + 1, Len(s)) \in Seq(Nat)
  BY <1>1, <1>3, <1>4, SubSeqProperties
<1>7. /\ c.buffer \o SubSeq(s, 1, n) \in Seq(Nat)
      /\ Len(c.buffer \o SubSeq(s, 1, n)) = Len(c.buffer) + n
  BY <1>1, <1>5, ConcatProperties
<1>8. BufferSize - Len(c.buffer) > ChunkSize
  BY <1>1, <1>2 DEF IsNasty
<1>9. Len(c.buffer) + n <= BufferSize
  BY <1>1, <1>2, <1>3, <1>8
<1>10. QED
  BY <1>3, <1>6, <1>7, <1>9 DEF s, n

\* Input of a client: read into its buffer and its deadline put off, or the client dropped
LEMMA OnReadableStep ==
    ASSUME IInv, OnReadable
    PROVE  IInv'
<1> DEFINE f == events[next].fd
           c == clients[f]
           p == c.peer
           n == ReadCount(p)
           b == c.buffer \o SubSeq(toServer[p], 1, n)
           e == WriteEvent(f, p)
<1>1. /\ UNCHANGED <<expired, wake, backlog, now, lag, sent, received>>
      /\ AtEvent("client")
  BY DEF OnReadable, clockVars, peerVars
<1>2. /\ pc = "events" /\ next \in 1..Len(events) /\ Len(events) \in Nat
      /\ Batch(events, next, clients, backlog)
      /\ f \in DOMAIN clients /\ p = events[next].peer
      /\ \A j \in (next + 1)..Len(events) : events[j].kind = "client" => events[j].fd # f
  BY <1>1, CurrentEvent
<1>3. /\ Typed /\ Held(dc, clients, NewDeadline) /\ Waiting(backlog, link)
      /\ c \in ClientRecord /\ p \in Peer /\ f \in Nat
  BY <1>2, ClientFields, ServerAssumption DEF IInv, Held
<1>4. NewDeadline \in Nat
  BY <1>3, Times DEF Typed, NewDeadline
<1>5. CASE IsNasty(c) /\ Drop(f, dc, c.it)
  BY <1>1, <1>3, <1>5, DropStep
<1>6. CASE Drop(f, Update(dc, c.it, NewDeadline), Renewed(c.it, NewDeadline))
  <2> DEFINE cs == AfterUse(clients, f, c.buffer, NewDeadline)
  <2>1. /\ cs \in [DOMAIN clients -> ClientRecord]
        /\ cs[f].it = Renewed(c.it, NewDeadline)
        /\ \A g \in DOMAIN clients : g # f => cs[g] = clients[g]
    BY <1>2, <1>3, <1>4, ClientFields, RenewedEntry DEF Held
  <2> HIDE DEF cs
  <2>1a. Held(Update(dc, c.it, NewDeadline), cs, NewDeadline) /\ DOMAIN cs = DOMAIN clients
    BY <1>2, <1>3, <1>4, <2>1, HeldRenew
  <2>2. Drop(f, Update(dc, c.it, NewDeadline), cs[f].it)
    BY <1>6, <2>1
  <2>3. QED
    BY <1>1, <2>1, <2>1a, <2>2, DropStep
<1>7. CASE pc' = "unwind" /\ UNCHANGED <<clients, dc, events, next, ready, link, toServer, toPeer>>
  <2>1. Typed' /\ Alarm'
    BY <1>1, <1>3, <1>7 DEF Typed, Alarm
  <2>2. QED
    BY <1>1, <1>7, <2>1, QuietStep
<1>8. CASE /\ ~IsNasty(c) /\ n > 0
           /\ toServer' = [toServer EXCEPT ![p] = SubSeq(@, n + 1, Len(@))]
           /\ dc' = Update(dc, c.it, NewDeadline)
           /\ clients' = AfterUse(clients, f, b, NewDeadline)
           /\ events' = Append(events, e)
           /\ next' = next + 1
           /\ UNCHANGED <<pc, ready, link, toPeer>>
  <2>1. /\ b \in Seq(Nat) /\ Len(b) <= BufferSize
        /\ SubSeq(toServer[p], n + 1, Len(toServer[p])) \in Seq(Nat)
    BY <1>3, <1>8, ReadFits
  <2>1a. toServer' \in [Peer -> Seq(Nat)]
    BY <1>3, <1>8, <2>1 DEF Typed
  <2>2. /\ e \in EventRecord /\ e.kind = "client" /\ e.fd = f /\ e.peer = p
    BY <1>3 DEF WriteEvent, Event, EventRecord
  <2>2a. clients[f].peer = p
    OBVIOUS
  <2> HIDE DEF b, e, f, p, n
  <2>3. /\ Held(dc', clients', NewDeadline') /\ Roomy(clients') /\ Linked(link, clients')
        /\ DOMAIN clients' = DOMAIN clients
        /\ \A g \in DOMAIN clients : clients'[g].peer = clients[g].peer
    BY <1>1, <1>2, <1>8, <2>1, RenewParts
  <2>4. events' \in Seq(EventRecord) /\ Len(events') = Len(events) + 1
    BY <1>3, <1>8, <2>2, AppendProperties DEF Typed
  <2>5. Typed'
    BY <1>1, <1>2, <1>3, <1>8, <2>1a, <2>4 DEF Typed
  <2>6. Alarm'
    BY <1>2, <1>8 DEF Alarm
  <2>7. Batch(events', next', clients', backlog')
    <3>1. /\ \A j \in (next + 1)..Len(events) : events[j].kind = "client" =>
              /\ events[j].fd \in DOMAIN clients'
              /\ clients'[events[j].fd].peer = clients[events[j].fd].peer
          /\ \A j \in (next + 1)..Len(events) : events[j].kind = "listen" => backlog # <<>>
      BY <1>2, <2>3 DEF Batch
    <3>2. Batch(events, next + 1, clients', backlog)
      BY <1>2, <3>1, BatchNext
    <3>3. Batch(Append(events, e), next + 1, clients', backlog)
      <4>1. next + 1 \in 1..(Len(events) + 1) /\ events \in Seq(EventRecord)
        BY <1>2, <1>3 DEF Typed
      <4>2. clients'[f].peer = p /\ f \in DOMAIN clients'
        BY <1>2, <2>2a, <2>3
      <4>3. QED
        BY <1>2, <2>2, <3>2, <4>1, <4>2, BatchAppend
    <3>4. QED
      BY <1>1, <1>8, <3>3
  <2>8. QED
    BY <1>1, <1>2, <1>3, <1>8, <2>3, <2>5, <2>6, <2>7 DEF IInv
<1>9. QED
  BY <1>5, <1>6, <1>7, <1>8 DEF OnReadable, AfterUse

\* A link with other flags, in the same state
LEMMA LinkFlags ==
    ASSUME NEW lk \in [Peer -> LinkRecord], NEW p \in Peer, NEW r \in LinkRecord, NEW l1,
           l1 = [lk EXCEPT ![p] = r], r.state = lk[p].state
    PROVE  /\ l1 \in [Peer -> LinkRecord] /\ l1[p] = r
           /\ \A q \in Peer : q # p => l1[q] = lk[q]
           /\ \A q \in Peer : l1[q].state = lk[q].state
OBVIOUS

\* What was written is shifted out of the buffer and is in the socket
LEMMA WriteFits ==
    ASSUME NEW b \in Seq(Nat), Len(b) <= BufferSize, NEW n \in 0..Len(b)
    PROVE  /\ Shl(b, n) \in Seq(Nat) /\ Len(Shl(b, n)) <= BufferSize
           /\ SubSeq(b, 1, n) \in Seq(Nat) /\ Len(SubSeq(b, 1, n)) = n
<1>1. Len(b) \in Nat /\ BufferSize \in Nat /\ \A i \in 1..Len(b) : b[i] \in Nat
  BY LenProperties, ElementOfSeq, ServerAssumption
<1>2. SubSeq(b, 1, n) \in Seq(Nat) /\ Len(SubSeq(b, 1, n)) = n
  BY <1>1, SubSeqProperties
<1>3. /\ SubSeq(b, n + 1, Len(b)) \in Seq(Nat)
      /\ Len(SubSeq(b, n + 1, Len(b))) = IF n + 1 <= Len(b) THEN Len(b) - (n + 1) + 1 ELSE 0
  BY <1>1, SubSeqProperties
<1>4. QED
  BY <1>1, <1>2, <1>3 DEF Shl

\* Room for output: what is stored is sent on
LEMMA OnWritableStep ==
    ASSUME IInv, OnWritable
    PROVE  IInv'
<1> DEFINE f == events[next].fd
           c == clients[f]
           p == c.peer
           room == SocketCap - Len(toPeer[p])
           n == IF Len(c.buffer) < room THEN Len(c.buffer) ELSE room
           r == [link[p] EXCEPT !.rst = TRUE]
<1>1. /\ UNCHANGED <<events, expired, wake, backlog, toServer, now, lag, sent, received>>
      /\ AtEvent("client")
  BY DEF OnWritable, clockVars, peerVars
<1>2. /\ pc = "events" /\ next \in 1..Len(events) /\ Len(events) \in Nat
      /\ Batch(events, next, clients, backlog)
      /\ f \in DOMAIN clients /\ p = events[next].peer
      /\ \A j \in (next + 1)..Len(events) : events[j].kind = "client" => events[j].fd # f
  BY <1>1, CurrentEvent
<1>3. /\ Typed /\ Held(dc, clients, NewDeadline) /\ Waiting(backlog, link)
      /\ Roomy(clients) /\ Linked(link, clients)
      /\ c \in ClientRecord /\ p \in Peer
  BY <1>2, ClientFields DEF IInv, Held
<1>4. CASE /\ pc' = IF link[p].rst /\ link[p].fin THEN "killed" ELSE "unwind"
           /\ UNCHANGED <<clients, dc, next, ready, link, toPeer>>
  <2>1. Typed' /\ Alarm'
    BY <1>1, <1>3, <1>4 DEF Typed, Alarm
  <2>2. QED
    BY <1>1, <1>4, <2>1, QuietStep
<1>5. CASE /\ ~link[p].rst /\ (n > 0 \/ c.buffer = <<>>)
           /\ dc' = Update(dc, c.it, NewDeadline)
           /\ clients' = AfterUse(clients, f, Shl(c.buffer, n), NewDeadline)
           /\ IF link[p].left /\ n > 0
              THEN /\ link' = [link EXCEPT ![p] = r]
                   /\ ready' = ready \cup {p}
                   /\ UNCHANGED toPeer
              ELSE /\ toPeer' = [toPeer EXCEPT ![p] = @ \o SubSeq(c.buffer, 1, n)]
                   /\ UNCHANGED <<link, ready>>
           /\ next' = next + 1
           /\ pc' = pc
  <2>1. c.buffer \in Seq(Nat) /\ Len(c.buffer) \in Nat /\ Len(c.buffer) <= BufferSize
    BY <1>2, <1>3, ClientFields, LenProperties DEF Roomy
  <2>2. n \in 0..Len(c.buffer) /\ n <= SocketCap - Len(toPeer[p])
    <3>1. toPeer[p] \in Seq(Nat) /\ Len(toPeer[p]) <= SocketCap
      BY <1>3 DEF Typed, SocketBytes
    <3>2. SocketCap \in Nat /\ Len(toPeer[p]) \in Nat
      BY <3>1, ServerAssumption, LenProperties
    <3>3. room \in Nat
      BY <3>1, <3>2
    <3>4. ASSUME NEW i \in Nat, NEW j \in Nat
          PROVE  (IF i < j THEN i ELSE j) \in 0..i /\ (IF i < j THEN i ELSE j) <= j
      OBVIOUS
    <3>5. QED
      BY <2>1, <3>3, <3>4
  <2> HIDE DEF room, n
  <2>3. /\ Shl(c.buffer, n) \in Seq(Nat) /\ Len(Shl(c.buffer, n)) <= BufferSize
        /\ SubSeq(c.buffer, 1, n) \in Seq(Nat) /\ Len(SubSeq(c.buffer, 1, n)) = n
    BY <2>1, <2>2, WriteFits
  <2>4. /\ Held(dc', clients', NewDeadline') /\ Roomy(clients') /\ Linked(link, clients')
        /\ DOMAIN clients' = DOMAIN clients
        /\ \A g \in DOMAIN clients : clients'[g].peer = clients[g].peer
    BY <1>1, <1>2, <1>5, <2>3, RenewParts
  <2>5. /\ Linked(link', clients') /\ Waiting(backlog, link')
        /\ ready' \subseteq Peer /\ toPeer' \in [Peer -> SocketBytes]
    <3>1. CASE link[p].left /\ n > 0
      <4>0. link \in [Peer -> LinkRecord] /\ link[p] \in LinkRecord
        BY <1>3 DEF Linked
      <4>0a. r \in LinkRecord
        BY <4>0, Zenon DEF LinkRecord
      <4>1. r.state = link[p].state /\ r.left = link[p].left /\ r.rst
        BY <4>0 DEF LinkRecord
      <4>1a. link' = [link EXCEPT ![p] = r] /\ link[p].left
        BY <1>5, <3>1
      <4> HIDE DEF r
      <4>2. /\ link' \in [Peer -> LinkRecord] /\ link'[p] = r
            /\ \A q \in Peer : q # p => link'[q] = link[q]
            /\ \A q \in Peer : link'[q].state = link[q].state
        BY <1>3, <4>0, <4>0a, <4>1, <4>1a, LinkFlags
      <4>3. \A q \in Peer : /\ link'[q].rst => link'[q].left
                            /\ link'[q].left => link'[q].fin \/ link'[q].rst
        BY <1>3, <4>1, <4>1a, <4>2 DEF Linked
      <4>4. Linked(link', clients')
        BY <2>4, <4>2, <4>3, LinkedMove
      <4>5. Waiting(backlog, link')
        BY <1>3, <4>2, WaitingSame
      <4>6. QED
        BY <1>3, <1>5, <3>1, <4>4, <4>5 DEF Typed
    <3>2. CASE ~(link[p].left /\ n > 0)
      <4>1. /\ toPeer' = [toPeer EXCEPT ![p] = @ \o SubSeq(c.buffer, 1, n)]
            /\ link' = link /\ ready' = ready
        BY <1>5, <3>2
      <4>2. toPeer[p] \o SubSeq(c.buffer, 1, n) \in SocketBytes
        <5>1. toPeer[p] \in Seq(Nat) /\ Len(toPeer[p]) \in Nat /\ SocketCap \in Nat
          BY <1>3, ServerAssumption, LenProperties DEF Typed, SocketBytes
        <5>2. /\ toPeer[p] \o SubSeq(c.buffer, 1, n) \in Seq(Nat)
              /\ Len(toPeer[p] \o SubSeq(c.buffer, 1, n)) = Len(toPeer[p]) + n
          BY <2>3, <5>1, ConcatProperties
        <5>3. QED
          <6>1. ASSUME NEW i \in Nat, NEW j \in Int, j <= SocketCap - i
                PROVE  i + j <= SocketCap
            BY <5>1, <6>1
          <6>2. n \in Int
            BY <2>1, <2>2
          <6>3. Len(toPeer[p]) + n <= SocketCap
            BY <2>2, <5>1, <6>1, <6>2
          <6>4. QED
            BY <5>2, <6>3 DEF SocketBytes
      <4>3. toPeer' \in [Peer -> SocketBytes]
        BY <1>3, <4>1, <4>2 DEF Typed
      <4>4. QED
        BY <1>3, <2>4, <4>1, <4>3 DEF Typed
    <3>3. QED
      BY <3>1, <3>2
  <2>5a. next' = next + 1 /\ pc' = pc
    BY <1>5
  <2>6. Typed'
    BY <1>1, <1>2, <1>3, <2>5, <2>5a DEF Typed
  <2>7. Alarm'
    BY <1>2, <2>5a DEF Alarm
  <2>8. Batch(events', next', clients', backlog')
    <3>1. /\ \A j \in (next + 1)..Len(events) : events[j].kind = "client" =>
              /\ events[j].fd \in DOMAIN clients'
              /\ clients'[events[j].fd].peer = clients[events[j].fd].peer
          /\ \A j \in (next + 1)..Len(events) : events[j].kind = "listen" => backlog # <<>>
      BY <1>2, <2>4 DEF Batch
    <3>2. Batch(events, next + 1, clients', backlog)
      BY <1>2, <3>1, BatchNext
    <3>3. QED
      BY <1>1, <2>5a, <3>2
  <2>9. QED
    BY <1>1, <1>2, <2>5a, <2>4, <2>5, <2>6, <2>7, <2>8 DEF IInv
<1>6. QED
  BY <1>4, <1>5 DEF OnWritable, AfterUse

-----------------------------------------------------------------------------
(* The steps of the peers.                                                 *)

\* A peer changes the state of its own connection only
LEMMA PeerParts ==
    ASSUME IInv, UNCHANGED serverVars, wake' = wake, now' = now, lag' = lag,
           Linked(link', clients), Waiting(backlog', link'),
           backlog # <<>> => backlog' # <<>>,
           ready' \subseteq Peer,
           toServer' \in [Peer -> Seq(Nat)], toPeer' \in [Peer -> SocketBytes],
           received' \in [Peer -> Seq(Nat)], sent' \in [Peer -> Nat]
    PROVE  IInv'
<1>1. UNCHANGED <<pc, clients, dc, events, next, expired>>
  BY DEF serverVars
<1>2. Typed' /\ Alarm'
  BY <1>1 DEF IInv, Typed, Alarm
<1>3. NewDeadline' = NewDeadline
  BY DEF NewDeadline
<1>4. pc = "events" => Batch(events, next, clients, backlog')
  BY DEF IInv, Batch
<1>5. QED
  BY <1>1, <1>2, <1>3, <1>4 DEF IInv

\* The ready list holds peers
LEMMA NotifiedPeers ==
    ASSUME IInv, NEW p \in Peer
    PROVE  Notified(p) \subseteq Peer
BY DEF IInv, Typed, Notified

\* A peer joins the backlog
LEMMA ConnectStep ==
    ASSUME IInv, NEW p \in Peer, Connect(p)
    PROVE  IInv'
<1>1. /\ link[p].state = "none" /\ link' = [link EXCEPT ![p].state = "queued"]
      /\ backlog' = Append(backlog, p)
      /\ UNCHANGED serverVars
      /\ UNCHANGED <<wake, ready, toServer, toPeer, now, lag, sent, received>>
  BY DEF Connect, clockVars, peerVars
<1>2. Typed /\ Linked(link, clients) /\ Waiting(backlog, link)
  BY DEF IInv
<1>2a. link \in [Peer -> LinkRecord] /\ link' = [link EXCEPT ![p].state = "queued"]
  BY <1>1, <1>2 DEF Linked
<1>3. /\ link' \in [Peer -> LinkRecord]
      /\ link'[p].state = "queued" /\ link'[p].fin = link[p].fin
      /\ link'[p].left = link[p].left /\ link'[p].rst = link[p].rst
      /\ \A q \in Peer : q # p => link'[q] = link[q]
  BY <1>2a, LinkState
<1>4. Linked(link', clients)
  <2>1. \A q \in Peer : link'[q].state = "accepted" <=> link[q].state = "accepted"
    BY <1>1, <1>3
  <2>2. \A q \in Peer : /\ link'[q].rst => link'[q].left
                        /\ link'[q].left => link'[q].fin \/ link'[q].rst
    BY <1>2, <1>3 DEF Linked
  <2>3. QED
    BY <1>2, <1>3, <2>1, <2>2, LinkedMove
<1>5. Waiting(backlog', link')
  <2>1. link[p].state # "queued" /\ \A q \in Peer : q # p => link'[q].state = link[q].state
    BY <1>1, <1>3
  <2>2. Waiting(Append(backlog, p), link')
    BY <1>2, <1>3, <2>1, WaitingAppend
  <2>3. QED
    BY <1>1, <2>2
<1>6. backlog' # <<>>
  BY <1>1, <1>2, AppendProperties DEF Waiting
<1>7. QED
  BY <1>1, <1>2, <1>4, <1>5, <1>6, PeerParts DEF Typed

\* A peer writes to its connection
LEMMA SendStep ==
    ASSUME IInv, NEW p \in Peer, NEW k \in 1..MaxSend, Send(p, k)
    PROVE  IInv'
<1> DEFINE s == [j \in 1..k |-> sent[p] + j]
<1>1. /\ toServer' = [toServer EXCEPT ![p] = @ \o s]
      /\ sent' = [sent EXCEPT ![p] = @ + k]
      /\ ready' = Notified(p)
      /\ UNCHANGED serverVars
      /\ UNCHANGED <<wake, backlog, link, toPeer, now, lag, received>>
  BY DEF Send, clockVars
<1>2. Typed /\ Linked(link, clients) /\ Waiting(backlog, link)
  BY DEF IInv
<1>3. sent[p] \in Nat /\ toServer[p] \in Seq(Nat) /\ k \in Nat
  BY <1>2, ServerAssumption DEF Typed
<1>4. s \in Seq(Nat)
  BY <1>3
<1> HIDE DEF s
<1>5. toServer[p] \o s \in Seq(Nat)
  BY <1>3, <1>4, ConcatProperties
<1>6. toServer' \in [Peer -> Seq(Nat)]
  BY <1>1, <1>2, <1>5 DEF Typed
<1>7. sent' \in [Peer -> Nat]
  BY <1>1, <1>2, <1>3 DEF Typed
<1>8. ready' \subseteq Peer
  BY <1>1, NotifiedPeers
<1>9. QED
  BY <1>1, <1>2, <1>6, <1>7, <1>8, PeerParts DEF Typed

\* A peer reads what has arrived
LEMMA ReceiveStep ==
    ASSUME IInv, NEW p \in Peer, Receive(p)
    PROVE  IInv'
<1>1. /\ toPeer[p] # <<>>
      /\ received' = [received EXCEPT ![p] = Append(@, Head(toPeer[p]))]
      /\ toPeer' = [toPeer EXCEPT ![p] = Tail(@)]
      /\ ready' = Notified(p) \/ ready' = ready
      /\ UNCHANGED serverVars
      /\ UNCHANGED <<wake, backlog, link, toServer, now, lag, sent>>
  BY DEF Receive, clockVars
<1>2. Typed /\ Linked(link, clients) /\ Waiting(backlog, link)
  BY DEF IInv
<1>2a. toPeer[p] \in Seq(Nat) /\ Len(toPeer[p]) <= SocketCap /\ SocketCap \in Nat
  BY <1>2, ServerAssumption DEF Typed, SocketBytes
<1>3. /\ Head(toPeer[p]) \in Nat /\ Tail(toPeer[p]) \in SocketBytes
      /\ Append(received[p], Head(toPeer[p])) \in Seq(Nat)
  BY <1>1, <1>2, <1>2a, HeadTailProperties, AppendProperties, LenProperties DEF Typed, SocketBytes
<1>4. toPeer' \in [Peer -> SocketBytes] /\ received' \in [Peer -> Seq(Nat)]
  BY <1>1, <1>2, <1>3 DEF Typed
<1>5. ready' \subseteq Peer
  BY <1>1, <1>2, NotifiedPeers DEF Typed
<1>6. QED
  BY <1>1, <1>2, <1>4, <1>5, PeerParts DEF Typed

\* shutdown, close and a reset
LEMMA EndStep ==
    ASSUME IInv, NEW p \in Peer, Shutdown(p) \/ Close(p) \/ Reset(p)
    PROVE  IInv'
<1> DEFINE r1 == [link[p] EXCEPT !.fin = TRUE]
           r2 == [link[p] EXCEPT !.fin = TRUE, !.left = TRUE]
           r3 == [link[p] EXCEPT !.rst = TRUE, !.left = TRUE]
<1>1. /\ \E r \in {r1, r2, r3} : link' = [link EXCEPT ![p] = r]
      /\ toPeer' = toPeer \/ toPeer' = [toPeer EXCEPT ![p] = <<>>]
      /\ ready' = Notified(p)
      /\ UNCHANGED serverVars
      /\ UNCHANGED <<wake, backlog, toServer, now, lag, sent, received>>
  BY DEF Shutdown, Close, Reset, clockVars, peerVars
<1>2. Typed /\ Linked(link, clients) /\ Waiting(backlog, link)
  BY DEF IInv
<1>3. PICK r \in {r1, r2, r3} : link' = [link EXCEPT ![p] = r]
  BY <1>1
<1>3a. link \in [Peer -> LinkRecord] /\ link[p] \in LinkRecord
  BY <1>2 DEF Linked
<1>3b. r1 \in LinkRecord /\ r2 \in LinkRecord /\ r3 \in LinkRecord
  BY <1>3a, Zenon DEF LinkRecord
<1>3c. /\ r1.state = link[p].state /\ r2.state = link[p].state /\ r3.state = link[p].state
       /\ r1.rst = link[p].rst /\ r1.left = link[p].left /\ r1.fin
       /\ r2.fin /\ r2.left /\ r3.rst /\ r3.left
  BY <1>3a DEF LinkRecord
<1>3d. link[p].rst => link[p].left
  BY <1>2 DEF Linked
<1>4. /\ r \in LinkRecord /\ r.state = link[p].state
      /\ (r.rst => r.left) /\ (r.left => r.fin \/ r.rst)
  BY <1>3, <1>3b, <1>3c, <1>3d
<1> HIDE DEF r1, r2, r3
<1>5. /\ link' \in [Peer -> LinkRecord] /\ link'[p] = r
      /\ \A q \in Peer : q # p => link'[q] = link[q]
      /\ \A q \in Peer : link'[q].state = link[q].state
  BY <1>3, <1>3a, <1>4, LinkFlags
<1>6. \A q \in Peer : /\ link'[q].rst => link'[q].left
                      /\ link'[q].left => link'[q].fin \/ link'[q].rst
  BY <1>2, <1>4, <1>5 DEF Linked
<1>7. Linked(link', clients)
  BY <1>2, <1>5, <1>6, LinkedMove
<1>8. Waiting(backlog, link')
  BY <1>2, <1>5, WaitingSame
<1>9. toPeer' \in [Peer -> SocketBytes] /\ ready' \subseteq Peer
  BY <1>1, <1>2, NoBytes, NotifiedPeers DEF Typed
<1>10. QED
  BY <1>1, <1>2, <1>7, <1>8, <1>9, PeerParts DEF Typed

-----------------------------------------------------------------------------
(* The invariant holds, and what it says.                                  *)

\* The server starts with no client and no connection
LEMMA InitInv == Init => IInv
<1> SUFFICES ASSUME Init PROVE IInv
  OBVIOUS
<1>1. DOMAIN clients = {} /\ dc = NewContainer /\ pc = "top" /\ backlog = <<>>
  BY DEF Init
<1>2. NoLink \in LinkRecord /\ NoLink.state = "none" /\ ~NoLink.left /\ ~NoLink.rst
  <2>1. NoLink \in LinkRecord
    BY Zenon DEF NoLink, LinkRecord
  <2>2. QED
    BY <2>1 DEF NoLink
<1>3. \A p \in Peer : link[p] = NoLink
  BY DEF Init
<1>4. link \in [Peer -> LinkRecord]
  BY <1>2 DEF Init
<1>5. Linked(link, clients)
  BY <1>1, <1>2, <1>3, <1>4 DEF Linked
<1>6. Waiting(backlog, link)
  BY <1>1, EmptySeq DEF Waiting
<1>7. \A x : ~InQueue(dc, x)
  BY <1>1 DEF InQueue, NewContainer
<1>8. clients \in [DOMAIN clients -> ClientRecord]
  BY DEF Init
<1>9. Held(dc, clients, NewDeadline)
  BY <1>1, <1>7, <1>8, NewContainerGood, HeldFrom
<1>10. events \in Seq(EventRecord) /\ Len(events) = 0
  BY EmptySeq DEF Init
<1>11. now \in 0..MaxTime /\ lag \in 0..MaxLag
  BY ServerAssumption DEF Init
<1>12. Typed
  BY <1>10, <1>11, NoBytes DEF Init, Typed
<1>13. Roomy(clients) /\ Alarm
  BY <1>1 DEF Roomy, Alarm
<1>14. QED
  BY <1>1, <1>5, <1>6, <1>9, <1>12, <1>13 DEF IInv

\* Every step of the server, the peers and the clock keeps the invariant
LEMMA NextInv == IInv /\ [Next]_vars => IInv'
<1> SUFFICES ASSUME IInv, [Next]_vars PROVE IInv'
  OBVIOUS
<1>1. CASE StartSleeping
  BY <1>1, StartSleepingStep
<1>2. CASE WakeUp
  BY <1>2, WakeUpStep
<1>3. CASE TimeOut
  BY <1>3, TimeOutStep
<1>4. CASE ExpireOne
  BY <1>4, ExpireOneStep
<1>5. CASE ExpireDone \/ EventsDone \/ OnSignal \/ UnwindDone \/ Signal
  BY <1>5, TurnStep
<1>6. CASE OnListen
  BY <1>6, OnListenStep
<1>7. CASE OnReadable
  BY <1>7, OnReadableStep
<1>8. CASE OnWritable
  BY <1>8, OnWritableStep
<1>9. CASE UnwindOne
  BY <1>9, UnwindOneStep
<1>10. CASE Tick
  BY <1>10, TickStep
<1>11. CASE PeerStep
  <2>1. PICK p \in Peer : \/ Connect(p)
                          \/ \E k \in 1..MaxSend : Send(p, k)
                          \/ Receive(p)
                          \/ Shutdown(p) \/ Close(p) \/ Reset(p)
    BY <1>11 DEF PeerStep
  <2>2. QED
    BY <2>1, ConnectStep, SendStep, ReceiveStep, EndStep
<1>12. CASE UNCHANGED vars
  <2>1. /\ UNCHANGED <<pc, clients, dc, events, next, expired, wake, backlog, ready, link>>
        /\ UNCHANGED <<toServer, toPeer, now, lag, sent, received>>
    BY <1>12 DEF vars, serverVars, kernelVars, clockVars, peerVars
  <2>2. Typed' /\ Alarm'
    BY <2>1 DEF IInv, Typed, Alarm
  <2>3. QED
    BY <2>1, <2>2, QuietStep DEF IInv
<1>13. QED
  BY <1>1, <1>2, <1>3, <1>4, <1>5, <1>6, <1>7, <1>8, <1>9, <1>10, <1>11, <1>12
  DEF Next, ServerStep

\* The inductive invariant holds in every state
THEOREM InvariantHolds == Spec => []IInv
<1>1. QED
  BY InitInv, NextInv, PTL DEF Spec

\* What the invariant implies
LEMMA InvMeaning ==
    ASSUME IInv
    PROVE  TypeOK /\ SourceOfTruth /\ EventsFresh /\ BufferFits /\ DeadlinesInOrder
<1>1. /\ Typed /\ Held(dc, clients, NewDeadline) /\ Roomy(clients) /\ Linked(link, clients)
      /\ pc = "events" => Batch(events, next, clients, backlog)
  BY DEF IInv
<1>2. ContainerType(dc) /\ Consistent(dc)
  BY <1>1, GoodContainerSuffices DEF Held
<1>3. /\ DOMAIN clients \subseteq Fd
      /\ \A f \in DOMAIN clients : clients[f].peer \in Peer /\ clients[f].it \in Wrapper
  BY <1>1, ClientFields DEF Held
<1>4. \A p \in Peer : link[p].state \in {"none", "queued", "accepted", "closed"}
  BY <1>1 DEF Linked, LinkRecord
<1>5. TypeOK
  BY <1>1, <1>2, <1>3, <1>4 DEF TypeOK, Typed
<1>6. SourceOfTruth
  BY <1>1, <1>2 DEF SourceOfTruth, Held, Linked
<1>7. EventsFresh
  BY <1>1 DEF EventsFresh, Batch
<1>8. BufferFits
  BY <1>1 DEF BufferFits, Roomy
<1>9. NewDeadline \in Nat
  BY <1>1, Times DEF Typed, NewDeadline
<1>10. DeadlinesInOrder
  BY <1>1, <1>9, HeldNotBefore DEF DeadlinesInOrder
<1>11. QED
  BY <1>5, <1>6, <1>7, <1>8, <1>10

\* The variables of the server and of the kernel's side keep their types
THEOREM ServerTypes == Spec => []TypeOK
<1>1. IInv => TypeOK
  BY InvMeaning
<1>2. QED
  BY <1>1, InvariantHolds, PTL

\* Map, container and connections are about the same clients in every state, also
\* between two destructors of an expiry or an unwinding (echo_server.cpp:55)
THEOREM ServerTruth == Spec => []SourceOfTruth
<1>1. IInv => SourceOfTruth
  BY InvMeaning
<1>2. QED
  BY <1>1, InvariantHolds, PTL

\* Every event is handled for the client it was reported for, although clients are
\* dropped and descriptors reused within a batch (echo_server.cpp:96)
THEOREM ServerEventsFresh == Spec => []EventsFresh
<1>1. IInv => EventsFresh
  BY InvMeaning
<1>2. QED
  BY <1>1, InvariantHolds, PTL

\* No read goes past the end of a storing buffer (storing_client.cpp:71)
THEOREM ServerBufferFits == Spec => []BufferFits
<1>1. IInv => BufferFits
  BY InvMeaning
<1>2. QED
  BY <1>1, InvariantHolds, PTL

\* No call of add or update passes a deadline earlier than one in its queue, however much
\* time passes while the server works: the queues stay sorted (deadline_container.cpp:45,
\* 55).  The deadline may equal one, which the header forbids
THEOREM ServerDeadlinesInOrder == Spec => []DeadlinesInOrder
<1>1. IInv => DeadlinesInOrder
  BY InvMeaning
<1>2. QED
  BY <1>1, InvariantHolds, PTL

\* A container that is good and holds no node is a new one
LEMMA NoNodesLeft ==
    ASSUME NEW d, GoodContainer(d), \A x : ~InQueue(d, x)
    PROVE  d = NewContainer
<1>1. DOMAIN d.timeouts = {}
  <2>1. SUFFICES ASSUME NEW t \in DOMAIN d.timeouts PROVE FALSE
    OBVIOUS
  <2>2. GoodQueue(d.timeouts[t], t) /\ Len(d.timeouts[t]) > 0
    BY DEF GoodContainer, GoodQueues
  <2>3. InQueue(d, d.timeouts[t][1])
    BY <2>2, LenProperties DEF GoodQueue, InQueue
  <2>4. QED
    BY <2>3
<1>2. d.timeouts = [t \in {} |-> <<>>]
  BY <1>1 DEF GoodContainer, GoodQueues
<1>3. DOMAIN HeadOf(d.timeouts) = {}
  BY <1>1 DEF HeadOf
<1>4. d.multimap_iterators = [t \in {} |-> <<>>]
  BY <1>3 DEF GoodContainer, GoodIndex
<1>5. d.deadlines = <<>>
  <2>1. d.deadlines \in Seq(Entry) /\ Len(d.deadlines) \in Nat
    BY LenProperties DEF GoodContainer, GoodIndex
  <2>2. \A i \in 1..Len(d.deadlines) : FALSE
    BY <1>3 DEF GoodContainer, GoodIndex
  <2>3. Len(d.deadlines) = 0
    BY <2>1, <2>2
  <2>4. QED
    BY <2>1, <2>3, EmptySeq
<1>6. QED
  BY <1>2, <1>4, <1>5 DEF GoodContainer, NewContainer

\* A server that has stopped has destroyed every client, emptied the container and
\* closed every connection it had accepted (echo_server.cpp, the unwinding of start)
THEOREM ServerCleanStop == Spec => []CleanStop
<1>1. IInv => CleanStop
  <2>1. SUFFICES ASSUME IInv, pc = "stopped"
                 PROVE  /\ clients = [f \in {} |-> <<>>] /\ dc = NewContainer
                        /\ \A p \in Peer : link[p].state # "accepted"
    BY DEF CleanStop
  <2>2. DOMAIN clients = {} /\ Held(dc, clients, NewDeadline) /\ Linked(link, clients)
    BY <2>1 DEF IInv
  <2>3. clients = [f \in {} |-> <<>>]
    BY <2>2 DEF Held
  <2>4. \A x : ~InQueue(dc, x)
    BY <2>2, HeldNode
  <2>5. dc = NewContainer
    BY <2>2, <2>4, NoNodesLeft DEF Held
  <2>6. \A p \in Peer : link[p].state # "accepted"
    BY <2>2 DEF Linked
  <2>7. QED
    BY <2>3, <2>5, <2>6
<1>2. QED
  BY <1>1, InvariantHolds, PTL

-----------------------------------------------------------------------------
(* Expiry.                                                                 *)

\* While the server expires clients, nothing but the loop's own steps changes the
\* clients or ends the loop
LEMMA ExpireSteps ==
    ASSUME pc = "expire", [Next]_vars
    PROVE  ExpireOne \/ ExpireDone \/ (clients' = clients /\ pc' = pc)
<1>1. CASE ServerStep
  BY <1>1 DEF ServerStep, StartSleeping, WakeUp, TimeOut, TimeoutDue, OnListen, OnSignal,
              OnReadable, OnWritable, EventsDone, UnwindOne, UnwindDone, AtEvent
<1>2. CASE PeerStep
  BY <1>2 DEF PeerStep, Connect, Send, Receive, Shutdown, Close, Reset, serverVars
<1>3. CASE Signal \/ Tick
  BY <1>3 DEF Signal, Tick, serverVars
<1>4. CASE UNCHANGED vars
  BY <1>4 DEF vars, serverVars
<1>5. QED
  BY <1>1, <1>2, <1>3, <1>4 DEF Next

\* Expiry drops no client whose deadline is still to come (echo_server.cpp:70)
THEOREM ServerNoEarlyExpiry == Spec => NoEarlyExpiry
<1>1. ASSUME IInv, [Next]_vars, pc = "expire", NEW f \in DOMAIN clients \ DOMAIN clients'
      PROVE  clients[f].it.deadline <= now
  <2>1. ExpireOne
    <3>1. clients' # clients
      BY <1>1
    <3>2. ExpireDone => clients' = clients
      BY DEF ExpireDone
    <3>3. QED
      BY <1>1, <3>1, <3>2, ExpireSteps
  <2>2. clients[f].it.deadline = expired
    BY <1>1, <2>1, ExpireOneStep
  <2>3. expired <= now
    BY <1>1 DEF IInv, Alarm
  <2>4. QED
    BY <2>2, <2>3
<1>2. IInv /\ [Next]_vars =>
          [pc = "expire" =>
              \A f \in DOMAIN clients \ DOMAIN clients' : clients[f].it.deadline <= now]_vars
  BY <1>1
<1>3. QED
  BY <1>2, InvariantHolds, PTL DEF Spec, NoEarlyExpiry

\* When the loop is over, all clients that were due are gone
THEOREM ServerExpiryComplete == Spec => ExpiryComplete
<1>1. ASSUME IInv, [Next]_vars, pc = "expire", pc' = "top", NEW f \in DOMAIN clients'
      PROVE  clients'[f].it.deadline > expired
  <2>1. ExpireDone
    <3>1. ExpireOne => pc' = pc
      BY DEF ExpireOne
    <3>2. QED
      BY <1>1, <3>1, ExpireSteps
  <2>2. clients' = clients /\ (IsEmpty(dc) \/ GetMin(dc).deadline # expired)
    BY <2>1 DEF ExpireDone, MoreExpired
  <2>3. Held(dc, clients, NewDeadline) /\ Alarm /\ expired \in Nat
    BY <1>1 DEF IInv, Typed
  <2>4. ~IsEmpty(dc)
    BY <1>1, <2>2, <2>3, EmptyMeansNone
  <2>5. /\ GetMin(dc).client \in DOMAIN clients
        /\ clients[GetMin(dc).client].it = GetMin(dc)
        /\ GetMin(dc).deadline \in Nat
        /\ GetMin(dc).deadline <= clients[f].it.deadline
    BY <1>1, <2>2, <2>3, <2>4, LeastClient
  <2>6. expired <= GetMin(dc).deadline
    BY <1>1, <2>3, <2>5 DEF Alarm
  <2>7. clients[f].it.deadline \in Nat
    BY <1>1, <2>2, <2>3, ClientFields, WrapperFields DEF Held
  <2>8. QED
    BY <2>2, <2>3, <2>4, <2>5, <2>6, <2>7
<1>2. IInv /\ [Next]_vars =>
          [pc = "expire" /\ pc' = "top" =>
              \A f \in DOMAIN clients' : clients'[f].it.deadline > expired]_vars
  BY <1>1
<1>3. QED
  BY <1>2, InvariantHolds, PTL DEF Spec, ExpiryComplete

-----------------------------------------------------------------------------
(* The array of events.                                                    *)

\* Of the events es, those from the k-th on after which the loop may add one
ReadEvents(es, k) == {j \in k..Len(es) : es[j].kind = "client" /\ es[j].in}

ToRead == ReadEvents(events, next)

\* There is room for one more event per event still to be read for
EventsRoom ==
    /\ Len(events) <= 2 * Cardinality(Fd) + 2
    /\ pc = "events" => Len(events) + Cardinality(ToRead) <= 2 * Cardinality(Fd) + 2

\* The events to read for are finitely many
LEMMA ToReadFinite ==
    ASSUME NEW es \in Seq(EventRecord), NEW k \in 1..(Len(es) + 1)
    PROVE  IsFiniteSet(ReadEvents(es, k)) /\ Cardinality(ReadEvents(es, k)) \in Nat
<1>1. k \in Int /\ Len(es) \in Int
  BY LenProperties
<1>2. IsFiniteSet(k..Len(es))
  BY <1>1, FS_Interval
<1>3. IsFiniteSet(ReadEvents(es, k))
  BY <1>2, FS_Subset DEF ReadEvents
<1>4. QED
  BY <1>3, FS_CardinalityType

\* What a step may do to the array
LEMMA EventsSteps ==
    ASSUME IInv, [Next]_vars
    PROVE  \/ events' = events /\ (pc' = "events" => pc = "events" /\ next' \in {next, next + 1})
           \/ WakeUp
           \/ events' = <<>> /\ pc' # "events"
           \/ /\ AtEvent("client") /\ events[next].in /\ next' = next + 1 /\ pc' = pc
              /\ \E f, p : events' = Append(events, WriteEvent(f, p))
<1>1. CASE StartSleeping \/ TimeOut \/ ExpireOne \/ ExpireDone \/ EventsDone \/ OnSignal
           \/ UnwindOne \/ UnwindDone
  BY <1>1 DEF StartSleeping, TimeOut, ExpireOne, ExpireDone, EventsDone, OnSignal,
              UnwindOne, UnwindDone
<1>2. CASE OnListen
  BY <1>2 DEF OnListen, AtEvent
<1>3. CASE OnReadable
  BY <1>3 DEF OnReadable, AtEvent, Drop
<1>4. CASE OnWritable
  <2>1. /\ events' = events /\ pc = "events"
        /\ \/ pc' \in {"killed", "unwind"}
           \/ next' = next + 1
    BY <1>4 DEF OnWritable, AtEvent
  <2>2. QED
    BY <2>1
<1>5. CASE PeerStep
  BY <1>5 DEF PeerStep, Connect, Send, Receive, Shutdown, Close, Reset, serverVars
<1>6. CASE Signal \/ Tick
  BY <1>6 DEF Signal, Tick, serverVars
<1>7. CASE UNCHANGED vars
  BY <1>7 DEF vars, serverVars
<1>8. CASE WakeUp
  BY <1>8
<1>9. QED
  BY <1>1, <1>2, <1>3, <1>4, <1>5, <1>6, <1>7, <1>8 DEF Next, ServerStep

\* One event for each descriptor at most is read for
LEMMA ToReadBound ==
    ASSUME NEW es, NEW k, NEW cs, NEW bl, Batch(es, k, cs, bl), DOMAIN cs \subseteq Fd
    PROVE  Cardinality(ReadEvents(es, k)) <= Cardinality(Fd)
<1> DEFINE S == ReadEvents(es, k)
           g == [j \in S |-> es[j].fd]
<1>1. IsFiniteSet(Fd)
  BY ServerAssumption
<1>2. \A j \in S : es[j].fd \in Fd
  BY DEF ReadEvents, Batch
<1>3. \A i, j \in S : es[i].fd = es[j].fd => i = j
  BY DEF ReadEvents, Batch
<1>4. g \in Injection(S, Fd)
  BY <1>2, <1>3 DEF Injection, IsInjective
<1>5. QED
  BY <1>1, <1>4, FS_Injection

\* A step leaves room for the events to come
LEMMA EventsRoomStep ==
    ASSUME IInv, IInv', EventsRoom, [Next]_vars
    PROVE  EventsRoom'
<1> DEFINE m == 2 * Cardinality(Fd) + 2
<1>1. /\ Cardinality(Fd) \in Nat /\ m \in Nat
      /\ Cardinality(ToRead) \in Nat /\ Len(events) \in Nat
      /\ Cardinality(ToRead') \in Nat /\ Len(events') \in Nat
      /\ IsFiniteSet(ToRead) /\ next \in Nat
  <2>1. Cardinality(Fd) \in Nat
    BY ServerAssumption, FS_CardinalityType
  <2>2. events \in Seq(EventRecord) /\ next \in 1..(Len(events) + 1)
    BY DEF IInv, Typed
  <2>3. events' \in Seq(EventRecord) /\ next' \in 1..(Len(events') + 1)
    BY DEF IInv, Typed
  <2>4. IsFiniteSet(ToRead) /\ Cardinality(ToRead) \in Nat
    BY <2>2, ToReadFinite DEF ToRead, ReadEvents
  <2>5. Cardinality(ReadEvents(events', next')) \in Nat
    BY <2>3, ToReadFinite
  <2>6. Len(events) \in Nat /\ Len(events') \in Nat
    BY <2>2, <2>3, LenProperties
  <2>7. QED
    BY <2>1, <2>2, <2>4, <2>5, <2>6 DEF ToRead
<1>2. CASE events' = events /\ (pc' = "events" => pc = "events" /\ next' \in {next, next + 1})
  <2>1. CASE pc' = "events"
    <3>1. pc = "events" /\ ToRead' \subseteq ToRead
      BY <1>1, <1>2, <2>1 DEF ToRead, ReadEvents
    <3>2. Cardinality(ToRead') <= Cardinality(ToRead)
      BY <1>1, <3>1, FS_Subset
    <3>3. QED
      BY <1>1, <1>2, <3>1, <3>2 DEF EventsRoom
  <2>2. CASE pc' # "events"
    BY <1>2, <2>2 DEF EventsRoom
  <2>3. QED
    BY <2>1, <2>2
<1>3. CASE WakeUp
  <2>1. pc' = "events" /\ events' \in Orders(Pending)
    BY <1>3 DEF WakeUp
  <2>2. Len(events') = Cardinality(Pending)
    <3>1. Cardinality(Pending) \in Nat
      BY PendingFinite
    <3>2. QED
      BY <2>1, <3>1 DEF Orders
  <2>3. Len(events') <= Cardinality(Fd) + 2
    BY <2>2, PendingFinite
  <2>4. Cardinality(ToRead') <= Cardinality(Fd)
    <3>1. Batch(events', next', clients', backlog') /\ DOMAIN clients' \subseteq Fd
      BY <2>1 DEF IInv, Held
    <3>2. Cardinality(ReadEvents(events', next')) <= Cardinality(Fd)
      BY <3>1, ToReadBound
    <3>3. QED
      BY <3>2 DEF ToRead
  <2>5. QED
    BY <1>1, <2>3, <2>4 DEF EventsRoom
<1>4. CASE events' = <<>> /\ pc' # "events"
  <2>1. Len(events') = 0
    BY <1>4
  <2>2. QED
    BY <1>1, <1>4, <2>1 DEF EventsRoom
<1>5. CASE /\ AtEvent("client") /\ events[next].in /\ next' = next + 1 /\ pc' = pc
           /\ \E f, p : events' = Append(events, WriteEvent(f, p))
  <2>1. PICK f, p : events' = Append(events, WriteEvent(f, p))
    BY <1>5
  <2>2. pc = "events" /\ next \in 1..Len(events) /\ events[next].kind = "client"
    BY <1>5, CurrentEvent
  <2>3. events \in Seq(EventRecord) /\ ~WriteEvent(f, p).in
    BY DEF IInv, Typed, WriteEvent, Event
  <2>4. /\ Len(events') = Len(events) + 1
        /\ \A j \in 1..Len(events) : events'[j] = events[j]
        /\ events'[Len(events) + 1] = WriteEvent(f, p)
    BY <2>1, <2>3
  <2>5. next \in ToRead
    BY <1>1, <1>5, <2>2 DEF ToRead, ReadEvents
  <2>6. ASSUME NEW j \in ToRead'
        PROVE  j \in ToRead \ {next}
    <3>1. j \in (next + 1)..(Len(events) + 1) /\ events'[j].kind = "client" /\ events'[j].in
      BY <1>5, <2>4 DEF ToRead, ReadEvents
    <3>2. j # Len(events) + 1
      BY <2>3, <2>4, <3>1
    <3>3. j \in next..Len(events) /\ j # next /\ j \in 1..Len(events)
      BY <1>1, <2>2, <3>1, <3>2
    <3>4. QED
      BY <2>4, <3>1, <3>3 DEF ToRead, ReadEvents
  <2>7. Cardinality(ToRead \ {next}) = Cardinality(ToRead) - 1 /\ IsFiniteSet(ToRead \ {next})
    BY <1>1, <2>5, FS_RemoveElement
  <2>8. Cardinality(ToRead') <= Cardinality(ToRead) - 1
    BY <2>6, <2>7, FS_Subset
  <2>9. QED
    BY <1>1, <2>2, <2>4, <2>8 DEF EventsRoom
<1>6. QED
  BY <1>2, <1>3, <1>4, <1>5, EventsSteps

\* The array never has more than two events per descriptor and two more: what
\* epoll_wait reports and one addition per client (echo_server.cpp:116)
THEOREM ServerEventsBound == Spec => [](Len(events) <= 2 * Cardinality(Fd) + 2)
<1>1. Init => EventsRoom
  <2>1. SUFFICES ASSUME Init PROVE EventsRoom
    OBVIOUS
  <2>2. Len(events) = 0 /\ pc = "top" /\ Cardinality(Fd) \in Nat
    BY <2>1, ServerAssumption, FS_CardinalityType DEF Init
  <2>3. QED
    BY <2>2 DEF EventsRoom
<1>2. IInv /\ IInv' /\ EventsRoom /\ [Next]_vars => EventsRoom'
  BY EventsRoomStep
<1>3. EventsRoom => Len(events) <= 2 * Cardinality(Fd) + 2
  BY DEF EventsRoom
<1>4. QED
  BY <1>1, <1>2, <1>3, InvariantHolds, PTL DEF Spec

-----------------------------------------------------------------------------
(* Punctuality.                                                            *)

\* What a step does to the clients: one is dropped, accepted, read from or written to
LEMMA ClientMoves ==
    ASSUME IInv, [Next]_vars
    PROVE  \/ clients' = clients
           \/ /\ now' = now
              /\ \E f \in DOMAIN clients : clients' = MapErase(clients, f)
           \/ /\ now' = now
              /\ \E f \in Fd \ DOMAIN clients : \E c : c.it.deadline = NewDeadline
                                                        /\ clients' = MapInsert(clients, f, c)
           \/ /\ now' = now
              /\ \E f \in DOMAIN clients, b \in Seq(Nat) :
                     clients' = AfterUse(clients, f, b, NewDeadline)
<1>1. CASE StartSleeping \/ WakeUp \/ TimeOut \/ ExpireDone \/ EventsDone \/ OnSignal \/ UnwindDone
  BY <1>1 DEF StartSleeping, WakeUp, TimeOut, ExpireDone, EventsDone, OnSignal, UnwindDone
<1>2. CASE ExpireOne
  <2>1. Destroy(GetMin(dc).client, dc, clients[GetMin(dc).client].it) /\ ~IsEmpty(dc) /\ now' = now
    BY <1>2 DEF ExpireOne, MoreExpired, clockVars
  <2>2. GetMin(dc).client \in DOMAIN clients
    BY <2>1, LeastClient DEF IInv
  <2>3. QED
    BY <2>1, <2>2 DEF Destroy
<1>3. CASE UnwindOne
  BY <1>3 DEF UnwindOne, clockVars, Destroy
<1>4. CASE OnListen
  <2> DEFINE f == CHOOSE g \in Free : \A h \in Free : g <= h
             n == [timeout |-> ClientTimeout, deadline |-> NewDeadline, client |-> f]
             c == [peer |-> Head(backlog), buffer |-> <<>>, it |-> n]
  <2>1. CASE Free = {}
    BY <1>4, <2>1 DEF OnListen
  <2>2. CASE Free # {}
    <3>1. clients' = MapInsert(clients, f, c) /\ now' = now
      BY <1>4, <2>2 DEF OnListen, clockVars
    <3>2. Free \in SUBSET Nat
      BY ServerAssumption DEF Free
    <3>3. \E g \in Free : \A h \in Free : g <= h
      BY <2>2, <3>2, LeastExists
    <3>4. f \in Free
      BY <3>3
    <3>5. c.it.deadline = NewDeadline
      OBVIOUS
    <3>6. f \in Fd \ DOMAIN clients
      BY <3>4 DEF Free
    <3> HIDE DEF f, c
    <3>7. QED
      BY <3>1, <3>5, <3>6
  <2>3. QED
    BY <2>1, <2>2
<1>5. CASE OnReadable
  <2> DEFINE f == events[next].fd
             c == clients[f]
             n == ReadCount(c.peer)
             b == c.buffer \o SubSeq(toServer[c.peer], 1, n)
  <2>1. AtEvent("client") /\ now' = now
    BY <1>5 DEF OnReadable, clockVars
  <2>2. f \in DOMAIN clients
    BY <2>1, CurrentEvent
  <2>3. \/ clients' = MapErase(clients, f)
        \/ clients' = clients
        \/ ~IsNasty(c) /\ clients' = AfterUse(clients, f, b, NewDeadline)
    BY <1>5 DEF OnReadable, Drop, Destroy, AfterUse
  <2>4. ~IsNasty(c) => b \in Seq(Nat)
    BY <2>2, ReadFits, ClientFields DEF IInv, Held
  <2> HIDE DEF b, f
  <2>5. QED
    BY <2>1, <2>2, <2>3, <2>4
<1>6. CASE OnWritable
  <2> DEFINE f == events[next].fd
             c == clients[f]
             room == SocketCap - Len(toPeer[c.peer])
             n == IF Len(c.buffer) < room THEN Len(c.buffer) ELSE room
             b == Shl(c.buffer, n)
  <2>1. AtEvent("client") /\ now' = now
    BY <1>6 DEF OnWritable, clockVars
  <2>2. f \in DOMAIN clients /\ c \in ClientRecord
    BY <2>1, CurrentEvent DEF IInv, Held
  <2>3. \/ clients' = clients
        \/ clients' = AfterUse(clients, f, b, NewDeadline)
    BY <1>6 DEF OnWritable, AfterUse
  <2>4. b \in Seq(Nat)
    <3>1. /\ c.buffer \in Seq(Nat) /\ toPeer[c.peer] \in Seq(Nat)
          /\ Len(toPeer[c.peer]) <= SocketCap /\ SocketCap \in Nat
      BY <2>2, ClientFields, ServerAssumption DEF IInv, Typed, SocketBytes
    <3>2. n \in Nat /\ n <= Len(c.buffer) /\ Len(c.buffer) \in Nat
      BY <3>1, LenProperties
    <3>3. \A i \in 1..Len(c.buffer) : c.buffer[i] \in Nat
      BY <3>1, ElementOfSeq
    <3> HIDE DEF n
    <3>4. QED
      BY <3>1, <3>2, <3>3, SubSeqProperties DEF Shl
  <2> HIDE DEF b, f
  <2>5. QED
    BY <2>1, <2>2, <2>3, <2>4
<1>7. CASE PeerStep
  BY <1>7 DEF PeerStep, Connect, Send, Receive, Shutdown, Close, Reset, serverVars
<1>8. CASE Signal \/ Tick
  BY <1>8 DEF Signal, Tick, serverVars
<1>9. CASE UNCHANGED vars
  BY <1>9 DEF vars, serverVars
<1>10. QED
  BY <1>1, <1>2, <1>3, <1>4, <1>5, <1>6, <1>7, <1>8, <1>9 DEF Next, ServerStep

\* A client keeps its iterator or gets one with a new deadline
LEMMA DeadlinesKept ==
    ASSUME IInv, [Next]_vars, NEW g \in DOMAIN clients'
    PROVE  \/ g \in DOMAIN clients /\ clients'[g].it = clients[g].it
           \/ clients'[g].it.deadline = NewDeadline /\ now' = now
<1>1. clients \in [DOMAIN clients -> ClientRecord] /\ NewDeadline \in Nat
  BY Times DEF IInv, Held, Typed, NewDeadline
<1>2. CASE clients' = clients
  BY <1>2
<1>3. CASE \E f \in DOMAIN clients : clients' = MapErase(clients, f)
  BY <1>3 DEF MapErase
<1>4. CASE /\ now' = now
           /\ \E f \in Fd \ DOMAIN clients : \E c : c.it.deadline = NewDeadline
                                                     /\ clients' = MapInsert(clients, f, c)
  BY <1>4 DEF MapInsert
<1>5. CASE /\ now' = now
           /\ \E f \in DOMAIN clients, b \in Seq(Nat) :
                  clients' = AfterUse(clients, f, b, NewDeadline)
  <2>1. PICK f \in DOMAIN clients, b \in Seq(Nat) :
            clients' = AfterUse(clients, f, b, NewDeadline)
    BY <1>5
  <2>2. /\ DOMAIN clients' = DOMAIN clients
        /\ clients'[f].it = Renewed(clients[f].it, NewDeadline)
        /\ \A h \in DOMAIN clients : h # f => clients'[h] = clients[h]
    BY <1>1, <2>1, RenewedEntry
  <2>3. clients[f].it \in Wrapper
    BY <1>1, ClientFields
  <2>4. Renewed(clients[f].it, NewDeadline).deadline = NewDeadline
    BY <2>3 DEF Renewed, Wrapper
  <2>5. QED
    BY <1>5, <2>2, <2>4
<1>6. QED
  BY <1>2, <1>3, <1>4, <1>5, ClientMoves

\* The clock moves only on a tick
LEMMA ClockMoves ==
    ASSUME [Next]_vars
    PROVE  Tick \/ (now' = now /\ lag' = lag)
<1>1. CASE ServerStep
  BY <1>1 DEF ServerStep, StartSleeping, WakeUp, TimeOut, ExpireOne, ExpireDone, OnListen, OnSignal,
              OnReadable, OnWritable, EventsDone, UnwindOne, UnwindDone, clockVars
<1>2. CASE PeerStep
  BY <1>2 DEF PeerStep, Connect, Send, Receive, Shutdown, Close, Reset, clockVars
<1>3. CASE Signal \/ UNCHANGED vars
  BY <1>3 DEF Signal, vars, clockVars
<1>4. QED
  BY <1>1, <1>2, <1>3 DEF Next

\* The server falls asleep in one place, and then nothing moves its alarm
LEMMA AlarmMoves ==
    ASSUME [Next]_vars, pc' = "asleep"
    PROVE  StartSleeping \/ (pc = "asleep" /\ wake' = wake /\ dc' = dc)
<1>1. CASE ServerStep
  <2>1. CASE WakeUp \/ TimeOut \/ ExpireOne \/ ExpireDone \/ OnListen \/ OnSignal
             \/ EventsDone \/ UnwindOne \/ UnwindDone
    BY <2>1 DEF WakeUp, TimeOut, ExpireOne, ExpireDone, OnListen, OnSignal,
                EventsDone, UnwindOne, UnwindDone, AtEvent
  <2>2. CASE OnReadable \/ OnWritable
    BY <2>2 DEF OnReadable, OnWritable, AtEvent, Drop
  <2>3. QED
    BY <1>1, <2>1, <2>2 DEF ServerStep
<1>2. CASE PeerStep
  BY <1>2 DEF PeerStep, Connect, Send, Receive, Shutdown, Close, Reset, serverVars, kernelVars
<1>3. CASE Signal \/ Tick
  BY <1>3 DEF Signal, Tick, serverVars, kernelVars
<1>4. CASE UNCHANGED vars
  BY <1>4 DEF vars, serverVars, kernelVars
<1>5. QED
  BY <1>1, <1>2, <1>3, <1>4 DEF Next

\* No client is overdue, and the server sleeps without end only when it has none
OnTime == \A f \in DOMAIN clients : now <= clients[f].it.deadline

Prompt ==
    /\ OnTime
    /\ pc = "asleep" /\ wake = Never => IsEmpty(dc)

\* A tick in time leaves no client overdue
LEMMA TickInTime ==
    ASSUME IInv, Prompt, Tick, lag' = lag
    PROVE  OnTime'
<1>1. Idle /\ now' = now + 1 /\ clients' = clients /\ lag \in Nat
  BY ServerAssumption DEF Tick, IInv, Typed, serverVars
<1>2. pc = "asleep" /\ (wake = Never \/ now < wake)
  BY <1>1 DEF Idle, TimeoutDue, IInv, Typed, Never
<1>3. Held(dc, clients, NewDeadline) /\ now \in Nat
  BY Times DEF IInv, Typed
<1>4. CASE wake = Never
  <2>1. DOMAIN clients = {}
    BY <1>2, <1>3, <1>4, EmptyMeansNone DEF Prompt
  <2>2. QED
    BY <1>1, <2>1 DEF OnTime
<1>5. CASE wake # Never
  <2>1. ~IsEmpty(dc) /\ wake = GetMin(dc).deadline /\ now < wake
    BY <1>2, <1>5 DEF IInv, Alarm
  <2>2. wake \in Nat /\ \A f \in DOMAIN clients : wake <= clients[f].it.deadline
    BY <1>3, <2>1, LeastClient
  <2>3. \A f \in DOMAIN clients : clients[f].it.deadline \in Nat
    BY <1>3, ClientFields, WrapperFields DEF Held
  <2>4. now + 1 <= wake
    BY <1>3, <2>1, <2>2
  <2>5. \A f \in DOMAIN clients : now + 1 <= clients[f].it.deadline
    BY <1>3, <2>2, <2>3, <2>4
  <2>6. QED
    BY <1>1, <2>5 DEF OnTime
<1>6. QED
  BY <1>4, <1>5

\* A server that works without delay
LEMMA PromptStep ==
    ASSUME IInv, Prompt, [Next]_vars, lag' = lag
    PROVE  Prompt'
<1>0. now \in Nat /\ NewDeadline \in Nat /\ now <= NewDeadline
  BY Times, ServerAssumption DEF IInv, Typed, NewDeadline
<1>1. OnTime'
  <2>1. CASE now' = now
    BY <1>0, <2>1, DeadlinesKept DEF Prompt, OnTime
  <2>2. CASE Tick
    BY <2>2, TickInTime
  <2>3. QED
    BY <2>1, <2>2, ClockMoves
<1>2. ASSUME pc' = "asleep", wake' = Never
      PROVE  IsEmpty(dc')
  <2>1. CASE StartSleeping
    <3>1. dc' = dc /\ (IF SleepTimeout < 0 THEN Never ELSE now + SleepTimeout) = Never
      BY <1>2, <2>1 DEF StartSleeping
    <3>2. SUFFICES ASSUME ~IsEmpty(dc) PROVE FALSE
      BY <3>1
    <3>3. /\ GetMin(dc).client \in DOMAIN clients
          /\ clients[GetMin(dc).client].it = GetMin(dc)
          /\ GetMin(dc).deadline \in Nat
      BY <3>2, LeastClient DEF IInv
    <3>4. now <= GetMin(dc).deadline
      BY <3>3 DEF Prompt, OnTime
    <3>5. SleepTimeout = GetMin(dc).deadline - now
      BY <3>2 DEF SleepTimeout
    <3>6. QED
      BY <1>0, <3>1, <3>3, <3>4, <3>5 DEF Never
  <2>2. CASE pc = "asleep" /\ wake' = wake /\ dc' = dc
    BY <1>2, <2>2 DEF Prompt
  <2>3. QED
    BY <1>2, <2>1, <2>2, AlarmMoves
<1>3. QED
  BY <1>1, <1>2 DEF Prompt

\* Clients are dropped in the second they are due (echo_server.cpp:58), as long as no time
\* has passed but in epoll_wait
THEOREM ServerNoneOverdue == Spec => []NoneOverdue
<1>1. Init => (lag = 0 => Prompt)
  BY DEF Init, Prompt, OnTime
<1>2. IInv /\ (lag = 0 => Prompt) /\ [Next]_vars => (lag = 0 => Prompt)'
  <2>1. SUFFICES ASSUME IInv, lag = 0 => Prompt, [Next]_vars, lag' = 0
                 PROVE  Prompt'
    OBVIOUS
  <2>2. lag \in Nat
    BY <2>1, ServerAssumption DEF IInv, Typed
  <2>3. lag' = lag
    BY <2>1, <2>2, ClockMoves DEF Tick
  <2>4. QED
    BY <2>1, <2>3, PromptStep
<1>3. (lag = 0 => Prompt) => NoneOverdue
  BY DEF Prompt, OnTime, NoneOverdue
<1>4. QED
  BY <1>1, <1>2, <1>3, InvariantHolds, PTL DEF Spec

-----------------------------------------------------------------------------
(* Refinement of EchoService.                                              *)

\* Reading and writing move bytes along a queue without a change of the whole
LEMMA Split ==
    ASSUME NEW s \in Seq(Nat), NEW n \in 0..Len(s)
    PROVE  /\ SubSeq(s, 1, n) \in Seq(Nat) /\ SubSeq(s, n + 1, Len(s)) \in Seq(Nat)
           /\ SubSeq(s, 1, n) \o SubSeq(s, n + 1, Len(s)) = s
<1>1. Len(s) \in Nat /\ \A i \in 1..Len(s) : s[i] \in Nat
  BY LenProperties, ElementOfSeq
<1>2. SubSeq(s, 1, n) \in Seq(Nat) /\ SubSeq(s, n + 1, Len(s)) \in Seq(Nat)
  BY <1>1, SubSeqProperties
<1>3. SubSeq(s, 1, n) \o SubSeq(s, n + 1, Len(s)) = SubSeq(s, 1, Len(s))
  <2>1. 1 \in 1..(Len(s) + 1) /\ n \in (1 - 1)..Len(s) /\ Len(s) \in n..Len(s)
    BY <1>1
  <2>2. QED
    BY <2>1, ConcatAdjacentSubSeq
<1>4. QED
  BY <1>2, <1>3, SubSeqFull

\* Where the parts of a queue are joined does not matter
LEMMA Regroup ==
    \A s, t, u \in Seq(Nat) : (s \o t) \o u = s \o (t \o u)
<1>1. TAKE s, t, u \in Seq(Nat)
<1>2. /\ Len(s) \in Nat /\ Len(t) \in Nat /\ Len(u) \in Nat
      /\ s \o t \in Seq(Nat) /\ Len(s \o t) = Len(s) + Len(t)
      /\ t \o u \in Seq(Nat) /\ Len(t \o u) = Len(t) + Len(u)
      /\ \A i \in 1..(Len(s) + Len(t)) :
             (s \o t)[i] = IF i <= Len(s) THEN s[i] ELSE t[i - Len(s)]
      /\ \A i \in 1..(Len(t) + Len(u)) :
             (t \o u)[i] = IF i <= Len(t) THEN t[i] ELSE u[i - Len(t)]
  BY ConcatProperties, LenProperties
<1> DEFINE l == (s \o t) \o u
           r == s \o (t \o u)
<1>3. /\ l \in Seq(Nat) /\ Len(l) = Len(s) + Len(t) + Len(u)
      /\ \A i \in 1..(Len(s) + Len(t) + Len(u)) :
             l[i] = IF i <= Len(s) + Len(t) THEN (s \o t)[i] ELSE u[i - (Len(s) + Len(t))]
  BY <1>2, ConcatProperties
<1>4. /\ r \in Seq(Nat) /\ Len(r) = Len(s) + Len(t) + Len(u)
      /\ \A i \in 1..(Len(s) + Len(t) + Len(u)) :
             r[i] = IF i <= Len(s) THEN s[i] ELSE (t \o u)[i - Len(s)]
  BY <1>2, ConcatProperties
<1> HIDE DEF l, r
<1>5. ASSUME NEW i \in 1..(Len(s) + Len(t) + Len(u))
      PROVE  l[i] = r[i]
  <2>1. CASE i <= Len(s)
    <3>1. i \in 1..(Len(s) + Len(t)) /\ i <= Len(s) + Len(t)
      BY <1>2, <2>1
    <3>2. l[i] = s[i]
      BY <1>2, <1>3, <2>1, <3>1
    <3>3. r[i] = s[i]
      BY <1>4, <2>1
    <3>4. QED
      BY <3>2, <3>3
  <2>2. CASE i > Len(s) /\ i <= Len(s) + Len(t)
    <3>1. i - Len(s) \in 1..(Len(t) + Len(u)) /\ i - Len(s) <= Len(t)
      BY <1>2, <2>2
    <3>2. l[i] = t[i - Len(s)]
      BY <1>2, <1>3, <2>2
    <3>3. r[i] = t[i - Len(s)]
      BY <1>2, <1>4, <2>2, <3>1
    <3>4. QED
      BY <3>2, <3>3
  <2>3. CASE i > Len(s) + Len(t)
    <3>1. i - Len(s) \in 1..(Len(t) + Len(u)) /\ i - Len(s) > Len(t)
      BY <1>2, <2>3
    <3>2. l[i] = u[i - (Len(s) + Len(t))]
      BY <1>2, <1>3, <2>3
    <3>3. r[i] = u[(i - Len(s)) - Len(t)]
      <4>a. ~(i <= Len(s))
        BY <1>2, <2>3
      <4>1. r[i] = (t \o u)[i - Len(s)]
        BY <1>4, <4>a
      <4>2. (t \o u)[i - Len(s)] = u[(i - Len(s)) - Len(t)]
        BY <1>2, <3>1
      <4>3. QED
        BY <4>1, <4>2
    <3>4. (i - Len(s)) - Len(t) = i - (Len(s) + Len(t))
      BY <1>2
    <3>5. QED
      BY <3>2, <3>3, <3>4
  <2>4. QED
    BY <1>2, <2>1, <2>2, <2>3
<1>6. l = r
  BY <1>3, <1>4, <1>5, SeqEqual
<1>7. QED
  BY <1>6 DEF l, r

\* Taking the first byte of a queue takes it from its nearest part
LEMMA HeadOfConcat ==
    ASSUME NEW s \in Seq(Nat), s # <<>>, NEW t \in Seq(Nat)
    PROVE  /\ s \o t # <<>>
           /\ Head(s \o t) = Head(s) /\ Tail(s \o t) = Tail(s) \o t
<1>1. Len(s) \in Nat /\ Len(s) > 0 /\ Len(t) \in Nat
  BY EmptySeq, LenProperties
<1>2. /\ s \o t \in Seq(Nat) /\ Len(s \o t) = Len(s) + Len(t)
      /\ \A i \in 1..(Len(s) + Len(t)) :
             (s \o t)[i] = IF i <= Len(s) THEN s[i] ELSE t[i - Len(s)]
  BY ConcatProperties
<1>3. s \o t # <<>>
  BY <1>1, <1>2, EmptySeq
<1>4. Head(s \o t) = Head(s)
  BY <1>1, <1>2
<1>5. /\ Tail(s) \in Seq(Nat) /\ Len(Tail(s)) = Len(s) - 1
      /\ \A i \in 1..(Len(s) - 1) : Tail(s)[i] = s[i + 1]
  BY HeadTailProperties
<1>6. /\ Tail(s \o t) \in Seq(Nat) /\ Len(Tail(s \o t)) = Len(s) + Len(t) - 1
      /\ \A i \in 1..(Len(s) + Len(t) - 1) : Tail(s \o t)[i] = (s \o t)[i + 1]
  BY <1>2, <1>3, HeadTailProperties
<1>7. /\ Tail(s) \o t \in Seq(Nat) /\ Len(Tail(s) \o t) = Len(s) - 1 + Len(t)
      /\ \A i \in 1..(Len(s) - 1 + Len(t)) :
             (Tail(s) \o t)[i] = IF i <= Len(s) - 1 THEN Tail(s)[i] ELSE t[i - (Len(s) - 1)]
  BY <1>5, ConcatProperties
<1>8. ASSUME NEW i \in 1..(Len(s) + Len(t) - 1)
      PROVE  Tail(s \o t)[i] = (Tail(s) \o t)[i]
  <2>1. CASE i <= Len(s) - 1
    BY <1>1, <1>2, <1>5, <1>6, <1>7, <2>1
  <2>2. CASE i > Len(s) - 1
    <3>1. (s \o t)[i + 1] = t[i + 1 - Len(s)] /\ (Tail(s) \o t)[i] = t[i - (Len(s) - 1)]
      BY <1>1, <1>2, <1>7, <2>2
    <3>2. i + 1 - Len(s) = i - (Len(s) - 1)
      BY <1>1
    <3>3. QED
      BY <1>6, <3>1, <3>2
  <2>3. QED
    BY <1>1, <2>1, <2>2
<1>9. Tail(s \o t) = Tail(s) \o t
  BY <1>1, <1>6, <1>7, <1>8, SeqEqual
<1>10. QED
  BY <1>3, <1>4, <1>9

\* What the client of peer p has stored in map cs
StoredIn(cs, p) ==
    IF \E f \in DOMAIN cs : cs[f].peer = p
    THEN cs[CHOOSE f \in DOMAIN cs : cs[f].peer = p].buffer
    ELSE <<>>

OneEach(cs) == \A f, g \in DOMAIN cs : cs[f].peer = cs[g].peer => f = g

\* A peer with a client has what that client stored, one without has nothing
LEMMA StoredOf ==
    ASSUME NEW cs, OneEach(cs), NEW f \in DOMAIN cs, NEW p, cs[f].peer = p
    PROVE  StoredIn(cs, p) = cs[f].buffer
BY DEF StoredIn, OneEach

\* The other half: a peer without a client
LEMMA StoredNone ==
    ASSUME NEW cs, NEW p, \A f \in DOMAIN cs : cs[f].peer # p
    PROVE  StoredIn(cs, p) = <<>>
BY DEF StoredIn

\* What peer p has stored depends on its client alone
LEMMA StoredSame ==
    ASSUME NEW cs, OneEach(cs), NEW c1, OneEach(c1), NEW p,
           \A f \in DOMAIN cs : cs[f].peer = p => f \in DOMAIN c1 /\ c1[f].peer = p
                                                  /\ c1[f].buffer = cs[f].buffer,
           \A f \in DOMAIN c1 : c1[f].peer = p => f \in DOMAIN cs /\ cs[f].peer = p
    PROVE  StoredIn(c1, p) = StoredIn(cs, p)
<1>1. CASE \E f \in DOMAIN cs : cs[f].peer = p
  <2>1. PICK f \in DOMAIN cs : cs[f].peer = p
    BY <1>1
  <2>2. f \in DOMAIN c1 /\ c1[f].peer = p /\ c1[f].buffer = cs[f].buffer
    BY <2>1
  <2>3. QED
    BY <2>1, <2>2, StoredOf
<1>2. CASE \A f \in DOMAIN cs : cs[f].peer # p
  BY <1>2, StoredNone
<1>3. QED
  BY <1>1, <1>2

\* The link of a peer whose bytes are lost
Lost(l) == l.left \/ l.rst

\* The queue of peer p: toPeer, the buffer and toServer, unless the peer is gone
PipeOf(lk, cs, tp, ts, p) ==
    IF Lost(lk[p]) THEN <<>> ELSE tp[p] \o StoredIn(cs, p) \o ts[p]

CutOf(lk, p) == Lost(lk[p]) \/ lk[p].state = "closed"

\* The refinement mapping, peer by peer
LEMMA Mapping ==
    /\ pipe = [p \in Peer |-> PipeOf(link, clients, toPeer, toServer, p)]
    /\ pipe' = [p \in Peer |-> PipeOf(link', clients', toPeer', toServer', p)]
    /\ \A p \in Peer : p \in cut <=> CutOf(link, p)
    /\ \A p \in Peer : p \in cut' <=> CutOf(link', p)
BY DEF pipe, cut, PipeOf, CutOf, Lost, Gone, Stored, StoredIn

\* The parts of a queue
LEMMA Parts ==
    ASSUME IInv, NEW p \in Peer
    PROVE  /\ link[p] \in LinkRecord /\ OneEach(clients)
           /\ StoredIn(clients, p) \in Seq(Nat)
           /\ toPeer[p] \in Seq(Nat) /\ toServer[p] \in Seq(Nat)
           /\ PipeOf(link, clients, toPeer, toServer, p) \in Seq(Nat)
<1>1. Typed /\ Linked(link, clients) /\ Held(dc, clients, NewDeadline)
  BY DEF IInv
<1>2. link[p] \in LinkRecord /\ OneEach(clients)
  BY <1>1 DEF Linked, OneEach
<1>3. toPeer[p] \in Seq(Nat) /\ toServer[p] \in Seq(Nat)
  BY <1>1 DEF Typed, SocketBytes
<1>4. StoredIn(clients, p) \in Seq(Nat)
  <2>1. CASE \E f \in DOMAIN clients : clients[f].peer = p
    BY <1>1, <1>2, <2>1, StoredOf, ClientFields DEF Held
  <2>2. CASE \A f \in DOMAIN clients : clients[f].peer # p
    BY <2>2, StoredNone, EmptySeq
  <2>3. QED
    BY <2>1, <2>2
<1>5. PipeOf(link, clients, toPeer, toServer, p) \in Seq(Nat)
  BY <1>3, <1>4, ConcatProperties, EmptySeq DEF PipeOf
<1>6. QED
  BY <1>2, <1>3, <1>4, <1>5

\* A step of the program that no peer can tell from none
LEMMA Stutter ==
    ASSUME sent' = sent, received' = received,
           \A p \in Peer : PipeOf(link', clients', toPeer', toServer', p)
                           = PipeOf(link, clients, toPeer, toServer, p),
           \A p \in Peer : CutOf(link', p) <=> CutOf(link, p)
    PROVE  UNCHANGED Service!vars
<1>1. pipe' = pipe
  BY Mapping
<1>2. cut' = cut
  BY Mapping DEF cut
<1>3. QED
  BY <1>1, <1>2 DEF Service!vars

\* A peer whose link, bytes and client a step leaves alone
LEMMA Others ==
    ASSUME NEW q, link'[q] = link[q], toPeer'[q] = toPeer[q], toServer'[q] = toServer[q],
           StoredIn(clients', q) = StoredIn(clients, q)
    PROVE  /\ PipeOf(link', clients', toPeer', toServer', q)
              = PipeOf(link, clients, toPeer, toServer, q)
           /\ CutOf(link', q) <=> CutOf(link, q)
BY DEF PipeOf, CutOf

\* The connection of one peer ends, and the far end of its queue is lost
LEMMA CutRefines ==
    ASSUME sent' = sent, received' = received, NEW p \in Peer,
           ~CutOf(link, p), CutOf(link', p),
           NEW k \in 0..Len(PipeOf(link, clients, toPeer, toServer, p)),
           PipeOf(link', clients', toPeer', toServer', p)
           = SubSeq(PipeOf(link, clients, toPeer, toServer, p), 1, k),
           \A q \in Peer : q # p =>
               /\ PipeOf(link', clients', toPeer', toServer', q)
                  = PipeOf(link, clients, toPeer, toServer, q)
               /\ CutOf(link', q) <=> CutOf(link, q)
    PROVE  Service!Next
<1>1. p \notin cut /\ cut' = cut \cup {p}
  BY Mapping DEF cut
<1>2. k \in 0..Len(pipe[p]) /\ pipe'[p] = SubSeq(pipe[p], 1, k)
  BY Mapping
<1>3. \A q \in Peer : q # p => pipe'[q] = pipe[q]
  BY Mapping
<1>4. pipe = [q \in Peer |-> pipe[q]] /\ pipe' = [q \in Peer |-> pipe'[q]]
  BY Mapping
<1>5. pipe' = [pipe EXCEPT ![p] = SubSeq(pipe[p], 1, k)]
  BY <1>2, <1>3, <1>4
<1>6. Service!Cut(p)
  BY <1>1, <1>2, <1>5 DEF Service!Cut
<1>7. QED
  BY <1>6 DEF Service!Next

\* What the service does not see
LEMMA QuietRefines ==
    ASSUME UNCHANGED <<clients, link, toServer, toPeer, sent, received>>
    PROVE  UNCHANGED Service!vars
BY Others, Stutter

\* Connecting
LEMMA ConnectRefines ==
    ASSUME IInv, NEW p \in Peer, Connect(p)
    PROVE  UNCHANGED Service!vars
<1>1. /\ link[p].state = "none" /\ link' = [link EXCEPT ![p].state = "queued"]
      /\ UNCHANGED <<clients, toServer, toPeer, sent, received>>
  BY DEF Connect, serverVars, peerVars
<1>2. link \in [Peer -> LinkRecord]
  BY DEF IInv, Linked
<1>3. /\ link'[p].state = "queued" /\ Lost(link'[p]) = Lost(link[p])
      /\ \A q \in Peer : q # p => link'[q] = link[q]
  BY <1>1, <1>2, LinkState DEF Lost
<1>4. \A q \in Peer : /\ PipeOf(link', clients', toPeer', toServer', q)
                         = PipeOf(link, clients, toPeer, toServer, q)
                      /\ CutOf(link', q) <=> CutOf(link, q)
  BY <1>1, <1>3 DEF PipeOf, CutOf
<1>5. QED
  BY <1>1, <1>4, Stutter

\* accept: the new client's buffer is empty, as the peer's stored bytes were
LEMMA OnListenRefines ==
    ASSUME IInv, IInv', OnListen
    PROVE  UNCHANGED Service!vars
<1>1. UNCHANGED <<toServer, toPeer, sent, received>> /\ AtEvent("listen")
  BY DEF OnListen, peerVars
<1>2. CASE Free = {}
  BY <1>1, <1>2, QuietRefines DEF OnListen
<1>3. CASE Free # {}
  <2> DEFINE f == CHOOSE g \in Free : \A h \in Free : g <= h
             p == Head(backlog)
             n == [timeout |-> ClientTimeout, deadline |-> NewDeadline, client |-> f]
             c == [peer |-> p, buffer |-> <<>>, it |-> n]
  <2>1. /\ clients' = MapInsert(clients, f, c)
        /\ link' = [link EXCEPT ![p].state = "accepted"]
    BY <1>3 DEF OnListen
  <2>2. f \notin DOMAIN clients
    <3>1. Free \in SUBSET Nat
      BY ServerAssumption DEF Free
    <3>2. \E g \in Free : \A h \in Free : g <= h
      BY <1>3, <3>1, LeastExists
    <3>3. f \in Free
      BY <3>2
    <3>4. QED
      BY <3>3 DEF Free
  <2>3. c.peer = p /\ c.buffer = <<>>
    OBVIOUS
  <2>4. /\ DOMAIN clients' = DOMAIN clients \cup {f} /\ clients'[f] = c
        /\ \A g \in DOMAIN clients : clients'[g] = clients[g]
    BY <2>1, <2>2 DEF MapInsert
  <2> HIDE DEF f, c
  <2>5. Waiting(backlog, link) /\ Linked(link, clients) /\ backlog # <<>>
    BY <1>1, CurrentEvent DEF IInv
  <2>6. p \in Peer /\ link[p].state = "queued"
    BY <2>5, WaitingTail
  <2> HIDE DEF p
  <2>7. /\ link'[p].state = "accepted" /\ Lost(link'[p]) = Lost(link[p])
        /\ \A q \in Peer : q # p => link'[q] = link[q]
    BY <2>1, <2>5, <2>6, LinkState DEF Lost, Linked
  <2>8. OneEach(clients) /\ OneEach(clients')
    BY DEF IInv, Linked, OneEach
  <2>9. \A g \in DOMAIN clients : clients[g].peer # p
    BY <2>5, <2>6 DEF Linked
  <2>10. StoredIn(clients, p) = <<>>
    BY <2>9, StoredNone
  <2>11. StoredIn(clients', p) = <<>>
    BY <2>3, <2>4, <2>8, StoredOf
  <2>12. ASSUME NEW q \in Peer, q # p
         PROVE  StoredIn(clients', q) = StoredIn(clients, q)
    BY <2>3, <2>4, <2>8, <2>12, StoredSame
  <2>13. \A q \in Peer : StoredIn(clients', q) = StoredIn(clients, q)
    BY <2>10, <2>11, <2>12
  <2>14. \A q \in Peer : /\ PipeOf(link', clients', toPeer', toServer', q)
                            = PipeOf(link, clients, toPeer, toServer, q)
                         /\ CutOf(link', q) <=> CutOf(link, q)
    BY <1>1, <2>6, <2>7, <2>13 DEF PipeOf, CutOf
  <2>15. QED
    BY <1>1, <2>14, Stutter
<1>4. QED
  BY <1>2, <1>3

\* The destructors of a client close its connection: what the socket holds for the
\* peer still comes, or is lost with what the server did not read
LEMMA DestroyRefines ==
    ASSUME IInv, NEW f \in DOMAIN clients, NEW d, NEW it, Destroy(f, d, it),
           sent' = sent, received' = received
    PROVE  Service!Next \/ UNCHANGED Service!vars
<1> DEFINE p == clients[f].peer
           Q == PipeOf(link, clients, toPeer, toServer, p)
<1>1. /\ clients' = MapErase(clients, f)
      /\ link' = [link EXCEPT ![p].state = "closed"]
      /\ toServer' = [toServer EXCEPT ![p] = <<>>]
      /\ toPeer' = IF toServer[p] = <<>> THEN toPeer ELSE [toPeer EXCEPT ![p] = <<>>]
  BY DEF Destroy
<1>2. /\ Linked(link, clients) /\ Typed /\ OneEach(clients) /\ p \in Peer
      /\ link \in [Peer -> LinkRecord]
  BY ClientFields DEF IInv, Held, Linked, OneEach
<1>3. /\ DOMAIN clients' = DOMAIN clients \ {f}
      /\ \A g \in DOMAIN clients' : clients'[g] = clients[g]
  BY <1>1 DEF MapErase
<1>4. link[p].state = "accepted"
  BY <1>2 DEF Linked
<1>5. /\ link'[p].state = "closed" /\ Lost(link'[p]) = Lost(link[p])
      /\ \A q \in Peer : q # p => link'[q] = link[q]
  BY <1>1, <1>2, LinkState DEF Lost
<1>6. OneEach(clients')
  BY <1>2, <1>3 DEF OneEach
<1>7. StoredIn(clients', p) = <<>>
  BY <1>2, <1>3, StoredNone DEF OneEach
<1>8. /\ toServer'[p] = <<>>
      /\ toPeer'[p] = IF toServer[p] = <<>> THEN toPeer[p] ELSE <<>>
      /\ \A q \in Peer : q # p => toPeer'[q] = toPeer[q] /\ toServer'[q] = toServer[q]
  BY <1>1, <1>2 DEF Typed
<1>9. /\ toPeer[p] \in Seq(Nat) /\ toServer[p] \in Seq(Nat)
      /\ StoredIn(clients, p) \in Seq(Nat) /\ Q \in Seq(Nat)
  BY <1>2, Parts
<1> HIDE DEF p
<1>10. ASSUME NEW q \in Peer, q # p
       PROVE  /\ PipeOf(link', clients', toPeer', toServer', q)
                 = PipeOf(link, clients, toPeer, toServer, q)
              /\ CutOf(link', q) <=> CutOf(link, q)
  <2>1. StoredIn(clients', q) = StoredIn(clients, q)
    <3>1. clients[f].peer # q
      BY <1>10 DEF p
    <3>2. QED
      BY <1>2, <1>3, <1>6, <3>1, StoredSame
  <2>2. QED
    BY <1>5, <1>8, <1>10, <2>1, Others
<1>11. CASE Lost(link[p])
  <2>1. /\ PipeOf(link', clients', toPeer', toServer', p) = <<>> /\ Q = <<>>
        /\ CutOf(link', p) /\ CutOf(link, p)
    BY <1>5, <1>11 DEF PipeOf, CutOf
  <2>2. UNCHANGED Service!vars
    BY <1>10, <2>1, Stutter
  <2>3. QED
    BY <2>2
<1>12. CASE ~Lost(link[p])
  <2>1. ~CutOf(link, p) /\ CutOf(link', p)
    BY <1>4, <1>5, <1>12 DEF CutOf
  <2>2. Q = toPeer[p] \o StoredIn(clients, p) \o toServer[p]
    BY <1>12 DEF PipeOf
  <2>3. PipeOf(link', clients', toPeer', toServer', p) = toPeer'[p] \o <<>> \o <<>>
    BY <1>5, <1>7, <1>8, <1>12 DEF PipeOf
  <2>4. PipeOf(link', clients', toPeer', toServer', p) = toPeer'[p]
    <3>1. toPeer'[p] \in Seq(Nat)
      BY <1>8, <1>9, EmptySeq
    <3>2. QED
      BY <2>3, <3>1, ConcatEmptySeq
  <2> HIDE DEF Q
  <2>5. \E k \in 0..Len(Q) : toPeer'[p] = SubSeq(Q, 1, k)
    <3> DEFINE rest == StoredIn(clients, p) \o toServer[p]
               tp == toPeer[p]
    <3>1. rest \in Seq(Nat) /\ Q = tp \o rest
      <4>1. rest \in Seq(Nat)
        BY <1>9, ConcatProperties
      <4>2. (tp \o StoredIn(clients, p)) \o toServer[p] = tp \o rest
        BY <1>9, Regroup
      <4>3. QED
        BY <2>2, <4>1, <4>2
    <3> HIDE DEF rest
    <3>2. Len(tp) \in Nat /\ Len(rest) \in Nat /\ Len(Q) = Len(tp) + Len(rest)
      BY <1>9, <3>1, ConcatProperties, LenProperties
    <3>3. 0 \in 0..Len(Q) /\ SubSeq(Q, 1, 0) = <<>>
      BY <3>2, SubSeqEmpty
    <3>4. Len(tp) \in 0..Len(Q) /\ SubSeq(Q, 1, Len(tp)) = tp
      <4>1. Len(tp) \in 0..Len(Q)
        BY <3>2
      <4>2. CASE tp = <<>>
        BY <4>2, <3>3
      <4>3. CASE tp # <<>>
        <5>1. 1 \in 1..Len(tp) /\ Len(tp) \in 1..Len(tp)
          BY <1>9, <4>3, EmptySeq
        <5>2. SubSeq(tp \o rest, 1, Len(tp)) = SubSeq(tp, 1, Len(tp))
          BY <1>9, <3>1, <5>1, SubSeqOfConcat1
        <5>3. SubSeq(tp, 1, Len(tp)) = tp
          BY <1>9, SubSeqFull
        <5>4. QED
          BY <3>1, <4>1, <5>2, <5>3
      <4>4. QED
        BY <4>2, <4>3
    <3>5. QED
      BY <1>8, <3>3, <3>4
  <2>6. PICK k \in 0..Len(Q) : toPeer'[p] = SubSeq(Q, 1, k)
    BY <2>5
  <2>7. Service!Next
    <3>1. /\ k \in 0..Len(PipeOf(link, clients, toPeer, toServer, p))
          /\ PipeOf(link', clients', toPeer', toServer', p)
             = SubSeq(PipeOf(link, clients, toPeer, toServer, p), 1, k)
      BY <2>4, <2>6 DEF Q
    <3>2. p \in Peer
      BY <1>2
    <3>3. QED
      BY <1>10, <2>1, <3>1, <3>2, CutRefines
  <2>8. QED
    BY <2>7
<1>13. QED
  BY <1>11, <1>12

\* The client of event f after a read or a write: what the peers have stored
LEMMA StoredAfterUse ==
    ASSUME IInv, NEW f \in DOMAIN clients, NEW b \in Seq(Nat),
           clients' = AfterUse(clients, f, b, NewDeadline)
    PROVE  /\ StoredIn(clients, clients[f].peer) = clients[f].buffer
           /\ StoredIn(clients', clients[f].peer) = b
           /\ \A q \in Peer : q # clients[f].peer => StoredIn(clients', q) = StoredIn(clients, q)
<1>1. clients \in [DOMAIN clients -> ClientRecord] /\ NewDeadline \in Nat /\ OneEach(clients)
  BY Times DEF IInv, Held, Typed, NewDeadline, Linked, OneEach
<1>2. /\ DOMAIN clients' = DOMAIN clients
      /\ clients'[f].peer = clients[f].peer /\ clients'[f].buffer = b
      /\ \A g \in DOMAIN clients : g # f => clients'[g] = clients[g]
  BY <1>1, RenewedEntry
<1>3. OneEach(clients')
  BY <1>1, <1>2 DEF OneEach
<1>4. StoredIn(clients, clients[f].peer) = clients[f].buffer
  BY <1>1, StoredOf
<1>5. StoredIn(clients', clients[f].peer) = b
  BY <1>2, <1>3, StoredOf
<1>6. ASSUME NEW q \in Peer, q # clients[f].peer
      PROVE  StoredIn(clients', q) = StoredIn(clients, q)
  BY <1>1, <1>2, <1>3, <1>6, StoredSame
<1>7. QED
  BY <1>4, <1>5, <1>6

\* A read moves bytes from toServer to the buffer, or drops the client
LEMMA OnReadableRefines ==
    ASSUME IInv, OnReadable
    PROVE  Service!Next \/ UNCHANGED Service!vars
<1> DEFINE f == events[next].fd
           c == clients[f]
           p == c.peer
           n == ReadCount(p)
           r == SubSeq(toServer[p], 1, n)
           s == SubSeq(toServer[p], n + 1, Len(toServer[p]))
           b == c.buffer \o r
<1>1. AtEvent("client") /\ sent' = sent /\ received' = received
  BY DEF OnReadable, peerVars
<1>2. f \in DOMAIN clients /\ c \in ClientRecord /\ p \in Peer
  BY <1>1, CurrentEvent, ClientFields DEF IInv, Held
<1>3. CASE \E d, it : Destroy(f, d, it)
  BY <1>1, <1>2, <1>3, DestroyRefines
<1>4. CASE UNCHANGED <<clients, link, toServer, toPeer>>
  BY <1>1, <1>4, QuietRefines
<1>5. CASE /\ ~IsNasty(c)
           /\ toServer' = [toServer EXCEPT ![p] = s]
           /\ clients' = AfterUse(clients, f, b, NewDeadline)
           /\ link' = link /\ toPeer' = toPeer
  <2>1. toServer \in [Peer -> Seq(Nat)] /\ toServer[p] \in Seq(Nat) /\ Typed
    BY <1>2 DEF IInv, Typed
  <2>2. n \in 0..Len(toServer[p]) /\ b \in Seq(Nat)
    BY <1>2, <1>5, <2>1, ReadFits
  <2>3. r \in Seq(Nat) /\ s \in Seq(Nat) /\ r \o s = toServer[p]
    BY <2>1, <2>2, Split
  <2> HIDE DEF r, s
  <2>4. toServer'[p] = s /\ \A q \in Peer : q # p => toServer'[q] = toServer[q]
    BY <1>2, <1>5, <2>1
  <2>5. /\ StoredIn(clients, p) = c.buffer /\ StoredIn(clients', p) = c.buffer \o r
        /\ \A q \in Peer : q # p => StoredIn(clients', q) = StoredIn(clients, q)
    BY <1>2, <1>5, <2>2, StoredAfterUse
  <2>6. toPeer[p] \in Seq(Nat) /\ c.buffer \in Seq(Nat)
    BY <1>2, Parts, ClientFields
  <2>7. toPeer[p] \o (c.buffer \o r) \o s = toPeer[p] \o c.buffer \o toServer[p]
    <3>1. toPeer[p] \o (c.buffer \o r) = (toPeer[p] \o c.buffer) \o r
      BY <2>3, <2>6, Regroup
    <3>2. toPeer[p] \o c.buffer \in Seq(Nat)
      BY <2>6, ConcatProperties
    <3>3. ((toPeer[p] \o c.buffer) \o r) \o s = (toPeer[p] \o c.buffer) \o (r \o s)
      BY <2>3, <3>2, Regroup
    <3>4. QED
      BY <2>3, <3>1, <3>3
  <2> HIDE DEF p, f, b
  <2>8. ASSUME NEW q \in Peer
        PROVE  /\ PipeOf(link', clients', toPeer', toServer', q)
                  = PipeOf(link, clients, toPeer, toServer, q)
               /\ CutOf(link', q) <=> CutOf(link, q)
    <3>1. CASE q = p
      BY <1>5, <2>4, <2>5, <2>7, <3>1 DEF PipeOf, CutOf
    <3>2. CASE q # p
      BY <1>5, <2>4, <2>5, <3>2, Others
    <3>3. QED
      BY <3>1, <3>2
  <2>9. UNCHANGED Service!vars
    BY <1>1, <2>8, Stutter
  <2>10. QED
    BY <2>9
<1>6. QED
  BY <1>3, <1>4, <1>5 DEF OnReadable, Drop, AfterUse

\* A write moves bytes from the buffer to toPeer; those for a peer that has left
\* get a reset
LEMMA OnWritableRefines ==
    ASSUME IInv, OnWritable
    PROVE  UNCHANGED Service!vars
<1> DEFINE f == events[next].fd
           c == clients[f]
           p == c.peer
           room == SocketCap - Len(toPeer[p])
           n == IF Len(c.buffer) < room THEN Len(c.buffer) ELSE room
           w == SubSeq(c.buffer, 1, n)
           b == Shl(c.buffer, n)
<1>1. AtEvent("client") /\ UNCHANGED <<toServer, sent, received>>
  BY DEF OnWritable, peerVars
<1>2. f \in DOMAIN clients /\ c \in ClientRecord /\ p \in Peer
  BY <1>1, CurrentEvent, ClientFields DEF IInv, Held
<1>3. CASE UNCHANGED <<clients, link, toPeer>>
  BY <1>1, <1>3, QuietRefines
<1>4. CASE /\ clients' = AfterUse(clients, f, b, NewDeadline)
           /\ \/ link[p].left /\ link' = [link EXCEPT ![p].rst = TRUE] /\ toPeer' = toPeer
              \/ link' = link /\ toPeer' = [toPeer EXCEPT ![p] = @ \o w]
  <2>1. /\ c.buffer \in Seq(Nat) /\ toPeer \in [Peer -> SocketBytes]
        /\ toPeer[p] \in Seq(Nat) /\ Len(toPeer[p]) <= SocketCap
        /\ toServer[p] \in Seq(Nat)
        /\ link \in [Peer -> LinkRecord] /\ link[p] \in LinkRecord
    BY <1>2, ClientFields DEF IInv, Typed, SocketBytes, Linked
  <2>2. n \in 0..Len(c.buffer)
    <3>1. SocketCap \in Nat /\ Len(toPeer[p]) \in Nat /\ Len(c.buffer) \in Nat
      BY <2>1, ServerAssumption, LenProperties
    <3>2. QED
      BY <2>1, <3>1
  <2> HIDE DEF n
  <2>3. w \in Seq(Nat) /\ b \in Seq(Nat) /\ w \o b = c.buffer
    BY <2>1, <2>2, Split DEF Shl
  <2> HIDE DEF w, b
  <2>4. /\ StoredIn(clients, p) = c.buffer /\ StoredIn(clients', p) = b
        /\ \A q \in Peer : q # p => StoredIn(clients', q) = StoredIn(clients, q)
    BY <1>2, <1>4, <2>3, StoredAfterUse
  <2>5. (toPeer[p] \o w) \o b \o toServer[p] = toPeer[p] \o c.buffer \o toServer[p]
    <3>1. (toPeer[p] \o w) \o b = toPeer[p] \o (w \o b)
      BY <2>1, <2>3, Regroup
    <3>2. QED
      BY <2>3, <3>1
  <2> HIDE DEF p, f
  <2>6. CASE link[p].left /\ link' = [link EXCEPT ![p].rst = TRUE] /\ toPeer' = toPeer
    <3>1. /\ link'[p].left /\ link'[p].state = link[p].state
          /\ \A q \in Peer : q # p => link'[q] = link[q]
      BY <1>2, <2>1, <2>6 DEF LinkRecord
    <3>2. Lost(link[p]) /\ Lost(link'[p])
      BY <2>6, <3>1 DEF Lost
    <3>3. ASSUME NEW q \in Peer
          PROVE  /\ PipeOf(link', clients', toPeer', toServer', q)
                    = PipeOf(link, clients, toPeer, toServer, q)
                 /\ CutOf(link', q) <=> CutOf(link, q)
      <4>1. CASE q = p
        BY <3>2, <4>1 DEF PipeOf, CutOf
      <4>2. CASE q # p
        BY <1>1, <2>4, <2>6, <3>1, <4>2, Others
      <4>3. QED
        BY <4>1, <4>2
    <3>4. QED
      BY <1>1, <3>3, Stutter
  <2>7. CASE link' = link /\ toPeer' = [toPeer EXCEPT ![p] = @ \o w]
    <3>1. toPeer'[p] = toPeer[p] \o w /\ \A q \in Peer : q # p => toPeer'[q] = toPeer[q]
      BY <1>2, <2>1, <2>7
    <3>2. ASSUME NEW q \in Peer
          PROVE  /\ PipeOf(link', clients', toPeer', toServer', q)
                    = PipeOf(link, clients, toPeer, toServer, q)
                 /\ CutOf(link', q) <=> CutOf(link, q)
      <4>1. CASE q = p
        BY <1>1, <2>4, <2>5, <2>7, <3>1, <4>1 DEF PipeOf, CutOf
      <4>2. CASE q # p
        BY <1>1, <2>4, <2>7, <3>1, <4>2, Others
      <4>3. QED
        BY <4>1, <4>2
    <3>3. QED
      BY <1>1, <3>2, Stutter
  <2>8. QED
    BY <1>4, <2>6, <2>7
<1>5. QED
  BY <1>3, <1>4 DEF OnWritable, AfterUse

\* Sending puts bytes at the far end
LEMMA SendRefines ==
    ASSUME IInv, NEW p \in Peer, NEW k \in 1..MaxSend, Send(p, k)
    PROVE  Service!Next
<1> DEFINE m == [j \in 1..k |-> sent[p] + j]
<1>1. /\ Active(p) /\ ~link[p].fin
      /\ toServer' = [toServer EXCEPT ![p] = @ \o m]
      /\ sent' = [sent EXCEPT ![p] = @ + k]
      /\ UNCHANGED <<clients, link, toPeer, received>>
  BY DEF Send, serverVars
<1>2. ~Lost(link[p]) /\ ~CutOf(link, p)
  <2>1. link[p].left => link[p].fin \/ link[p].rst
    BY DEF IInv, Linked
  <2>2. QED
    BY <1>1, <2>1 DEF Active, Lost, CutOf
<1>3. /\ StoredIn(clients, p) \in Seq(Nat)
      /\ toPeer[p] \in Seq(Nat) /\ toServer[p] \in Seq(Nat)
  BY Parts
<1>4. m \in Seq(Nat)
  <2>1. sent[p] \in Nat /\ k \in Nat
    BY ServerAssumption DEF IInv, Typed
  <2>2. QED
    BY <2>1
<1> HIDE DEF m
<1>5. /\ toServer'[p] = toServer[p] \o m
      /\ \A q \in Peer : q # p => toServer'[q] = toServer[q]
  BY <1>1 DEF IInv, Typed
<1>6. pipe'[p] = pipe[p] \o m
  <2> DEFINE a == toPeer[p] \o StoredIn(clients, p)
  <2>1. a \in Seq(Nat)
    BY <1>3, ConcatProperties
  <2> HIDE DEF a
  <2>2. a \o (toServer[p] \o m) = (a \o toServer[p]) \o m
    BY <1>3, <1>4, <2>1, Regroup
  <2>3. pipe[p] = a \o toServer[p] /\ pipe'[p] = a \o (toServer[p] \o m)
    BY <1>1, <1>2, <1>5, Mapping DEF PipeOf, a
  <2>4. QED
    BY <2>2, <2>3
<1>7. \A q \in Peer : q # p => pipe'[q] = pipe[q]
  BY <1>1, <1>5, Mapping DEF PipeOf
<1>8. pipe = [q \in Peer |-> pipe[q]] /\ pipe' = [q \in Peer |-> pipe'[q]]
  BY Mapping
<1>9. pipe' = [pipe EXCEPT ![p] = pipe[p] \o m]
  BY <1>6, <1>7, <1>8
<1>10. cut' = cut /\ p \notin cut
  BY <1>1, <1>2, Mapping DEF cut, Gone
<1>11. Service!Send(p, k)
  BY <1>1, <1>9, <1>10 DEF Service!Send, m
<1>12. QED
  BY <1>11 DEF Service!Next

\* Receiving takes the byte at the near end
LEMMA ReceiveRefines ==
    ASSUME IInv, NEW p \in Peer, Receive(p)
    PROVE  Service!Next
<1>1. /\ toPeer[p] # <<>> /\ ~link[p].left
      /\ received' = [received EXCEPT ![p] = Append(@, Head(toPeer[p]))]
      /\ toPeer' = [toPeer EXCEPT ![p] = Tail(@)]
      /\ UNCHANGED <<clients, link, toServer, sent>>
  BY DEF Receive, serverVars
<1>2. ~Lost(link[p])
  BY <1>1 DEF IInv, Linked, Lost
<1>3. /\ StoredIn(clients, p) \in Seq(Nat)
      /\ toPeer[p] \in Seq(Nat) /\ toServer[p] \in Seq(Nat)
  BY Parts
<1>4. /\ toPeer'[p] = Tail(toPeer[p])
      /\ \A q \in Peer : q # p => toPeer'[q] = toPeer[q]
  BY <1>1 DEF IInv, Typed
<1>5. /\ pipe[p] # <<>> /\ Head(pipe[p]) = Head(toPeer[p])
      /\ pipe'[p] = Tail(pipe[p])
  <2> DEFINE t  == toPeer[p]
             st == StoredIn(clients, p)
             u  == toServer[p]
             a  == t \o st
  <2>1. pipe[p] = a \o u /\ pipe'[p] = (Tail(t) \o st) \o u
    BY <1>1, <1>2, <1>4, Mapping DEF PipeOf
  <2> HIDE DEF t, st, u
  <2>2. t \in Seq(Nat) /\ st \in Seq(Nat) /\ u \in Seq(Nat) /\ t # <<>>
    BY <1>1, <1>3 DEF t, st, u
  <2>3. /\ a # <<>> /\ Head(a) = Head(t) /\ Tail(a) = Tail(t) \o st
    BY <2>2, HeadOfConcat
  <2>4. a \in Seq(Nat)
    BY <2>2, ConcatProperties
  <2> HIDE DEF a
  <2>5. /\ a \o u # <<>> /\ Head(a \o u) = Head(a) /\ Tail(a \o u) = Tail(a) \o u
    BY <2>2, <2>3, <2>4, HeadOfConcat
  <2>6. QED
    BY <2>1, <2>3, <2>5 DEF t
<1>6. \A q \in Peer : q # p => pipe'[q] = pipe[q]
  BY <1>1, <1>4, Mapping DEF PipeOf
<1>7. pipe = [q \in Peer |-> pipe[q]] /\ pipe' = [q \in Peer |-> pipe'[q]]
  BY Mapping
<1>8. pipe' = [pipe EXCEPT ![p] = Tail(pipe[p])]
  BY <1>5, <1>6, <1>7
<1>9. cut' = cut
  BY <1>1 DEF cut, Gone
<1>10. Service!Deliver(p)
  BY <1>1, <1>5, <1>8, <1>9 DEF Service!Deliver
<1>11. QED
  BY <1>10 DEF Service!Next

\* Shutting down leaves the queue as it is; closing and a reset lose it
LEMMA EndRefines ==
    ASSUME IInv, NEW p \in Peer, Shutdown(p) \/ Close(p) \/ Reset(p)
    PROVE  Service!Next \/ UNCHANGED Service!vars
<1>1. /\ Active(p) /\ UNCHANGED <<clients, toServer, sent, received>>
      /\ link \in [Peer -> LinkRecord] /\ toPeer \in [Peer -> SocketBytes]
  BY DEF Shutdown, Close, Reset, serverVars, peerVars, IInv, Linked, Typed
<1>2. CASE Shutdown(p)
  <2>1. /\ link' = [link EXCEPT ![p].fin = TRUE] /\ toPeer' = toPeer
    BY <1>2 DEF Shutdown
  <2>2. /\ link'[p].state = link[p].state /\ Lost(link'[p]) = Lost(link[p])
        /\ \A q \in Peer : q # p => link'[q] = link[q]
    BY <1>1, <2>1 DEF LinkRecord, Lost
  <2>3. \A q \in Peer : /\ PipeOf(link', clients', toPeer', toServer', q)
                           = PipeOf(link, clients, toPeer, toServer, q)
                        /\ CutOf(link', q) <=> CutOf(link, q)
    BY <1>1, <2>1, <2>2 DEF PipeOf, CutOf
  <2>4. UNCHANGED Service!vars
    BY <1>1, <2>3, Stutter
  <2>5. QED
    BY <2>4
<1>3. CASE Close(p) \/ Reset(p)
  <2>1. /\ ~link[p].left /\ toPeer' = [toPeer EXCEPT ![p] = <<>>]
        /\ \/ link' = [link EXCEPT ![p].fin = TRUE, ![p].left = TRUE]
           \/ link' = [link EXCEPT ![p].rst = TRUE, ![p].left = TRUE]
    BY <1>3 DEF Close, Reset
  <2>2. link'[p].left /\ \A q \in Peer : q # p => link'[q] = link[q]
    BY <1>1, <2>1 DEF LinkRecord
  <2>3. \A q \in Peer : q # p => toPeer'[q] = toPeer[q]
    BY <1>1, <2>1
  <2>4. ~CutOf(link, p) /\ CutOf(link', p)
    BY <1>1, <2>1, <2>2 DEF CutOf, Lost, Active
  <2>5. ASSUME NEW q \in Peer, q # p
        PROVE  /\ PipeOf(link', clients', toPeer', toServer', q)
                  = PipeOf(link, clients, toPeer, toServer, q)
               /\ CutOf(link', q) <=> CutOf(link, q)
    BY <1>1, <2>2, <2>3, <2>5, Others
  <2> DEFINE Q == PipeOf(link, clients, toPeer, toServer, p)
  <2>6. Q \in Seq(Nat)
    BY Parts
  <2>7. PipeOf(link', clients', toPeer', toServer', p) = <<>>
    BY <2>2 DEF PipeOf, Lost
  <2> HIDE DEF Q
  <2>8. 0 \in 0..Len(Q) /\ SubSeq(Q, 1, 0) = <<>>
    BY <2>6, LenProperties, SubSeqEmpty
  <2>9. /\ 0 \in 0..Len(PipeOf(link, clients, toPeer, toServer, p))
        /\ PipeOf(link', clients', toPeer', toServer', p)
           = SubSeq(PipeOf(link, clients, toPeer, toServer, p), 1, 0)
    BY <2>7, <2>8 DEF Q
  <2>10. Service!Next
    BY <1>1, <2>4, <2>5, <2>9, CutRefines
  <2>11. QED
    BY <2>10
<1>4. QED
  BY <1>2, <1>3

\* Every step of the server and of its surroundings is a step of the service, or one
\* the service does not see
LEMMA StepRefines ==
    ASSUME IInv, IInv', [Next]_vars
    PROVE  [Service!Next]_(Service!vars)
<1>1. CASE StartSleeping \/ WakeUp \/ TimeOut \/ ExpireDone \/ EventsDone \/ OnSignal
           \/ UnwindDone \/ Signal \/ Tick
  <2>1. UNCHANGED <<clients, link, toServer, toPeer, sent, received>>
    BY <1>1 DEF StartSleeping, WakeUp, TimeOut, ExpireDone, EventsDone, OnSignal,
                UnwindDone, Signal, Tick, serverVars, kernelVars, peerVars
  <2>2. QED
    BY <2>1, QuietRefines
<1>2. CASE ExpireOne
  <2> DEFINE f == GetMin(dc).client
  <2>1. /\ ~IsEmpty(dc) /\ Destroy(f, dc, clients[f].it)
        /\ sent' = sent /\ received' = received
    BY <1>2 DEF ExpireOne, MoreExpired, peerVars
  <2>2. f \in DOMAIN clients
    BY <2>1, LeastClient DEF IInv
  <2>3. QED
    BY <2>1, <2>2, DestroyRefines
<1>3. CASE UnwindOne
  BY <1>3, DestroyRefines DEF UnwindOne, peerVars
<1>4. CASE OnListen
  BY <1>4, OnListenRefines
<1>5. CASE OnReadable
  BY <1>5, OnReadableRefines
<1>6. CASE OnWritable
  BY <1>6, OnWritableRefines
<1>7. CASE PeerStep
  <2>1. PICK p \in Peer : \/ Connect(p)
                          \/ \E k \in 1..MaxSend : Send(p, k)
                          \/ Receive(p)
                          \/ Shutdown(p) \/ Close(p) \/ Reset(p)
    BY <1>7 DEF PeerStep
  <2>2. QED
    BY <2>1, ConnectRefines, SendRefines, ReceiveRefines, EndRefines
<1>8. CASE UNCHANGED vars
  <2>1. UNCHANGED <<clients, link, toServer, toPeer, sent, received>>
    BY <1>8 DEF vars, serverVars, kernelVars, peerVars
  <2>2. QED
    BY <2>1, QuietRefines
<1>9. QED
  BY <1>1, <1>2, <1>3, <1>4, <1>5, <1>6, <1>7, <1>8 DEF Next, ServerStep

\* The service starts with empty queues
LEMMA InitRefines == Init => Service!Init
<1>1. SUFFICES ASSUME Init PROVE Service!Init
  OBVIOUS
<1>2. ASSUME NEW p \in Peer
      PROVE  PipeOf(link, clients, toPeer, toServer, p) = <<>> /\ ~CutOf(link, p)
  <2>1. /\ link[p] = NoLink /\ toPeer[p] = <<>> /\ toServer[p] = <<>>
        /\ DOMAIN clients = {}
    BY <1>1 DEF Init
  <2>2. ~Lost(link[p]) /\ link[p].state = "none"
    BY <2>1 DEF Lost, NoLink
  <2>3. StoredIn(clients, p) = <<>>
    BY <2>1, StoredNone
  <2>4. <<>> \o <<>> \o <<>> = <<>>
    BY EmptySeq, ConcatEmptySeq
  <2>5. QED
    BY <2>1, <2>2, <2>3, <2>4 DEF PipeOf, CutOf
<1>3. pipe = [p \in Peer |-> <<>>] /\ cut = {}
  BY <1>2, Mapping DEF cut
<1>4. QED
  BY <1>1, <1>3 DEF Init, Service!Init

\* Each peer gets back what it sent, in order, without loss or duplication until its
\* connection ends (README.md:4): the server implements EchoService
THEOREM ServerImplementsService == Spec => ImplementsEchoService
<1>1. Init => Service!Init
  BY InitRefines
<1>2. IInv /\ IInv' /\ [Next]_vars => [Service!Next]_(Service!vars)
  BY StepRefines
<1>3. QED
  BY <1>1, <1>2, InvariantHolds, PTL DEF Spec, ImplementsEchoService, Service!Spec
=============================================================================
