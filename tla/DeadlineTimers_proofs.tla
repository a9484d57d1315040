------------------------ MODULE DeadlineTimers_proofs ------------------------
(***************************************************************************)
(* The container with its clients: its invariants and its refinement of    *)
(* TimerSet, for any clients, timeouts and deadlines.  The invariants are  *)
(* inductive together: the operations need the container consistent, and   *)
(* that the iterators they are given are valid.                            *)
(***************************************************************************)
EXTENDS DeadlineTimers, DeadlineContainer_proofs

IInv == TypeOK /\ ContainerConsistent /\ IteratorsValid

\* What the clients hold are the nodes of a good container
LEMMA InvMeaning ==
    ASSUME IInv
    PROVE  /\ GoodContainer(dc)
           /\ \A c \in DOMAIN held :
                  /\ held[c] \in Wrapper /\ held[c].client = c
                  /\ held[c].deadline <= TimeMax /\ InQueue(dc, held[c])
           /\ \A x : InQueue(dc, x) => x.client \in DOMAIN held /\ held[x.client] = x
<1>1. GoodContainer(dc)
  BY GoodContainerNecessary DEF IInv, TypeOK, ContainerConsistent
<1>2. ASSUME NEW x, InQueue(dc, x) PROVE x.client \in DOMAIN held /\ held[x.client] = x
  BY <1>2 DEF IInv, IteratorsValid, InQueue
<1>3. \A c \in DOMAIN held :
          /\ held[c] \in Wrapper /\ held[c].client = c
          /\ held[c].deadline <= TimeMax /\ InQueue(dc, held[c])
  BY TimeAssumption DEF IInv, IteratorsValid, TypeOK
<1>4. QED
  BY <1>1, <1>2, <1>3

\* The container takes TimeMax as the deadline of any of its queues
LEMMA TimeMaxNotBefore ==
    ASSUME IInv, NEW t
    PROVE  NotBefore(dc, t, TimeMax)
<1>1. SUFFICES ASSUME t \in DOMAIN dc.timeouts, NEW i \in 1..Len(dc.timeouts[t])
               PROVE  dc.timeouts[t][i].deadline <= TimeMax
  BY DEF NotBefore
<1> DEFINE x == dc.timeouts[t][i]
<1>2. GoodQueue(dc.timeouts[t], t)
  BY <1>1, InvMeaning DEF GoodContainer, GoodQueues
<1>3. InQueue(dc, x)
  BY <1>1, <1>2 DEF InQueue, GoodQueue
<1>4. QED
  BY <1>3, InvMeaning

\* What is left to show of a step once the operation's lemma is known
LEMMA InvFrom ==
    ASSUME GoodContainer(dc'),
           held' = [c \in DOMAIN held' |-> held'[c]],
           DOMAIN held' \subseteq Client,
           \A c \in DOMAIN held' : /\ held'[c] \in Wrapper /\ held'[c].client = c
                                   /\ held'[c].deadline \in Deadline
                                   /\ InQueue(dc', held'[c]),
           \A x : InQueue(dc', x) => x.client \in DOMAIN held' /\ held'[x.client] = x,
           min' \in Client \cup {NoClient}
    PROVE  IInv'
<1>1. ContainerType(dc') /\ Consistent(dc')
  BY GoodContainerSuffices
<1>2. TypeOK' /\ ContainerConsistent'
  BY <1>1 DEF TypeOK, ContainerConsistent
<1>3. ASSUME NEW t \in DOMAIN dc'.timeouts, NEW i \in 1..Len(dc'.timeouts[t])
      PROVE  InQueue(dc', dc'.timeouts[t][i])
  <2>1. GoodQueue(dc'.timeouts[t], t)
    BY DEF GoodContainer, GoodQueues
  <2>2. QED
    BY <2>1 DEF InQueue, GoodQueue
<1>4. IteratorsValid'
  BY <1>3 DEF IteratorsValid
<1>5. QED
  BY <1>2, <1>4 DEF IInv

\* An empty container and no clients
LEMMA InitInv == Init => IInv
<1> SUFFICES ASSUME Init PROVE IInv
  OBVIOUS
<1>1. ContainerType(dc) /\ Consistent(dc)
  BY NewContainerGood, GoodContainerSuffices DEF Init
<1>2. QED
  BY <1>1 DEF Init, IInv, TypeOK, ContainerConsistent, IteratorsValid, NewContainer

\* A new client is put in a queue and gets its iterator (deadline_container.h)
LEMMA AddStep ==
    ASSUME IInv, NEW c \in Client, NEW t \in Timeout, NEW d \in Deadline, AddClient(c, t, d)
    PROVE  IInv'
<1> DEFINE n == [timeout |-> t, deadline |-> d, client |-> c]
<1>1. n \in Wrapper /\ n.timeout = t /\ n.deadline = d /\ n.client = c
  BY TimeAssumption DEF Wrapper
<1> HIDE DEF n
<1>2. /\ c \notin DOMAIN held /\ NotBefore(dc, n.timeout, n.deadline)
      /\ dc' = Add(dc, n)
      /\ held' = MapInsert(held, c, n)
      /\ min' = NoClient
  BY <1>1 DEF AddClient, n
<1>3. \A x : InQueue(dc, x) => x.client # n.client
  BY <1>1, <1>2, InvMeaning
<1>4. /\ GoodContainer(dc')
      /\ \A x : InQueue(dc', x) <=> x = n \/ InQueue(dc, x)
  BY <1>1, <1>2, <1>3, AddCorrect, InvMeaning
<1>5. /\ DOMAIN held' = DOMAIN held \cup {c}
      /\ held' = [y \in DOMAIN held' |-> held'[y]]
      /\ held'[c] = n
      /\ \A y \in DOMAIN held : y # c /\ held'[y] = held[y]
  BY <1>2 DEF MapInsert
<1>6. DOMAIN held \subseteq Client /\ \A y \in DOMAIN held : held[y].deadline \in Deadline
  BY DEF IInv, TypeOK
<1>7. \A y \in DOMAIN held' : /\ held'[y] \in Wrapper /\ held'[y].client = y
                              /\ held'[y].deadline \in Deadline
                              /\ InQueue(dc', held'[y])
  BY <1>1, <1>4, <1>5, <1>6, InvMeaning
<1>8. ASSUME NEW x, InQueue(dc', x)
      PROVE  x.client \in DOMAIN held' /\ held'[x.client] = x
  BY <1>1, <1>4, <1>5, <1>8, InvMeaning
<1>9. QED
  BY <1>2, <1>4, <1>5, <1>6, <1>7, <1>8, InvFrom

\* A client gets a later deadline and with it a new iterator
LEMMA UpdateStep ==
    ASSUME IInv, NEW c \in Client, NEW d \in Deadline, UpdateClient(c, d)
    PROVE  IInv'
<1> DEFINE it == held[c]
           n == Renewed(it, d)
<1>1. /\ c \in DOMAIN held /\ NotBefore(dc, it.timeout, d)
      /\ dc' = Update(dc, it, d)
      /\ held' = [held EXCEPT ![c] = n]
      /\ min' = NoClient
  BY DEF UpdateClient
<1>2. it \in Wrapper /\ it.client = c /\ InQueue(dc, it) /\ d \in Nat
  BY <1>1, InvMeaning, TimeAssumption
<1>3. n \in Wrapper /\ n.deadline = d /\ n.client = c
  BY <1>2 DEF Renewed, Wrapper
<1> HIDE DEF it, n
<1>4. /\ GoodContainer(dc')
      /\ \A x : InQueue(dc', x) <=> x = n \/ (x # it /\ InQueue(dc, x))
  BY <1>1, <1>2, UpdateCorrect, InvMeaning DEF n
<1>5. /\ DOMAIN held' = DOMAIN held
      /\ held' = [y \in DOMAIN held' |-> held'[y]]
      /\ held'[c] = n
      /\ \A y \in DOMAIN held : y # c => held'[y] = held[y]
  BY <1>1 DEF IInv, TypeOK
<1>6. DOMAIN held \subseteq Client /\ \A y \in DOMAIN held : held[y].deadline \in Deadline
  BY DEF IInv, TypeOK
<1>7. ASSUME NEW y \in DOMAIN held'
      PROVE  /\ held'[y] \in Wrapper /\ held'[y].client = y
             /\ held'[y].deadline \in Deadline
             /\ InQueue(dc', held'[y])
  <2>1. CASE y = c
    BY <1>3, <1>4, <1>5, <2>1
  <2>2. CASE y # c
    <3>1. held'[y] = held[y] /\ held[y].client = y /\ held[y] \in Wrapper /\ InQueue(dc, held[y])
      BY <1>5, <2>2, InvMeaning
    <3>2. held[y] # it
      BY <1>2, <2>2, <3>1
    <3>3. QED
      BY <1>4, <1>5, <1>6, <3>1, <3>2
  <2>3. QED
    BY <2>1, <2>2
<1>8. ASSUME NEW x, InQueue(dc', x)
      PROVE  x.client \in DOMAIN held' /\ held'[x.client] = x
  <2>1. CASE x = n
    BY <1>1, <1>3, <1>5, <2>1
  <2>2. CASE x # it /\ InQueue(dc, x)
    <3>1. x.client \in DOMAIN held /\ held[x.client] = x
      BY <2>2, InvMeaning
    <3>2. x.client # c
      BY <2>2, <3>1 DEF it
    <3>3. QED
      BY <1>5, <3>1, <3>2
  <2>3. QED
    BY <1>4, <1>8, <2>1, <2>2
<1>9. QED
  BY <1>1, <1>4, <1>5, <1>6, <1>7, <1>8, InvFrom

\* A client gives back its iterator
LEMMA RemoveStep ==
    ASSUME IInv, NEW c \in Client, RemoveClient(c)
    PROVE  IInv'
<1> DEFINE it == held[c]
<1>1. /\ c \in DOMAIN held
      /\ dc' = RemoveNode(dc, it)
      /\ held' = MapErase(held, c)
      /\ min' = NoClient
  BY DEF RemoveClient
<1>2. it.client = c /\ InQueue(dc, it) /\ NotBefore(dc, it.timeout, TimeMax)
  BY <1>1, InvMeaning, TimeMaxNotBefore
<1> HIDE DEF it
<1>3. /\ GoodContainer(dc')
      /\ \A x : InQueue(dc', x) <=> x # it /\ InQueue(dc, x)
  BY <1>1, <1>2, RemoveCorrect, InvMeaning
<1>4. /\ DOMAIN held' = DOMAIN held \ {c}
      /\ held' = [y \in DOMAIN held' |-> held'[y]]
      /\ \A y \in DOMAIN held' : held'[y] = held[y]
  BY <1>1 DEF MapErase
<1>5. DOMAIN held \subseteq Client /\ \A y \in DOMAIN held : held[y].deadline \in Deadline
  BY DEF IInv, TypeOK
<1>6. ASSUME NEW y \in DOMAIN held'
      PROVE  /\ held'[y] \in Wrapper /\ held'[y].client = y
             /\ held'[y].deadline \in Deadline
             /\ InQueue(dc', held'[y])
  <2>1. y # c /\ held'[y] = held[y] /\ held[y].client = y /\ held[y] \in Wrapper /\ InQueue(dc, held[y])
    BY <1>4, InvMeaning
  <2>2. held[y] # it
    BY <1>2, <2>1
  <2>3. QED
    BY <1>3, <1>4, <1>5, <2>1, <2>2
<1>7. ASSUME NEW x, InQueue(dc', x)
      PROVE  x.client \in DOMAIN held' /\ held'[x.client] = x
  <2>1. x # it /\ x.client \in DOMAIN held /\ held[x.client] = x
    BY <1>3, <1>7, InvMeaning
  <2>2. x.client # c
    BY <2>1 DEF it
  <2>3. QED
    BY <1>4, <2>1, <2>2
<1>8. QED
  BY <1>1, <1>3, <1>4, <1>5, <1>6, <1>7, InvFrom

\* The least deadline is that of some client, and nothing changes but the answer
LEMMA AskStep ==
    ASSUME IInv, AskMin
    PROVE  IInv' /\ min' \in DOMAIN held /\ \A y \in DOMAIN held : held[min'].deadline <= held[y].deadline
<1>1. InQueue(dc, GetMin(dc)) /\ \A x : InQueue(dc, x) => GetMin(dc).deadline <= x.deadline
  BY GetMinCorrect, InvMeaning DEF AskMin
<1>2. min' \in DOMAIN held /\ held[min'] = GetMin(dc)
  BY <1>1, InvMeaning DEF AskMin
<1>3. min' \in Client
  BY <1>2 DEF IInv, TypeOK
<1>4. IInv'
  BY <1>3 DEF AskMin, IInv, TypeOK, ContainerConsistent, IteratorsValid
<1>5. \A y \in DOMAIN held : held[min'].deadline <= held[y].deadline
  BY <1>1, <1>2, InvMeaning
<1>6. QED
  BY <1>2, <1>4, <1>5

\* Every step keeps the invariant
LEMMA NextInv == IInv /\ [Next]_vars => IInv'
<1> SUFFICES ASSUME IInv, [Next]_vars PROVE IInv'
  OBVIOUS
<1>1. CASE \E c \in Client, t \in Timeout, d \in Deadline : AddClient(c, t, d)
  BY <1>1, AddStep
<1>2. CASE \E c \in Client, d \in Deadline : UpdateClient(c, d)
  BY <1>2, UpdateStep
<1>3. CASE \E c \in Client : RemoveClient(c)
  BY <1>3, RemoveStep
<1>4. CASE AskMin
  BY <1>4, AskStep
<1>5. CASE UNCHANGED vars
  BY <1>5 DEF vars, IInv, TypeOK, ContainerConsistent, IteratorsValid
<1>6. QED
  BY <1>1, <1>2, <1>3, <1>4, <1>5 DEF Next

-----------------------------------------------------------------------------
\* The types of the container, of the iterators its clients keep and of the
\* answer of get_min hold in every reachable state
THEOREM TypeCorrect == Spec => []TypeOK
<1>1. IInv => TypeOK
  BY DEF IInv
<1>2. QED
  BY InitInv, NextInv, <1>1, PTL DEF Spec

\* The queues, the two maps and the multimap agree after any sequence of calls
\* that respects the precondition of add and update
THEOREM ContainerStaysConsistent == Spec => []ContainerConsistent
<1>1. IInv => ContainerConsistent
  BY DEF IInv
<1>2. QED
  BY InitInv, NextInv, <1>1, PTL DEF Spec

\* No client is ever left with an iterator to an erased node, and no node
\* outlives its client
THEOREM IteratorsStayValid == Spec => []IteratorsValid
<1>1. IInv => IteratorsValid
  BY DEF IInv
<1>2. QED
  BY InitInv, NextInv, <1>1, PTL DEF Spec

\* The container is empty when it has no client, and otherwise get_min is a
\* least deadline: the assertion of deadline_container_tester.cpp:84
THEOREM MinAlwaysLeast == Spec => []MinIsLeast
<1>1. ASSUME IInv PROVE MinIsLeast
  <2>1. CASE DOMAIN held = {}
    <3>1. \A x : ~InQueue(dc, x)
      BY <1>1, <2>1, InvMeaning
    <3>2. ASSUME NEW t \in DOMAIN dc.timeouts PROVE FALSE
      <4>1. GoodQueue(dc.timeouts[t], t) /\ Len(dc.timeouts[t]) > 0
        BY <1>1, InvMeaning DEF GoodContainer, GoodQueues
      <4>2. InQueue(dc, dc.timeouts[t][1])
        BY <4>1, QueueHead, InQueueIn
      <4>3. QED
        BY <3>1, <4>2
    <3>3. QED
      BY <2>1, <3>2 DEF MinIsLeast, IsEmpty
  <2>2. CASE DOMAIN held # {}
    <3>1. PICK c : c \in DOMAIN held
      BY <2>2
    <3>2. ~IsEmpty(dc)
      BY <1>1, <3>1, InvMeaning DEF IsEmpty, InQueue
    <3>3. \A c1 \in DOMAIN held : GetMin(dc).deadline <= held[c1].deadline
      BY <1>1, <3>2, InvMeaning, GetMinCorrect
    <3>4. QED
      BY <2>2, <3>2, <3>3 DEF MinIsLeast
  <2>3. QED
    BY <2>1, <2>2
<1>2. QED
  BY InitInv, NextInv, <1>1, PTL DEF Spec

\* The nodes in the queues are those the clients hold, so that the refinement
\* mapping may be read off the clients' iterators
ReadOffHeld == armed = [c \in DOMAIN held |-> held[c].deadline]

\* In every state of the invariant the mapping is what the clients hold
LEMMA ArmedIsHeld == IInv => ReadOffHeld
<1> SUFFICES ASSUME IInv PROVE armed = [c \in DOMAIN held |-> held[c].deadline]
  BY DEF ReadOffHeld
<1>1. ASSUME NEW t \in DOMAIN dc.timeouts, NEW i \in 1..Len(dc.timeouts[t])
      PROVE  /\ dc.timeouts[t][i].client \in DOMAIN held
             /\ held[dc.timeouts[t][i].client] = dc.timeouts[t][i]
  BY DEF IInv, IteratorsValid
<1>2. ASSUME NEW c \in DOMAIN held
      PROVE  c \in Client /\ \E t \in DOMAIN dc.timeouts : Queued(t, c)
  <2>1. held[c].client = c /\ InQueue(dc, held[c]) /\ c \in Client
    BY DEF IInv, IteratorsValid, TypeOK
  <2>2. QED
    BY <2>1 DEF InQueue, Queued
<1>3. {x \in Client : \E t \in DOMAIN dc.timeouts : Queued(t, x)} = DOMAIN held
  BY <1>1, <1>2 DEF Queued
<1>4. ASSUME NEW c \in DOMAIN held PROVE NodeOf(c) = held[c]
  <2> DEFINE t == CHOOSE u \in DOMAIN dc.timeouts : Queued(u, c)
  <2> DEFINE q == dc.timeouts[t]
  <2> DEFINE i == CHOOSE j \in 1..Len(q) : q[j].client = c
  <2>1. t \in DOMAIN dc.timeouts /\ Queued(t, c)
    BY <1>2
  <2>2. i \in 1..Len(q) /\ q[i].client = c
    BY <2>1 DEF Queued
  <2>3. NodeOf(c) = q[i]
    BY DEF NodeOf
  <2>4. QED
    BY <1>1, <2>1, <2>2, <2>3
<1>5. QED
  BY <1>3, <1>4 DEF armed

\* The container with its four structures is a set of timers: every call changes
\* the one deadline it is about, and get_min names a client none is due before
THEOREM RefinesTimerSet == Spec => ImplementsTimerSet
<1>1. Init => Timers!Init
  <2>1. ASSUME Init PROVE armed = [c \in {} |-> 0]
    BY <2>1 DEF Init, armed, NewContainer
  <2>2. QED
    BY <2>1 DEF Init, Timers!Init
<1>2. ASSUME IInv, [Next]_vars PROVE [Timers!Next]_Timers!vars
  <2> USE DEF Timers!Next, Timers!vars
  <2>a. armed = [c \in DOMAIN held |-> held[c].deadline]
    BY <1>2, ArmedIsHeld DEF ReadOffHeld
  <2>b. armed' = [c \in DOMAIN held' |-> held'[c].deadline]
    <3>1. IInv'
      BY <1>2, NextInv
    <3>2. ReadOffHeld'
      BY <3>1, ArmedIsHeld, PTL
    <3>3. QED
      BY <3>2 DEF ReadOffHeld
  <2>0. held = [c \in DOMAIN held |-> held[c]]
    BY <1>2 DEF IInv, TypeOK
  <2>1. ASSUME NEW c \in Client, NEW t \in Timeout, NEW d \in Deadline, AddClient(c, t, d)
        PROVE  Timers!Arm(c, d)
    <3>1. /\ c \notin DOMAIN held /\ min' = NoClient
          /\ DOMAIN held' = DOMAIN held \cup {c}
          /\ held'[c].deadline = d
          /\ \A x \in DOMAIN held : held'[x] = held[x]
      BY <2>1 DEF AddClient, MapInsert
    <3>2. QED
      BY <2>a, <2>b, <3>1 DEF Timers!Arm
  <2>2. ASSUME NEW c \in Client, NEW d \in Deadline, UpdateClient(c, d)
        PROVE  Timers!Rearm(c, d)
    <3>1. /\ c \in DOMAIN held /\ min' = NoClient
          /\ held' = [held EXCEPT ![c] = Renewed(held[c], d)]
      BY <2>2 DEF UpdateClient
    <3>2. held[c] \in Wrapper
      BY <1>2, <3>1, InvMeaning
    <3>3. Renewed(held[c], d).deadline = d
      BY <3>2 DEF Renewed, Wrapper
    <3>4. /\ DOMAIN held' = DOMAIN held
          /\ held'[c].deadline = d
          /\ \A x \in DOMAIN held : x # c => held'[x] = held[x]
      BY <2>0, <3>1, <3>3
    <3>5. QED
      BY <2>a, <2>b, <3>1, <3>4 DEF Timers!Rearm
  <2>3. ASSUME NEW c \in Client, RemoveClient(c) PROVE Timers!Disarm(c)
    <3>1. /\ c \in DOMAIN held /\ min' = NoClient
          /\ DOMAIN held' = DOMAIN held \ {c}
          /\ \A x \in DOMAIN held' : held'[x] = held[x]
      BY <2>3 DEF RemoveClient, MapErase
    <3>2. QED
      BY <2>a, <2>b, <3>1 DEF Timers!Disarm
  <2>4. ASSUME AskMin PROVE \E c \in Client : Timers!GetMin(c)
    <3>1. /\ min' \in DOMAIN held /\ held' = held
          /\ \A y \in DOMAIN held : held[min'].deadline <= held[y].deadline
      BY <1>2, <2>4, AskStep DEF AskMin
    <3>2. min' \in Client
      BY <1>2, <3>1 DEF IInv, TypeOK
    <3>3. Timers!GetMin(min')
      BY <2>a, <2>b, <3>1 DEF Timers!GetMin
    <3>4. QED
      BY <3>2, <3>3
  <2>5. CASE UNCHANGED vars
    BY <2>a, <2>b, <2>5 DEF vars
  <2>6. QED
    BY <1>2, <2>1, <2>2, <2>3, <2>4, <2>5 DEF Next
<1>3. QED
  BY InitInv, NextInv, <1>1, <1>2, PTL DEF Spec, ImplementsTimerSet, Timers!Spec
=============================================================================
