------------------------- MODULE DeadlineContainer -------------------------
(***************************************************************************)
(* timeouts/deadline_container.{h,cpp}: the store of upcoming deadlines of *)
(* the echo server, as operators over one record                           *)
(*                                                                         *)
(*   timeouts            std::map<int, list_ptr>: the queue of a timeout   *)
(*   multimap_iterators  std::map<int, multimap_iterator>: where the queue *)
(*                       of a timeout is in the multimap                   *)
(*   deadlines           std::multimap<time_t, list_ptr>: the queues by    *)
(*                       the deadline their heads had when inserted        *)
(*                                                                         *)
(* A queue (std::list behind a shared_ptr) lives in timeouts and is named  *)
(* by its timeout in the multimap.  The multimap is the sequence of its    *)
(* entries in iteration order, and a multimap iterator is the entry it     *)
(* points to: an entry never changes and two entries name different        *)
(* queues.  A list iterator is the node it points to, for the same reason: *)
(* a node never changes and each client has one node.                      *)
(*                                                                         *)
(* An operator whose name ends in a slip (Shl_Clears) is what the operator *)
(* below it would be with that slip in the code, in this module and the    *)
(* others: the properties are checked to notice it.                        *)
(***************************************************************************)
EXTENDS Integers, Sequences, SequencesExt, TLC

CONSTANTS
    Client,   \* what a node points to: the file_descriptor of a client
    Timeout,  \* the timeouts, in seconds
    Deadline, \* the values of time_t a caller passes
    TimeMax   \* numeric_limits<time_t>::max()

ASSUME TimeAssumption ==
    /\ Timeout \subseteq Nat
    /\ Deadline \subseteq Nat
    /\ TimeMax \in Nat
    /\ \A d \in Deadline : d <= TimeMax

\* deadline_wrapper
Wrapper == [timeout : Timeout, deadline : Nat, client : Client]
Entry   == [key : Nat, queue : Timeout]

NewContainer ==
    [timeouts           |-> [t \in {} |-> <<>>],
     multimap_iterators |-> [t \in {} |-> <<>>],
     deadlines          |-> <<>>]

-----------------------------------------------------------------------------
(* The standard containers the class is built from.                        *)

\* std::map::insert keeps the value of a key that is present
MapInsert(f, k, v) ==
    [x \in DOMAIN f \cup {k} |-> IF x \in DOMAIN f THEN f[x] ELSE v]

MapErase(f, k) == [x \in DOMAIN f \ {k} |-> f[x]]

\* The position of element e in sequence s: what an iterator to e denotes
IndexOf(s, e) == CHOOSE i \in 1..Len(s) : s[i] = e

ListErase(s, e) == RemoveAt(s, IndexOf(s, e))

\* The first position of multimap m whose key is greater than k
UpperBound(m, k) ==
    CHOOSE p \in 1..(Len(m) + 1) :
        /\ \A i \in 1..(p - 1) : m[i].key <= k
        /\ \A i \in p..Len(m) : m[i].key > k

MultimapInsert_AtEnd(m, e) == Append(m, e)

\* std::multimap::insert puts an entry after those with the same key
MultimapInsert(m, e) == InsertAt(m, UpperBound(m, e.key), e)

-----------------------------------------------------------------------------
(* The operations of the class.  dc is the container before the call.      *)

IsEmpty(dc) == DOMAIN dc.timeouts = {}

\* The node get_min() returns; its caller checks that dc is not empty
GetMin(dc) == dc.timeouts[dc.deadlines[1].queue][1]

\* add(n.timeout, n); the returned iterator is n
Add(dc, n) ==
    LET e == [key |-> n.deadline, queue |-> n.timeout]
    IN  IF n.timeout \in DOMAIN dc.timeouts
        THEN [dc EXCEPT !.timeouts[n.timeout] = Append(@, n)]
        ELSE [timeouts           |-> MapInsert(dc.timeouts, n.timeout, <<n>>),
              multimap_iterators |-> MapInsert(dc.multimap_iterators, n.timeout, e),
              deadlines          |-> MultimapInsert(dc.deadlines, e)]

Renewed_FromOld(it, d) == [it EXCEPT !.deadline = @ + it.timeout]

\* The node update(it, d) leaves in the place of it, and returns
Renewed(it, d) == [it EXCEPT !.deadline = d]

UpdateList_NoErase(q, it, d) == Append(q, Renewed(it, d))

UpdateList_ErasesHead(q, it, d) == Append(Tail(q), Renewed(it, d))

UpdateList(q, it, d) == Append(ListErase(q, it), Renewed(it, d))

Rekeyed_NoErase(its, t, e) == MapInsert(its, t, e)

\* The iterator of timeout t replaced: insert alone would keep the old one
Rekeyed(its, t, e) == MapInsert(MapErase(its, t), t, e)

\* update(it, d): the multimap changes only when it is the head of its queue
Update(dc, it, d) ==
    LET mm_it == dc.multimap_iterators[it.timeout]
        queue == dc.timeouts[mm_it.queue]
        moved == UpdateList(queue, it, d)
        e     == [key |-> moved[1].deadline, queue |-> mm_it.queue]
    IN  IF queue[1] = it
        THEN [timeouts           |-> [dc.timeouts EXCEPT ![mm_it.queue] = moved],
              multimap_iterators |-> Rekeyed(dc.multimap_iterators, it.timeout, e),
              deadlines          |-> MultimapInsert(ListErase(dc.deadlines, mm_it), e)]
        ELSE [dc EXCEPT !.timeouts[mm_it.queue] = moved]

RemoveNode_OnlyMoves(dc, it) == Update(dc, it, TimeMax)

\* remove(it) (SequencesExt has a Remove): first moved to the tail with the greatest deadline, then erased
RemoveNode(dc, it) ==
    LET u    == Update(dc, it, TimeMax)
        last == Renewed(it, TimeMax)
    IN  IF Len(u.timeouts[it.timeout]) = 1
        THEN [timeouts           |-> MapErase(u.timeouts, it.timeout),
              multimap_iterators |-> MapErase(u.multimap_iterators, it.timeout),
              deadlines          |->
                  ListErase(u.deadlines, u.multimap_iterators[it.timeout])]
        ELSE [u EXCEPT !.timeouts[it.timeout] = ListErase(@, last)]

-----------------------------------------------------------------------------
(* What the operations rely on and keep.                                   *)

\* Node n is in its queue: an iterator to it may be used
InQueue(dc, n) ==
    /\ n.timeout \in DOMAIN dc.timeouts
    /\ \E i \in 1..Len(dc.timeouts[n.timeout]) : dc.timeouts[n.timeout][i] = n

\* @pre of add and update as it is written: the deadline of the new node n "is greater,
\* than every other deadline in respective queue" (deadline_container.h:55, 78)
GreaterThanOthers(dc, n) ==
    n.timeout \in DOMAIN dc.timeouts =>
        \A i \in 1..Len(dc.timeouts[n.timeout]) :
            LET other == dc.timeouts[n.timeout][i]
            IN  other.client # n.client => other.deadline < n.deadline

\* What keeps the queue of timeout t sorted, and all that the server gives: no deadline in
\* it is later than d.  It is less than the header asks for: two clients may be armed in
\* one second
NotBefore(dc, t, d) ==
    t \in DOMAIN dc.timeouts =>
        \A i \in 1..Len(dc.timeouts[t]) : dc.timeouts[t][i].deadline <= d

ContainerType(dc) ==
    /\ dc = [timeouts           |-> dc.timeouts,
             multimap_iterators |-> dc.multimap_iterators,
             deadlines          |-> dc.deadlines]
    /\ dc.timeouts = [t \in DOMAIN dc.timeouts |-> dc.timeouts[t]]
    /\ dc.multimap_iterators =
           [t \in DOMAIN dc.multimap_iterators |-> dc.multimap_iterators[t]]
    /\ DOMAIN dc.timeouts \subseteq Timeout
    /\ DOMAIN dc.multimap_iterators \subseteq Timeout
    /\ \A t \in DOMAIN dc.timeouts : dc.timeouts[t] \in Seq(Wrapper)
    /\ \A t \in DOMAIN dc.multimap_iterators : dc.multimap_iterators[t] \in Entry
    /\ dc.deadlines \in Seq(Entry)

\* No empty queue stays; a queue holds nodes of its own timeout, one per client
QueuesWellFormed(dc) ==
    \A t \in DOMAIN dc.timeouts :
        LET q == dc.timeouts[t]
        IN  /\ Len(q) > 0
            /\ \A i \in 1..Len(q) : q[i].timeout = t
            /\ \A i, j \in 1..Len(q) : q[i].client = q[j].client => i = j

\* Within a queue deadlines do not decrease
QueuesSorted(dc) ==
    \A t \in DOMAIN dc.timeouts :
        LET q == dc.timeouts[t]
        IN  \A i, j \in 1..Len(q) : i <= j => q[i].deadline <= q[j].deadline

\* Both maps have the same keys, and the iterator kept for a timeout points
\* to an entry of the multimap whose key is the deadline at the queue's head
IteratorsFresh(dc) ==
    /\ DOMAIN dc.multimap_iterators = DOMAIN dc.timeouts
    /\ \A t \in DOMAIN dc.timeouts :
           /\ dc.multimap_iterators[t] =
                  [key |-> dc.timeouts[t][1].deadline, queue |-> t]
           /\ \E i \in 1..Len(dc.deadlines) : dc.deadlines[i] = dc.multimap_iterators[t]

\* Every entry of the multimap is the one its queue's iterator points to, no
\* queue has two, and the keys are in order
MultimapExact(dc) ==
    LET m == dc.deadlines
    IN  /\ \A i \in 1..Len(m) :
               /\ m[i].queue \in DOMAIN dc.timeouts
               /\ m[i] = dc.multimap_iterators[m[i].queue]
        /\ \A i, j \in 1..Len(m) : m[i].queue = m[j].queue => i = j
        /\ \A i, j \in 1..Len(m) : i <= j => m[i].key <= m[j].key

Consistent(dc) ==
    /\ QueuesWellFormed(dc)
    /\ QueuesSorted(dc)
    /\ IteratorsFresh(dc)
    /\ MultimapExact(dc)
=============================================================================
