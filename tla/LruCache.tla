------------------------------ MODULE LruCache ------------------------------
(***************************************************************************)
(* cpp/lru_cache/lru-cache.{h,cpp} at the level of its pointers: each node *)
(* is in a binary search tree by key and in a cyclic list by last use.     *)
(*                                                                         *)
(* The cache c is a record of node, the memory of the nodes, and head.     *)
(* Root is the fake node above the tree; its key is a number like others   *)
(* and only the tests against Root keep it out of comparisons.  An         *)
(* iterator is the address of a node.                                      *)
(***************************************************************************)
EXTENDS Integers, FiniteSets, SequencesExt

CONSTANTS
    Node,     \* the addresses operator new may return
    Root,     \* the address of the fake root
    Null,
    Key,      \* the keys that are used
    RootKey,  \* the number written into the fake root
    Value,
    Capacity,
    EraseLast \* a user may erase the only element

Address == Node \cup {Root}
Pointer == Address \cup {Null}
NoValue == "none"

ASSUME CacheAssumption ==
    /\ Root \notin Node /\ Null \notin Address
    /\ Key \subseteq Nat /\ RootKey \in Nat
    /\ NoValue \notin Value
    /\ Capacity \in Nat \ {0} /\ Capacity <= Cardinality(Node)
    /\ EraseLast \in BOOLEAN

VARIABLES
    c,     \* node: the fields of each node; head: the most recently used one
    live,  \* the nodes that are allocated, the root aside
    size

vars == <<c, live, size>>

Blank(k) == [key |-> k, value |-> NoValue, left |-> Null, right |-> Null, parent |-> Null,
             next |-> Null, prev |-> Null]

Init ==
    /\ c = [node |-> [n \in Address |-> Blank(RootKey)], head |-> Null]
    /\ live = {}
    /\ size = 0

-----------------------------------------------------------------------------
(* The tree.  h is the memory of the nodes.                                *)

\* The node with key k, or the one it would be a child of
FindByKey(h, k) ==
    LET from[n \in Address] ==
            IF n = Root \/ k < h[n].key
            THEN IF h[n].left = Null THEN n ELSE from[h[n].left]
            ELSE IF k > h[n].key
            THEN IF h[n].right = Null THEN n ELSE from[h[n].right]
            ELSE n
    IN  from[Root]

Found_Never(h, n, k) == FALSE

\* What find and insert test of the answer of FindByKey
Found(h, n, k) == n # Root /\ h[n].key = k

FindMin(h) ==
    LET down[n \in Address] == IF h[n].left = Null THEN n ELSE down[h[n].left]
    IN  down[Root]

Successor_NoClimb(h, n) ==
    LET down[x \in Address] == IF h[x].left = Null THEN x ELSE down[h[x].left]
    IN  IF h[n].right # Null THEN down[h[n].right] ELSE h[n].parent

\* operator++: down to the right and then left, or up until a left child
Successor(h, n) ==
    LET down[x \in Address] == IF h[x].left = Null THEN x ELSE down[h[x].left]
        up[x \in Address] ==
            IF h[x].parent = Null \/ x = h[h[x].parent].left THEN h[x].parent ELSE up[h[x].parent]
    IN  IF h[n].right # Null THEN down[h[n].right] ELSE up[n]

\* operator--, and what takes the place of a node with two children
Predecessor(h, n) ==
    LET down[x \in Address] == IF h[x].right = Null THEN x ELSE down[h[x].right]
        up[x \in Address] ==
            IF h[x].parent = Null \/ x = h[h[x].parent].right THEN h[x].parent ELSE up[h[x].parent]
    IN  IF h[n].left # Null THEN down[h[n].left] ELSE up[n]

IsLeft_NoRootTest(h, n, p) == h[n].key < h[p].key

\* On which side of p the node n goes, or is
IsLeft(h, n, p) == p = Root \/ h[n].key < h[p].key

\* p's pointer to n points to x
Relink(h, p, n, x) ==
    IF IsLeft(h, n, p) THEN [h EXCEPT ![p].left = x] ELSE [h EXCEPT ![p].right = x]

EraseNoChild(h, d) == Relink(h, h[d].parent, d, Null)

EraseOneChild(h, d) ==
    LET child == IF h[d].left # Null THEN h[d].left ELSE h[d].right
    IN  Relink([h EXCEPT ![child].parent = h[d].parent], h[d].parent, d, child)

CutFromTree(h, n) == IF h[n].left # Null THEN EraseOneChild(h, n) ELSE EraseNoChild(h, n)

Inherit(h, d, n) ==
    [h EXCEPT ![n].parent = h[d].parent, ![n].left = h[d].left, ![n].right = h[d].right]

\* p, the parent of d, gets the child n instead
HangAt(h, p, d, n) ==
    IF h[p].left = d THEN [h EXCEPT ![p].left = n]
    ELSE IF h[p].right = d THEN [h EXCEPT ![p].right = n] ELSE h

Adopt(h, n, child) == IF child # Null THEN [h EXCEPT ![child].parent = n] ELSE h

\* n takes d's place, links and all
TakePlace(h, d, n) ==
    LET h1 == HangAt(Inherit(h, d, n), h[d].parent, d, n)
        h2 == Adopt(h1, n, h1[d].left)
    IN  Adopt(h2, n, h2[d].right)

\* The predecessor leaves its place and takes d's
EraseTwoChild(h, d) ==
    LET pred == Predecessor(h, d)
    IN  TakePlace(CutFromTree(h, pred), d, pred)

EraseFromTree(h, d) ==
    CASE h[d].left = Null /\ h[d].right = Null -> EraseNoChild(h, d)
      [] h[d].left # Null /\ h[d].right # Null -> EraseTwoChild(h, d)
      [] OTHER -> EraseOneChild(h, d)

InsertInTree(h, n, k, v, p) ==
    LET h1 == [h EXCEPT ![n].key = k, ![n].value = v,
                        ![n].left = Null, ![n].right = Null, ![n].parent = p]
    IN  IF IsLeft(h1, n, p) THEN [h1 EXCEPT ![p].left = n] ELSE [h1 EXCEPT ![p].right = n]

-----------------------------------------------------------------------------
(* The list.  x is the cache before the call.                              *)

ListInsert(x, n) ==
    IF x.head = Null
    THEN [node |-> [x.node EXCEPT ![n].next = n, ![n].prev = n], head |-> n]
    ELSE LET h1 == [x.node EXCEPT ![n].prev = x.node[x.head].prev, ![n].next = x.head]
             h2 == [h1 EXCEPT ![h1[x.head].prev].next = n]
         IN  [node |-> [h2 EXCEPT ![x.head].prev = n], head |-> n]

ListCut_KeepsHead(x, n) ==
    LET h == [x.node EXCEPT ![x.node[n].prev].next = x.node[n].next]
    IN  [node |-> [h EXCEPT ![h[n].next].prev = h[n].prev], head |-> x.head]

ListCut(x, n) ==
    LET h == [x.node EXCEPT ![x.node[n].prev].next = x.node[n].next]
    IN  [node |-> [h EXCEPT ![h[n].next].prev = h[n].prev],
         head |-> IF x.head = n THEN x.node[n].next ELSE x.head]

ListToHead(x, n) == ListInsert(ListCut(x, n), n)

Erased(x, n) == [ListCut(x, n) EXCEPT !.node = EraseFromTree(@, n)]

-----------------------------------------------------------------------------
(* The calls of a user                                                     *)

Find(k) ==
    LET n == FindByKey(c.node, k)
    IN  /\ c' = IF Found(c.node, n, k) THEN ListToHead(c, n) ELSE c
        /\ UNCHANGED <<live, size>>

InsertPresent(k) ==
    LET n == FindByKey(c.node, k)
    IN  /\ Found(c.node, n, k)
        /\ c' = ListToHead(c, n)
        /\ UNCHANGED <<live, size>>

\* The tail of insert_: n enters the tree of x and the list
Entered(x, n, k, v) ==
    ListInsert([x EXCEPT !.node = InsertInTree(@, n, k, v, FindByKey(@, k))], n)

NextSize_Always == size + 1

NextSize == IF size < Capacity THEN size + 1 ELSE size

InsertNew(k, v) ==
    /\ ~Found(c.node, FindByKey(c.node, k), k)
    /\ size < Capacity
    /\ \E n \in Node \ live :
           /\ c' = Entered(c, n, k, v)
           /\ live' = live \cup {n}
    /\ size' = NextSize

Victim_Head == c.head

Victim == c.node[c.head].prev

\* The least recently used node becomes the new one
InsertEvict(k, v) ==
    /\ ~Found(c.node, FindByKey(c.node, k), k)
    /\ size >= Capacity
    /\ c' = Entered(Erased(c, Victim), Victim, k, v)
    /\ size' = NextSize
    /\ UNCHANGED live

\* erase of a valid iterator.  The memory of a freed node is blanked.
Erase(n) ==
    /\ n \in live
    /\ EraseLast \/ size > 1
    /\ c' = [Erased(c, n) EXCEPT !.node[n] = Blank(RootKey)]
    /\ live' = live \ {n}
    /\ size' = size - 1

Next ==
    \/ \E k \in Key :
           \/ Find(k)
           \/ InsertPresent(k)
           \/ \E v \in Value : InsertNew(k, v) \/ InsertEvict(k, v)
    \/ \E n \in Node : Erase(n)

Spec == Init /\ [][Next]_vars

-----------------------------------------------------------------------------
\* The fields have the types of lru_cache::node
TypeOK ==
    /\ c.node \in [Address -> [key : Nat, value : Value \cup {NoValue}, left : Pointer,
                               right : Pointer, parent : Pointer, next : Pointer, prev : Pointer]]
    /\ c.head \in Pointer
    /\ live \subseteq Node
    /\ size \in 0..Capacity

Below(n) ==
    LET under[x \in Pointer] ==
            IF x = Null THEN {} ELSE {x} \cup under[c.node[x].left] \cup under[c.node[x].right]
    IN  under[n]

\* The tree is a search tree of exactly the allocated nodes, under the fake root,
\* parents and children point to each other, and the keys that are found are those
\* of allocated nodes, whatever was erased or evicted
TreeSound ==
    LET h == c.node
    IN  /\ h[Root].parent = Null /\ h[Root].right = Null
        /\ \A n \in live \cup {Root} : \A x \in {h[n].left, h[n].right} \ {Null} :
               x \in live /\ h[x].parent = n
        /\ Below(h[Root].left) = live
        /\ \A n \in live :
               /\ \A x \in Below(h[n].left) : h[x].key < h[n].key
               /\ \A x \in Below(h[n].right) : h[x].key > h[n].key
        /\ \A k \in Key : Found(h, FindByKey(h, k), k) <=> \E n \in live : h[n].key = k

\* The nodes from the head on, as many as size says
Cycle ==
    LET nth[i \in 1..size] == IF i = 1 THEN c.head ELSE c.node[nth[i - 1]].next
    IN  [i \in 1..size |-> nth[i]]

\* The list is one cycle through exactly the allocated nodes, as many as size
\* says, and the same backwards; head is one of them
ListSound ==
    /\ size = Cardinality(live)
    /\ size > 0 =>
           /\ ToSet(Cycle) = live
           /\ c.node[Last(Cycle)].next = c.head
           /\ \A n \in live : c.node[c.node[n].next].prev = n

\* ++ leads from begin() through all the keys in order to end(), and -- back
IterationSorted ==
    LET h == c.node
        walk[i \in 1..(size + 1)] == IF i = 1 THEN FindMin(h) ELSE Successor(h, walk[i - 1])
    IN  /\ walk[size + 1] = Root
        /\ \A i \in 1..size : walk[i] \in live /\ Predecessor(h, walk[i + 1]) = walk[i]
        /\ \A i, j \in 1..size : i < j => h[walk[i]].key < h[walk[j]].key

Nodes(k) == { n \in live : c.node[n].key = k }

\* An iterator to an element stays valid until that very element is erased or
\* evicted: no call moves an element that stays to another node (lru-cache.h:34,40)
IteratorsStable ==
    [][\A k \in Key : Nodes(k) # {} /\ Nodes(k)' # {} => Nodes(k)' = Nodes(k)]_vars

\* head is NULL or "points to the most least recently used node" (lru-cache.h:68),
\* never to a node that was freed
HeadLive == c.head \in live \cup {Null}

-----------------------------------------------------------------------------
recent ==
    LET w == Cycle IN [i \in DOMAIN w |-> <<c.node[w[i]].key, c.node[w[i]].value>>]

Recency == INSTANCE RecencyList

\* The cache implements a list of keys by last use: find and insert bring a key to
\* the front, a full cache loses the last one, and a present value is not replaced
ImplementsRecencyList == Recency!Spec
=============================================================================
