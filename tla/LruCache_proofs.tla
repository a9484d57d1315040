---------------------------- MODULE LruCache_proofs ----------------------------
(***************************************************************************)
(* The cache, for any capacity, keys, values and addresses: the tree stays *)
(* a search tree, the list a ring, both of the allocated nodes, and        *)
(* together they implement RecencyList.  Users erase only what leaves      *)
(* another element (EraseLast is FALSE), as in the runs that pass.         *)
(***************************************************************************)
EXTENDS LruCache, SequenceTheorems, FiniteSetTheorems, WellFoundedInduction, TLAPS

-----------------------------------------------------------------------------
(* Memory, and trees in it.                                                *)

NodeRecord == [key : Nat, value : Value \cup {NoValue}, left : Pointer, right : Pointer,
               parent : Pointer, next : Pointer, prev : Pointer]
Memory == [Address -> NodeRecord]

\* Children of nodes are in L
Grounded(h, L) == \A x \in Address : /\ h[x].left \in L \cup {Null}
                                     /\ h[x].right \in L \cup {Null}

\* x is nothing, or a node of L that knows its parent n
Child(h, L, n, x) == x # Null => x \in L /\ h[x].parent = n

\* The nodes of L are a search tree under Root, with S[x] the nodes of the subtree at x
Tree(h, L, S) ==
    /\ S \in [Pointer -> SUBSET L]
    /\ S[Null] = {} /\ S[h[Root].left] = L
    /\ h[Root].right = Null /\ h[Root].parent = Null
    /\ \A n \in L \cup {Root} : Child(h, L, n, h[n].left) /\ Child(h, L, n, h[n].right)
    /\ \A n \in L :
           /\ S[n] = {n} \cup S[h[n].left] \cup S[h[n].right]
           /\ \A x \in S[h[n].left] : h[x].key < h[n].key
           /\ \A x \in S[h[n].right] : h[n].key < h[x].key

-----------------------------------------------------------------------------
(* Memory: what an assignment to a field changes.                          *)

\* Two memories have the same tree, or the same list
SameTree(g, h) == \A x \in Address : /\ g[x].key = h[x].key /\ g[x].value = h[x].value
                                     /\ g[x].left = h[x].left /\ g[x].right = h[x].right
                                     /\ g[x].parent = h[x].parent
SameList(g, h) == \A x \in Address : g[x].next = h[x].next /\ g[x].prev = h[x].prev
SameData(g, h) == \A x \in Address : g[x].key = h[x].key /\ g[x].value = h[x].value

\* g is h after an assignment of x to a field of the node p
WroteLeft(g, h, p, x) ==
    /\ g \in Memory /\ SameList(g, h) /\ SameData(g, h)
    /\ \A y \in Address : /\ g[y].left = (IF y = p THEN x ELSE h[y].left)
                          /\ g[y].right = h[y].right /\ g[y].parent = h[y].parent
WroteRight(g, h, p, x) ==
    /\ g \in Memory /\ SameList(g, h) /\ SameData(g, h)
    /\ \A y \in Address : /\ g[y].right = (IF y = p THEN x ELSE h[y].right)
                          /\ g[y].left = h[y].left /\ g[y].parent = h[y].parent
WroteParent(g, h, p, x) ==
    /\ g \in Memory /\ SameList(g, h) /\ SameData(g, h)
    /\ \A y \in Address : /\ g[y].parent = (IF y = p THEN x ELSE h[y].parent)
                          /\ g[y].left = h[y].left /\ g[y].right = h[y].right
WroteNext(g, h, p, x) ==
    /\ g \in Memory /\ SameTree(g, h)
    /\ \A y \in Address : /\ g[y].next = (IF y = p THEN x ELSE h[y].next)
                          /\ g[y].prev = h[y].prev
WrotePrev(g, h, p, x) ==
    /\ g \in Memory /\ SameTree(g, h)
    /\ \A y \in Address : /\ g[y].prev = (IF y = p THEN x ELSE h[y].prev)
                          /\ g[y].next = h[y].next

\* The fields of a node have their types
LEMMA Fields ==
    ASSUME NEW h \in Memory, NEW x \in Address
    PROVE  /\ h[x] \in NodeRecord /\ h[x].key \in Nat /\ h[x].value \in Value \cup {NoValue}
           /\ h[x].left \in Pointer /\ h[x].right \in Pointer /\ h[x].parent \in Pointer
           /\ h[x].next \in Pointer /\ h[x].prev \in Pointer
<1>1. h[x] \in NodeRecord
  BY DEF Memory
<1>2. QED
  BY <1>1 DEF NodeRecord

\* Assignment to left
LEMMA SetLeft ==
    ASSUME NEW h \in Memory, NEW p \in Address, NEW x \in Pointer,
           NEW g, g = [h EXCEPT ![p].left = x]
    PROVE  WroteLeft(g, h, p, x)
<1> DEFINE r == [h[p] EXCEPT !.left = x]
<1>1. h[p] \in NodeRecord
  BY Fields
<1>2. r \in NodeRecord
  BY <1>1 DEF NodeRecord
<1>3. g \in Memory
  BY <1>2 DEF Memory
<1>4. \A y \in Address : g[y] = IF y = p THEN r ELSE h[y]
  BY DEF Memory
<1>5. /\ r.key = h[p].key
      /\ r.value = h[p].value
      /\ r.left = x
      /\ r.right = h[p].right
      /\ r.parent = h[p].parent
      /\ r.next = h[p].next
      /\ r.prev = h[p].prev
  BY <1>1 DEF NodeRecord
<1> HIDE DEF r
<1>6. \A y \in Address : /\ g[y].left = IF y = p THEN x ELSE h[y].left
                         /\ g[y].right = h[y].right /\ g[y].parent = h[y].parent
  BY <1>4, <1>5
<1>7. SameList(g, h) /\ SameData(g, h)
  BY <1>4, <1>5 DEF SameList, SameData
<1>8. QED
  BY <1>3, <1>6, <1>7 DEF WroteLeft

\* Assignment to right
LEMMA SetRight ==
    ASSUME NEW h \in Memory, NEW p \in Address, NEW x \in Pointer,
           NEW g, g = [h EXCEPT ![p].right = x]
    PROVE  WroteRight(g, h, p, x)
<1> DEFINE r == [h[p] EXCEPT !.right = x]
<1>1. h[p] \in NodeRecord
  BY Fields
<1>2. r \in NodeRecord
  BY <1>1 DEF NodeRecord
<1>3. g \in Memory
  BY <1>2 DEF Memory
<1>4. \A y \in Address : g[y] = IF y = p THEN r ELSE h[y]
  BY DEF Memory
<1>5. /\ r.key = h[p].key
      /\ r.value = h[p].value
      /\ r.left = h[p].left
      /\ r.right = x
      /\ r.parent = h[p].parent
      /\ r.next = h[p].next
      /\ r.prev = h[p].prev
  BY <1>1 DEF NodeRecord
<1> HIDE DEF r
<1>6. \A y \in Address : /\ g[y].right = IF y = p THEN x ELSE h[y].right
                         /\ g[y].left = h[y].left /\ g[y].parent = h[y].parent
  BY <1>4, <1>5
<1>7. SameList(g, h) /\ SameData(g, h)
  BY <1>4, <1>5 DEF SameList, SameData
<1>8. QED
  BY <1>3, <1>6, <1>7 DEF WroteRight

\* Assignment to parent
LEMMA SetParent ==
    ASSUME NEW h \in Memory, NEW p \in Address, NEW x \in Pointer,
           NEW g, g = [h EXCEPT ![p].parent = x]
    PROVE  WroteParent(g, h, p, x)
<1> DEFINE r == [h[p] EXCEPT !.parent = x]
<1>1. h[p] \in NodeRecord
  BY Fields
<1>2. r \in NodeRecord
  BY <1>1 DEF NodeRecord
<1>3. g \in Memory
  BY <1>2 DEF Memory
<1>4. \A y \in Address : g[y] = IF y = p THEN r ELSE h[y]
  BY DEF Memory
<1>5. /\ r.key = h[p].key
      /\ r.value = h[p].value
      /\ r.left = h[p].left
      /\ r.right = h[p].right
      /\ r.parent = x
      /\ r.next = h[p].next
      /\ r.prev = h[p].prev
  BY <1>1 DEF NodeRecord
<1> HIDE DEF r
<1>6. \A y \in Address : /\ g[y].parent = IF y = p THEN x ELSE h[y].parent
                         /\ g[y].left = h[y].left /\ g[y].right = h[y].right
  BY <1>4, <1>5
<1>7. SameList(g, h) /\ SameData(g, h)
  BY <1>4, <1>5 DEF SameList, SameData
<1>8. QED
  BY <1>3, <1>6, <1>7 DEF WroteParent

\* Assignment to next
LEMMA SetNext ==
    ASSUME NEW h \in Memory, NEW p \in Address, NEW x \in Pointer,
           NEW g, g = [h EXCEPT ![p].next = x]
    PROVE  WroteNext(g, h, p, x)
<1> DEFINE r == [h[p] EXCEPT !.next = x]
<1>1. h[p] \in NodeRecord
  BY Fields
<1>2. r \in NodeRecord
  BY <1>1 DEF NodeRecord
<1>3. g \in Memory
  BY <1>2 DEF Memory
<1>4. \A y \in Address : g[y] = IF y = p THEN r ELSE h[y]
  BY DEF Memory
<1>5. /\ r.key = h[p].key
      /\ r.value = h[p].value
      /\ r.left = h[p].left
      /\ r.right = h[p].right
      /\ r.parent = h[p].parent
      /\ r.next = x
      /\ r.prev = h[p].prev
  BY <1>1 DEF NodeRecord
<1> HIDE DEF r
<1>6. \A y \in Address : /\ g[y].next = IF y = p THEN x ELSE h[y].next
                         /\ g[y].prev = h[y].prev
  BY <1>4, <1>5
<1>7. SameTree(g, h)
  BY <1>4, <1>5 DEF SameTree
<1>8. QED
  BY <1>3, <1>6, <1>7 DEF WroteNext

\* Assignment to prev
LEMMA SetPrev ==
    ASSUME NEW h \in Memory, NEW p \in Address, NEW x \in Pointer,
           NEW g, g = [h EXCEPT ![p].prev = x]
    PROVE  WrotePrev(g, h, p, x)
<1> DEFINE r == [h[p] EXCEPT !.prev = x]
<1>1. h[p] \in NodeRecord
  BY Fields
<1>2. r \in NodeRecord
  BY <1>1 DEF NodeRecord
<1>3. g \in Memory
  BY <1>2 DEF Memory
<1>4. \A y \in Address : g[y] = IF y = p THEN r ELSE h[y]
  BY DEF Memory
<1>5. /\ r.key = h[p].key
      /\ r.value = h[p].value
      /\ r.left = h[p].left
      /\ r.right = h[p].right
      /\ r.parent = h[p].parent
      /\ r.next = h[p].next
      /\ r.prev = x
  BY <1>1 DEF NodeRecord
<1> HIDE DEF r
<1>6. \A y \in Address : /\ g[y].prev = IF y = p THEN x ELSE h[y].prev
                         /\ g[y].next = h[y].next
  BY <1>4, <1>5
<1>7. SameTree(g, h)
  BY <1>4, <1>5 DEF SameTree
<1>8. QED
  BY <1>3, <1>6, <1>7 DEF WrotePrev

-----------------------------------------------------------------------------
(* Search trees.                                                           *)

\* Where L is finite and made of nodes
TreeOf(h, L, S) == /\ h \in Memory /\ L \subseteq Node /\ IsFiniteSet(L)
                   /\ Tree(h, L, S)

\* The subtrees of a node are its own nodes but one, and have nothing in common
LEMMA Subtrees ==
    ASSUME NEW h, NEW L, NEW S, TreeOf(h, L, S), NEW n \in L
    PROVE  /\ n \in Address /\ n # Null /\ n # Root
           /\ S[n] \subseteq L /\ n \in S[n]
           /\ h[n].left \in L \cup {Null} /\ h[n].right \in L \cup {Null}
           /\ S[h[n].left] \subseteq S[n] /\ S[h[n].right] \subseteq S[n]
           /\ n \notin S[h[n].left] /\ n \notin S[h[n].right]
           /\ S[h[n].left] \cap S[h[n].right] = {}
           /\ h[n].left # n /\ h[n].right # n
           /\ S[h[n].left] \subseteq L /\ S[h[n].right] \subseteq L
<1>1. n \in Address /\ n # Null /\ n # Root /\ n \in Pointer
  BY CacheAssumption DEF TreeOf, Address, Pointer
<1>2. h[n].left \in L \cup {Null} /\ h[n].right \in L \cup {Null}
  BY DEF TreeOf, Tree, Child
<1>3. S[n] = {n} \cup S[h[n].left] \cup S[h[n].right]
  BY DEF TreeOf, Tree
<1>4. S[n] \subseteq L
  BY <1>1 DEF TreeOf, Tree
<1>5. \A x \in L : h[x].key \in Nat
  <2>1. \A x \in L : x \in Address
    BY DEF TreeOf, Address
  <2>2. QED
    BY <2>1, Fields DEF TreeOf
<1>6. /\ \A x \in S[h[n].left] : h[x].key < h[n].key
      /\ \A x \in S[h[n].right] : h[n].key < h[x].key
  BY DEF TreeOf, Tree
<1>7. n \notin S[h[n].left] /\ n \notin S[h[n].right]
  BY <1>3, <1>5, <1>6
<1>8. S[h[n].left] \cap S[h[n].right] = {}
  <2>1. SUFFICES ASSUME NEW x \in S[h[n].left], x \in S[h[n].right] PROVE FALSE
    OBVIOUS
  <2>2. x \in L
    BY <1>3, <1>4
  <2>3. h[x].key \in Nat /\ h[n].key \in Nat /\ h[x].key < h[n].key /\ h[n].key < h[x].key
    BY <1>5, <1>6, <2>1, <2>2
  <2>4. QED
    BY <2>3
<1>9. n \in S[n]
  BY <1>3
<1>10. h[n].left # n /\ h[n].right # n
  BY <1>7, <1>9
<1>11. QED
  BY <1>1, <1>2, <1>3, <1>4, <1>7, <1>8, <1>10

\* Induction from the leaves: a set of nodes has one whose children are not in it
LEMMA Bottom ==
    ASSUME NEW h, NEW L, NEW S, TreeOf(h, L, S), NEW T \in SUBSET L, T # {}
    PROVE  \E n \in T : h[n].left \notin T /\ h[n].right \notin T
<1> DEFINE weight(n) == Cardinality(S[n])
           weights == {weight(n) : n \in T}
<1>1. \A n \in L : IsFiniteSet(S[n]) /\ weight(n) \in Nat
  BY Subtrees, FS_Subset, FS_CardinalityType DEF TreeOf
<1>2. weights \in SUBSET Nat /\ weights # {}
  BY <1>1
<1>3. PICK m \in weights : \A i \in weights : ~ (<<i, m>> \in OpToRel(<, Nat))
  BY <1>2, NatLessThanWellFounded, WFMin
<1>4. PICK n \in T : m = weight(n)
  BY <1>3
<1>5. ASSUME NEW x \in T, S[x] \subseteq S[n], n \notin S[x] PROVE FALSE
  <2>1. S[x] # S[n]
    BY <1>5, Subtrees
  <2>2. weight(x) < weight(n)
    BY <1>1, <1>5, <2>1, FS_Subset
  <2>3. weight(x) \in weights
    OBVIOUS
  <2>4. ~ (<<weight(x), m>> \in OpToRel(<, Nat)) /\ m \in Nat /\ weight(x) \in Nat
    BY <1>2, <1>3, <2>3
  <2>5. ~(weight(x) < m)
    BY <2>4 DEF OpToRel
  <2>6. QED
    BY <1>4, <2>2, <2>5
<1>6. QED
  BY <1>5, Subtrees

\* A subtree contains, with a node, the subtree of that node
LEMMA SubtreeOf ==
    ASSUME NEW h, NEW L, NEW S, TreeOf(h, L, S), NEW y \in L, NEW x \in S[y]
    PROVE  x \in L /\ S[x] \subseteq S[y]
<1> DEFINE T == {a \in L : x \in S[a] /\ ~(S[x] \subseteq S[a])}
<1>1. x \in L
  BY Subtrees
<1>2. SUFFICES ASSUME T # {} PROVE FALSE
  BY <1>1
<1>3. PICK a \in T : h[a].left \notin T /\ h[a].right \notin T
  <2> T \in SUBSET L
    OBVIOUS
  <2> HIDE DEF T
  <2>1. QED
    BY <1>2, Bottom
<1>4. /\ S[a] = {a} \cup S[h[a].left] \cup S[h[a].right] /\ x # a
      /\ S[Null] = {}
      /\ h[a].left \in L \cup {Null} /\ h[a].right \in L \cup {Null}
  BY Subtrees DEF TreeOf, Tree
<1>5. QED
  BY <1>3, <1>4

\* A node of a subtree other than its root has its parent there
LEMMA ParentIn ==
    ASSUME NEW h, NEW L, NEW S, TreeOf(h, L, S), NEW y \in L, NEW x \in S[y], x # y
    PROVE  h[x].parent \in S[y]
<1> DEFINE T == {a \in L : x \in S[a] /\ x # a /\ h[x].parent \notin S[a]}
<1>2. SUFFICES ASSUME T # {} PROVE FALSE
  OBVIOUS
<1>3. PICK a \in T : h[a].left \notin T /\ h[a].right \notin T
  <2> T \in SUBSET L
    OBVIOUS
  <2> HIDE DEF T
  <2>1. QED
    BY <1>2, Bottom
<1>4. /\ S[a] = {a} \cup S[h[a].left] \cup S[h[a].right]
      /\ S[Null] = {}
      /\ h[a].left \in L \cup {Null} /\ h[a].right \in L \cup {Null}
      /\ h[a].left # Null => h[h[a].left].parent = a
      /\ h[a].right # Null => h[h[a].right].parent = a
  BY Subtrees DEF TreeOf, Tree, Child
<1>5. QED
  BY <1>3, <1>4

\* Every node is a child of its parent
LEMMA Parent ==
    ASSUME NEW h, NEW L, NEW S, TreeOf(h, L, S), NEW x \in L
    PROVE  /\ h[x].parent \in L \cup {Root}
           /\ x = h[h[x].parent].left \/ x = h[h[x].parent].right
<1> DEFINE T == {a \in L : x \in S[a] /\ x # a}
<1>1. /\ S[h[Root].left] = L /\ S[Null] = {} /\ h[Root].left \in L \cup {Null}
      /\ h[Root].left # Null => h[h[Root].left].parent = Root
  BY DEF TreeOf, Tree, Child
<1>2. CASE x = h[Root].left
  BY <1>1, <1>2
<1>3. CASE x # h[Root].left
  <2>1. h[Root].left \in T
    BY <1>1, <1>3
  <2>2. PICK a \in T : h[a].left \notin T /\ h[a].right \notin T
    <3> T \in SUBSET L
      OBVIOUS
    <3> HIDE DEF T
    <3>1. QED
      BY <2>1, Bottom
  <2>3. /\ S[a] = {a} \cup S[h[a].left] \cup S[h[a].right]
        /\ h[a].left \in L \cup {Null} /\ h[a].right \in L \cup {Null}
        /\ h[a].left # Null => h[h[a].left].parent = a
        /\ h[a].right # Null => h[h[a].right].parent = a
    BY Subtrees DEF TreeOf, Tree, Child
  <2>4. QED
    BY <1>1, <2>2, <2>3
<1>4. QED
  BY <1>2, <1>3

\* A key is in the tree once
LEMMA KeysDiffer ==
    ASSUME NEW h, NEW L, NEW S, TreeOf(h, L, S), NEW x \in L, NEW y \in L, x # y
    PROVE  h[x].key # h[y].key
<1> DEFINE T == {a \in L : x \in S[a] /\ y \in S[a]}
<1>1. S[h[Root].left] = L /\ S[Null] = {} /\ h[Root].left \in L \cup {Null}
  BY DEF TreeOf, Tree, Child
<1>2. h[Root].left \in T
  BY <1>1
<1>3. PICK a \in T : h[a].left \notin T /\ h[a].right \notin T
  <2> T \in SUBSET L
    OBVIOUS
  <2> HIDE DEF T
  <2>1. QED
    BY <1>2, Bottom
<1>4. /\ S[a] = {a} \cup S[h[a].left] \cup S[h[a].right]
      /\ h[a].left \in L \cup {Null} /\ h[a].right \in L \cup {Null}
      /\ \A z \in S[h[a].left] : h[z].key < h[a].key
      /\ \A z \in S[h[a].right] : h[a].key < h[z].key
  BY Subtrees DEF TreeOf, Tree
<1>5. h[a].key \in Nat /\ h[x].key \in Nat /\ h[y].key \in Nat
  BY Subtrees, Fields DEF TreeOf
<1>6. ~(x \in S[h[a].left] /\ y \in S[h[a].left]) /\ ~(x \in S[h[a].right] /\ y \in S[h[a].right])
  BY <1>1, <1>3, <1>4
<1>7. QED
  BY <1>3, <1>4, <1>5, <1>6

-----------------------------------------------------------------------------
(* Search trees: a node enters.                                            *)

\* Key k belongs at the free place under p
OpenAt(h, L, S, p, k) ==
    /\ p \in L \cup {Root}
    /\ \A a \in L : /\ p \in S[h[a].left] => k < h[a].key
                    /\ p \in S[h[a].right] => h[a].key < k
    /\ p = Root => h[Root].left = Null
    /\ p # Root => \/ k < h[p].key /\ h[p].left = Null
                   \/ h[p].key < k /\ h[p].right = Null

\* The subtrees with n under p
Grown(S, n, p) == [x \in Pointer |-> IF x = n THEN {n} ELSE IF p \in S[x] THEN S[x] \cup {n} ELSE S[x]]

\* What the insertion of node n with key k and value v under p does to each field
Inserted(g, h, n, k, v, p) ==
    /\ g \in Memory /\ SameList(g, h)
    /\ \A y \in Address :
           /\ g[y].key = IF y = n THEN k ELSE h[y].key
           /\ g[y].value = IF y = n THEN v ELSE h[y].value
           /\ g[y].left = IF y = n THEN Null
                          ELSE IF y = p /\ (p = Root \/ k < h[p].key) THEN n ELSE h[y].left
           /\ g[y].right = IF y = n THEN Null
                           ELSE IF y = p /\ ~(p = Root \/ k < h[p].key) THEN n ELSE h[y].right
           /\ g[y].parent = IF y = n THEN p ELSE h[y].parent

\* The tail of insert_ does that
LEMMA InsertFields ==
    ASSUME NEW h \in Memory, NEW n \in Node, NEW k \in Nat, NEW v \in Value,
           NEW p \in Address, p # n
    PROVE  Inserted(InsertInTree(h, n, k, v, p), h, n, k, v, p)
<1> DEFINE h1 == [h EXCEPT ![n].key = k, ![n].value = v,
                           ![n].left = Null, ![n].right = Null, ![n].parent = p]
           r == [h[n] EXCEPT !.key = k, !.value = v, !.left = Null, !.right = Null, !.parent = p]
           g == IF IsLeft(h1, n, p) THEN [h1 EXCEPT ![p].left = n] ELSE [h1 EXCEPT ![p].right = n]
<1>0. n \in Address /\ Null \in Pointer /\ n \in Pointer /\ p \in Pointer
  BY DEF Address, Pointer
<1>1. h[n] \in NodeRecord
  BY <1>0, Fields
<1>2. /\ r \in NodeRecord
      /\ r.key = k /\ r.value = v /\ r.left = Null /\ r.right = Null /\ r.parent = p
      /\ r.next = h[n].next /\ r.prev = h[n].prev
  BY <1>0, <1>1 DEF NodeRecord
<1>3. \A y \in Address : h1[y] = IF y = n THEN r ELSE h[y]
  BY <1>0 DEF Memory
<1>4. h1 \in Memory
  <2>1. h1 = [y \in Address |-> IF y = n THEN r ELSE h[y]]
    BY <1>0 DEF Memory
  <2>2. \A y \in Address : (IF y = n THEN r ELSE h[y]) \in NodeRecord
    BY <1>2, Fields
  <2> HIDE DEF h1, r
  <2>3. QED
    BY <2>1, <2>2 DEF Memory
<1>5. g = InsertInTree(h, n, k, v, p)
  BY DEF InsertInTree
<1>6. IsLeft(h1, n, p) <=> p = Root \/ k < h[p].key
  <2>1. h1[n] = r /\ h1[p] = h[p]
    BY <1>0, <1>3
  <2> HIDE DEF h1, r
  <2>2. QED
    BY <1>2, <2>1 DEF IsLeft
<1>7. SameList(h1, h)
  <2> HIDE DEF h1, r
  <2>1. QED
    BY <1>2, <1>3 DEF SameList
<1>8. CASE IsLeft(h1, n, p)
  <2>1. g = [h1 EXCEPT ![p].left = n]
    BY <1>8
  <2> HIDE DEF g, h1, r
  <2>2. WroteLeft(g, h1, p, n)
    BY <1>0, <1>4, <2>1, SetLeft
  <2>3. QED
    BY <1>2, <1>3, <1>5, <1>6, <1>7, <1>8, <2>2 DEF Inserted, WroteLeft, SameList, SameData
<1>9. CASE ~IsLeft(h1, n, p)
  <2>1. g = [h1 EXCEPT ![p].right = n]
    BY <1>9
  <2> HIDE DEF g, h1, r
  <2>2. WroteRight(g, h1, p, n)
    BY <1>0, <1>4, <2>1, SetRight
  <2>3. QED
    BY <1>2, <1>3, <1>5, <1>6, <1>7, <1>9, <2>2 DEF Inserted, WroteRight, SameList, SameData
<1>10. QED
  BY <1>8, <1>9

\* And leaves a search tree
LEMMA InsertTree ==
    ASSUME NEW h, NEW L, NEW S, TreeOf(h, L, S), NEW n \in Node \ L, NEW k \in Nat, NEW v,
           NEW p, OpenAt(h, L, S, p, k), NEW g, Inserted(g, h, n, k, v, p)
    PROVE  TreeOf(g, L \cup {n}, Grown(S, n, p))
<1> DEFINE R == Grown(S, n, p)
           M == L \cup {n}
<1>1. n \in Address /\ n \in Pointer /\ n # Null /\ n # Root /\ Root \notin L /\ Null \notin L
      /\ Null \in Pointer /\ Root \in Address /\ L \subseteq Address /\ Root # Null
  BY CacheAssumption DEF Address, Pointer, TreeOf
<1>2. /\ S \in [Pointer -> SUBSET L] /\ S[Null] = {} /\ S[h[Root].left] = L
      /\ h[Root].right = Null /\ h[Root].parent = Null
      /\ h[Root].left \in L \cup {Null} /\ (h[Root].left # Null => h[h[Root].left].parent = Root)
  BY DEF TreeOf, Tree, Child
<1>3. \A x \in Pointer : R[x] = IF x = n THEN {n} ELSE IF p \in S[x] THEN S[x] \cup {n} ELSE S[x]
  BY DEF Grown
<1>4. \A x \in L : x \in Pointer /\ S[x] \subseteq L
  BY <1>1, <1>2 DEF Pointer
<1>5. R \in [Pointer -> SUBSET M]
  BY <1>2 DEF Grown
<1>6. R[Null] = {}
  BY <1>1, <1>2, <1>3
<1> HIDE DEF R
<1>a. \A y \in L \cup {Null} : /\ S[y] \subseteq L
                              /\ R[y] = IF p \in S[y] THEN S[y] \cup {n} ELSE S[y]
  <2>1. \A y \in L \cup {Null} : y \in Pointer /\ y # n
    BY <1>1, <1>4
  <2>2. QED
    BY <1>2, <1>3, <1>4, <2>1
<1>7. /\ p = Root => h[Root].left = Null /\ L = {}
      /\ p # Root => p \in L
  BY <1>2 DEF OpenAt
<1>8. R[g[Root].left] = M
  <2>1. CASE p = Root
    <3>1. g[Root].left = n
      BY <1>1, <2>1 DEF Inserted
    <3>2. QED
      BY <1>1, <1>3, <1>7, <2>1, <3>1
  <2>2. CASE p # Root
    <3>1. g[Root].left = h[Root].left
      BY <1>1, <2>2 DEF Inserted
    <3>2. h[Root].left \in L
      BY <1>2, <1>7, <2>2
    <3>3. QED
      BY <1>2, <1>3, <1>4, <1>7, <2>2, <3>1, <3>2
  <2>3. QED
    BY <2>1, <2>2
<1>9. g[Root].right = Null /\ g[Root].parent = Null
  BY <1>1, <1>2 DEF Inserted
<1>10. \A m \in M \cup {Root} : Child(g, M, m, g[m].left) /\ Child(g, M, m, g[m].right)
  <2>1. \A m \in L \cup {Root} : Child(h, L, m, h[m].left) /\ Child(h, L, m, h[m].right)
    BY DEF TreeOf, Tree
  <2>2. g[n].left = Null /\ g[n].right = Null /\ g[n].parent = p
    BY <1>1 DEF Inserted
  <2>3. ASSUME NEW m \in L \cup {Root}
        PROVE  Child(g, M, m, g[m].left) /\ Child(g, M, m, g[m].right)
    <3>1. m \in Address /\ m # n
      BY <1>1
    <3>2. /\ g[m].left = h[m].left \/ (g[m].left = n /\ p = m)
          /\ g[m].right = h[m].right \/ (g[m].right = n /\ p = m)
      BY <3>1 DEF Inserted
    <3>3. \A x \in L : g[x].parent = h[x].parent
      BY <1>1 DEF Inserted
    <3>4. QED
      BY <2>1, <2>2, <3>2, <3>3 DEF Child
  <2>4. QED
    BY <2>2, <2>3 DEF Child
<1>11. ASSUME NEW m \in M
       PROVE  /\ R[m] = {m} \cup R[g[m].left] \cup R[g[m].right]
              /\ \A x \in R[g[m].left] : g[x].key < g[m].key
              /\ \A x \in R[g[m].right] : g[m].key < g[x].key
  <2>1. CASE m = n
    <3>1. g[n].left = Null /\ g[n].right = Null
      BY <1>1 DEF Inserted
    <3>2. QED
      BY <1>1, <1>3, <1>6, <2>1, <3>1
  <2>2. CASE m # n
    <3>1. m \in L /\ m \in Address /\ m \in Pointer
      BY <1>1, <1>4, <2>2
    <3>2. /\ S[m] = {m} \cup S[h[m].left] \cup S[h[m].right]
          /\ \A x \in S[h[m].left] : h[x].key < h[m].key
          /\ \A x \in S[h[m].right] : h[m].key < h[x].key
      BY <3>1 DEF TreeOf, Tree
    <3>3. /\ m \notin S[h[m].left] /\ m \notin S[h[m].right]
          /\ h[m].left \in L \cup {Null} /\ h[m].right \in L \cup {Null}
          /\ S[h[m].left] \subseteq L /\ S[h[m].right] \subseteq L
      BY <3>1, Subtrees
    <3>4. g[m].key = h[m].key /\ g[n].key = k /\ \A x \in L : g[x].key = h[x].key
      BY <1>1, <3>1, <2>2 DEF Inserted
    <3>5. /\ p \in S[h[m].left] => k < h[m].key
          /\ p \in S[h[m].right] => h[m].key < k
      BY <3>1 DEF OpenAt
    <3>6. CASE m # p
      <4>1. g[m].left = h[m].left /\ g[m].right = h[m].right
        BY <2>2, <3>1, <3>6 DEF Inserted
      <4>2. R[m] = {m} \cup R[g[m].left] \cup R[g[m].right]
        <5>1. n \notin {m, h[m].left, h[m].right}
          BY <1>1, <2>2, <3>3
        <5>2. h[m].left \in Pointer /\ h[m].right \in Pointer
          BY <1>1, <1>4, <3>3
        <5>3. p \in S[m] <=> p \in S[h[m].left] \/ p \in S[h[m].right]
          BY <3>2, <3>6
        <5>4. QED
          BY <1>3, <3>1, <3>2, <4>1, <5>1, <5>2, <5>3
      <4>3. /\ R[g[m].left] \subseteq S[h[m].left] \cup (IF p \in S[h[m].left] THEN {n} ELSE {})
            /\ R[g[m].right] \subseteq S[h[m].right] \cup (IF p \in S[h[m].right] THEN {n} ELSE {})
        <5>1. h[m].left \in L \cup {Null} /\ h[m].right \in L \cup {Null}
          BY <3>3
        <5>2. /\ R[h[m].left] \subseteq S[h[m].left] \cup (IF p \in S[h[m].left] THEN {n} ELSE {})
              /\ R[h[m].right] \subseteq S[h[m].right] \cup (IF p \in S[h[m].right] THEN {n} ELSE {})
          BY <1>a, <5>1
        <5>3. QED
          BY <4>1, <5>2, Zenon
      <4>4. QED
        BY <3>2, <3>3, <3>4, <3>5, <4>2, <4>3
    <3>7. CASE m = p /\ k < h[p].key
      <4>1. g[m].left = n /\ g[m].right = h[m].right
        BY <2>2, <3>1, <3>7 DEF Inserted
      <4>2. h[m].left = Null
        <5>1. h[p].key \in Nat
          BY <3>1, <3>7, Fields DEF TreeOf
        <5>2. p # Root
          BY <1>1, <3>1, <3>7
        <5>3. QED
          BY <3>7, <5>1, <5>2 DEF OpenAt
      <4>3. R[n] = {n} /\ R[h[m].right] = S[h[m].right] /\ R[m] = S[m] \cup {n}
        <5>1. R[n] = {n}
          BY <1>1, <1>3
        <5>2. R[h[m].right] = S[h[m].right]
          BY <1>a, <3>3, <3>7
        <5>3. m \in S[m] /\ R[m] = IF p \in S[m] THEN S[m] \cup {n} ELSE S[m]
          BY <1>a, <3>1, <3>2
        <5>4. QED
          BY <5>1, <5>2, <5>3, <3>7
      <4>4. R[m] = {m} \cup R[g[m].left] \cup R[g[m].right]
        BY <1>2, <3>2, <4>1, <4>2, <4>3
      <4>5. QED
        BY <3>2, <3>3, <3>4, <3>7, <4>1, <4>3, <4>4
    <3>8. CASE m = p /\ ~(k < h[p].key)
      <4>0. p # Root
        BY <1>1, <3>1, <3>8
      <4>1. g[m].left = h[m].left /\ g[m].right = n
        BY <2>2, <3>1, <3>8, <4>0 DEF Inserted
      <4>2. h[m].right = Null /\ h[m].key < k
        BY <3>8, <4>0 DEF OpenAt
      <4>3. R[n] = {n} /\ R[h[m].left] = S[h[m].left] /\ R[m] = S[m] \cup {n}
        <5>1. R[n] = {n}
          BY <1>1, <1>3
        <5>2. R[h[m].left] = S[h[m].left]
          BY <1>a, <3>3, <3>8
        <5>3. m \in S[m] /\ R[m] = IF p \in S[m] THEN S[m] \cup {n} ELSE S[m]
          BY <1>a, <3>1, <3>2
        <5>4. QED
          BY <5>1, <5>2, <5>3, <3>8
      <4>4. R[m] = {m} \cup R[g[m].left] \cup R[g[m].right]
        BY <1>2, <3>2, <4>1, <4>2, <4>3
      <4>5. QED
        BY <3>2, <3>3, <3>4, <3>8, <4>1, <4>2, <4>3, <4>4
    <3>9. QED
      BY <3>6, <3>7, <3>8
  <2>3. QED
    BY <2>1, <2>2
<1>12. g \in Memory /\ M \subseteq Node /\ IsFiniteSet(M)
  BY FS_AddElement DEF Inserted, TreeOf
<1>13. QED
  BY <1>5, <1>6, <1>8, <1>9, <1>10, <1>11, <1>12 DEF TreeOf, Tree, R

-----------------------------------------------------------------------------
(* Search trees: a node with one child at most leaves.                     *)

\* x takes the place of d under d's parent
Spliced(g, h, d, x) ==
    LET p == h[d].parent
    IN  /\ g \in Memory /\ SameList(g, h) /\ SameData(g, h)
        /\ \A y \in Address :
               /\ g[y].left = IF y = p /\ h[y].left = d THEN x ELSE h[y].left
               /\ g[y].right = IF y = p /\ h[y].right = d THEN x ELSE h[y].right
               /\ g[y].parent = IF y = x THEN p ELSE h[y].parent

OnlyChild(h, d) == IF h[d].left # Null THEN h[d].left ELSE h[d].right

\* A node's side under its parent follows from the keys
LEMMA Side ==
    ASSUME NEW h, NEW L, NEW S, TreeOf(h, L, S), NEW d \in L
    PROVE  LET p == h[d].parent
           IN  /\ p \in Address /\ p # d
               /\ IsLeft(h, d, p) => h[p].left = d /\ h[p].right # d
               /\ ~IsLeft(h, d, p) => h[p].right = d /\ h[p].left # d
<1> DEFINE p == h[d].parent
<1>1. p \in L \cup {Root} /\ (d = h[p].left \/ d = h[p].right)
  BY Parent
<1>2. d \in Address /\ d # Null /\ d # Root /\ d \in S[d] /\ Root \notin L
  BY Subtrees, CacheAssumption DEF TreeOf, Address
<1>3. h[Root].right = Null
  BY DEF TreeOf, Tree
<1>4. CASE p = Root
  BY <1>1, <1>2, <1>3, <1>4 DEF IsLeft, Address
<1>5. CASE p # Root
  <2>1. p \in L /\ p \in Address
    BY <1>1, <1>5, Subtrees
  <2>2. /\ h[p].left # p /\ h[p].right # p
        /\ \A x \in S[h[p].left] : h[x].key < h[p].key
        /\ \A x \in S[h[p].right] : h[p].key < h[x].key
    BY <2>1, Subtrees DEF TreeOf, Tree
  <2>3. h[p].key \in Nat /\ h[d].key \in Nat
    BY <1>2, <2>1, Fields DEF TreeOf
  <2>4. /\ h[p].left = d => h[d].key < h[p].key
        /\ h[p].right = d => h[p].key < h[d].key
    BY <1>2, <2>2
  <2>5. QED
    BY <1>1, <1>5, <2>1, <2>2, <2>3, <2>4 DEF IsLeft
<1>6. QED
  BY <1>4, <1>5

\* erase_no_child and erase_one_child splice
LEMMA SpliceFields ==
    ASSUME NEW h, NEW L, NEW S, TreeOf(h, L, S), NEW d \in L,
           h[d].left = Null \/ h[d].right = Null,
           NEW g, g = IF h[d].left = Null /\ h[d].right = Null THEN EraseNoChild(h, d)
                      ELSE EraseOneChild(h, d)
    PROVE  Spliced(g, h, d, OnlyChild(h, d))
<1> DEFINE p == h[d].parent
           x == OnlyChild(h, d)
           h1 == [h EXCEPT ![x].parent = p]
<1>1. /\ p \in Address /\ p # d
      /\ IsLeft(h, d, p) => h[p].left = d /\ h[p].right # d
      /\ ~IsLeft(h, d, p) => h[p].right = d /\ h[p].left # d
  BY Side
<1>2. /\ d \in Address /\ x \in Pointer /\ Null \in Pointer /\ p \in Pointer
      /\ x = Null \/ x \in Address
  BY <1>1, Subtrees, Fields DEF OnlyChild, Pointer, TreeOf
<1>3. h \in Memory
  BY DEF TreeOf
<1>4. CASE h[d].left = Null /\ h[d].right = Null
  <2>1. g = Relink(h, p, d, Null) /\ x = Null
    BY <1>4 DEF EraseNoChild, OnlyChild
  <2> HIDE DEF p, x, h1
  <2>2. Null \notin Address
    BY CacheAssumption
  <2>3. CASE IsLeft(h, d, p)
    <3>1. g = [h EXCEPT ![p].left = Null]
      BY <2>1, <2>3 DEF Relink
    <3>2. WroteLeft(g, h, p, Null)
      BY <1>1, <1>2, <1>3, <3>1, SetLeft
    <3>3. QED
      BY <1>1, <2>1, <2>2, <2>3, <3>2 DEF WroteLeft, Spliced, p, x
  <2>4. CASE ~IsLeft(h, d, p)
    <3>1. g = [h EXCEPT ![p].right = Null]
      BY <2>1, <2>4 DEF Relink
    <3>2. WroteRight(g, h, p, Null)
      BY <1>1, <1>2, <1>3, <3>1, SetRight
    <3>3. QED
      BY <1>1, <2>1, <2>2, <2>4, <3>2 DEF WroteRight, Spliced, p, x
  <2>5. QED
    BY <2>3, <2>4
<1>5. CASE ~(h[d].left = Null /\ h[d].right = Null)
  <2>1. g = Relink(h1, p, d, x) /\ x # Null
    BY <1>5 DEF EraseOneChild, OnlyChild
  <2>2. WroteParent(h1, h, x, p)
    <3>1. x \in Address
      BY <1>2, <2>1
    <3> HIDE DEF p, x
    <3>2. QED
      BY <1>2, <1>3, <3>1, SetParent
  <2> HIDE DEF p, x, h1
  <2>3. IsLeft(h1, d, p) <=> IsLeft(h, d, p)
    BY <1>1, <1>2, <2>2 DEF WroteParent, SameData, IsLeft
  <2>4. h1 \in Memory
    BY <2>2 DEF WroteParent
  <2>5. CASE IsLeft(h, d, p)
    <3>1. g = [h1 EXCEPT ![p].left = x]
      BY <2>1, <2>3, <2>5 DEF Relink
    <3>2. WroteLeft(g, h1, p, x)
      BY <1>1, <1>2, <2>4, <3>1, SetLeft
    <3>3. QED
      BY <1>1, <2>1, <2>2, <2>5, <3>2 DEF WroteLeft, WroteParent, SameList, SameData, Spliced, p, x
  <2>6. CASE ~IsLeft(h, d, p)
    <3>1. g = [h1 EXCEPT ![p].right = x]
      BY <2>1, <2>3, <2>6 DEF Relink
    <3>2. WroteRight(g, h1, p, x)
      BY <1>1, <1>2, <2>4, <3>1, SetRight
    <3>3. QED
      BY <1>1, <2>1, <2>2, <2>6, <3>2 DEF WroteRight, WroteParent, SameList, SameData, Spliced, p, x
  <2>7. QED
    BY <2>5, <2>6
<1>6. QED
  BY <1>4, <1>5

\* The subtrees without d
Shrunk(S, d) == [x \in Pointer |-> S[x] \ {d}]

\* Below every other node
ShrunkBelow(g, h, L, S, d) ==
    \A n \in L \ {d} : /\ Shrunk(S, d)[g[n].left] = S[h[n].left] \ {d}
                       /\ Shrunk(S, d)[g[n].right] = S[h[n].right] \ {d}

\* Splicing leaves a search tree
LEMMA SplicedTree ==
    ASSUME NEW h, NEW L, NEW S, TreeOf(h, L, S), NEW d \in L,
           h[d].left = Null \/ h[d].right = Null,
           NEW g, Spliced(g, h, d, OnlyChild(h, d))
    PROVE  /\ TreeOf(g, L \ {d}, Shrunk(S, d))
           /\ ShrunkBelow(g, h, L, S, d)
<1> DEFINE R == Shrunk(S, d)
           M == L \ {d}
           p == h[d].parent
           x == OnlyChild(h, d)
<1>1. /\ d \in Address /\ d # Null /\ d # Root /\ Root \notin L /\ Null \notin L
      /\ Null \in Pointer /\ Root \in Address /\ L \subseteq Address /\ Address \subseteq Pointer
      /\ Null \notin Address
  BY CacheAssumption DEF Address, Pointer, TreeOf
<1>2. /\ S \in [Pointer -> SUBSET L] /\ S[Null] = {} /\ S[h[Root].left] = L
      /\ h[Root].right = Null /\ h[Root].parent = Null
      /\ \A n \in L \cup {Root} : Child(h, L, n, h[n].left) /\ Child(h, L, n, h[n].right)
  BY DEF TreeOf, Tree
<1>3. \A y \in Pointer : R[y] = S[y] \ {d}
  BY DEF Shrunk
<1>4. R \in [Pointer -> SUBSET M]
  BY <1>2 DEF Shrunk
<1>5. /\ p \in Address /\ p # d /\ p \in L \cup {Root}
      /\ h[p].left = d \/ h[p].right = d
      /\ ~(h[p].left = d /\ h[p].right = d)
  BY Side, Parent
<1>6. /\ x \in L \cup {Null} /\ x # d /\ S[d] = {d} \cup S[x] /\ d \notin S[x] /\ x \in Pointer
      /\ x # Null => h[x].parent = d
  <2>1. /\ S[d] = {d} \cup S[h[d].left] \cup S[h[d].right]
        /\ Child(h, L, d, h[d].left) /\ Child(h, L, d, h[d].right)
    BY DEF TreeOf, Tree
  <2>2. /\ h[d].left \in L \cup {Null} /\ h[d].right \in L \cup {Null}
        /\ d \notin S[h[d].left] /\ d \notin S[h[d].right]
        /\ h[d].left # d /\ h[d].right # d
    BY Subtrees
  <2>3. QED
    BY <1>1, <1>2, <2>1, <2>2 DEF OnlyChild, Child
<1> HIDE DEF R, x, p
<1>7. /\ g \in Memory /\ SameList(g, h) /\ SameData(g, h)
      /\ \A y \in Address :
             /\ g[y].left = IF y = p /\ h[y].left = d THEN x ELSE h[y].left
             /\ g[y].right = IF y = p /\ h[y].right = d THEN x ELSE h[y].right
             /\ g[y].parent = IF y = x THEN p ELSE h[y].parent
  BY DEF Spliced, p, x
<1>8. \A n \in L \cup {Root} : n # p => h[n].left # d /\ h[n].right # d
  BY <1>1, <1>2 DEF Child, p
<1>9. \A n \in M \cup {Root} : /\ n \in Address
                               /\ g[n].left = (IF h[n].left = d THEN x ELSE h[n].left)
                               /\ g[n].right = (IF h[n].right = d THEN x ELSE h[n].right)
  BY <1>1, <1>7, <1>8
<1>10. R[Null] = {} /\ R[x] = S[x] /\ S[d] \ {d} = S[x]
  <2>1. R[Null] = S[Null] \ {d} /\ R[x] = S[x] \ {d}
    BY <1>1, <1>3, <1>6
  <2>2. S[x] \ {d} = S[x] /\ S[d] \ {d} = S[x]
    BY <1>6
  <2>3. QED
    BY <1>2, <2>1, <2>2
<1>11. /\ h[Root].left \in L \cup {Null}
       /\ R[g[Root].left] = M
  <2>1. h[Root].left \in L \cup {Null}
    BY <1>2 DEF Child
  <2>2. g[Root].left = (IF h[Root].left = d THEN x ELSE h[Root].left)
    BY <1>9
  <2>3. QED
    BY <1>1, <1>2, <1>3, <1>10, <2>1, <2>2
<1>12. g[Root].right = Null /\ g[Root].parent = Null
  BY <1>1, <1>2, <1>6, <1>7
<1>13. ASSUME NEW n \in M \cup {Root}, NEW y, NEW z, Child(h, L, n, y), y \in L \cup {Null},
              z = IF y = d THEN x ELSE y
       PROVE  Child(g, M, n, z)
  <2>1. CASE y = d
    <3>1. n = p
      BY <1>1, <1>13, <2>1 DEF Child, p
    <3>2. x # Null => g[x].parent = p
      BY <1>1, <1>6, <1>7
    <3>3. QED
      BY <1>6, <1>13, <2>1, <3>1, <3>2 DEF Child
  <2>2. CASE y # d
    <3>1. y # Null => y \in M /\ y \in Address /\ h[y].parent = n
      BY <1>1, <1>13, <2>2 DEF Child
    <3>2. y # Null => y # x
      BY <1>1, <1>6, <3>1
    <3>3. QED
      BY <1>7, <1>13, <2>2, <3>1, <3>2 DEF Child
  <2>3. QED
    BY <2>1, <2>2
<1>14. \A n \in M \cup {Root} : Child(g, M, n, g[n].left) /\ Child(g, M, n, g[n].right)
  <2>1. \A n \in L \cup {Root} : h[n].left \in L \cup {Null} /\ h[n].right \in L \cup {Null}
    BY <1>2 DEF Child
  <2>2. QED
    BY <1>2, <1>9, <1>13, <2>1
<1>15. ASSUME NEW n \in M
       PROVE  /\ R[n] = {n} \cup R[g[n].left] \cup R[g[n].right]
              /\ \A y \in R[g[n].left] : g[y].key < g[n].key
              /\ \A y \in R[g[n].right] : g[n].key < g[y].key
              /\ R[g[n].left] = S[h[n].left] \ {d} /\ R[g[n].right] = S[h[n].right] \ {d}
  <2>1. /\ S[n] = {n} \cup S[h[n].left] \cup S[h[n].right]
        /\ \A y \in S[h[n].left] : h[y].key < h[n].key
        /\ \A y \in S[h[n].right] : h[n].key < h[y].key
    BY DEF TreeOf, Tree
  <2>2. /\ h[n].left \in L \cup {Null} /\ h[n].right \in L \cup {Null}
        /\ S[h[n].left] \subseteq L /\ S[h[n].right] \subseteq L
    BY Subtrees
  <2>3. R[g[n].left] = S[h[n].left] \ {d} /\ R[g[n].right] = S[h[n].right] \ {d}
    BY <1>1, <1>3, <1>9, <1>10, <2>2
  <2>4. R[n] = S[n] \ {d}
    BY <1>1, <1>3
  <2>5. \A y \in L : g[y].key = h[y].key
    BY <1>1, <1>7 DEF SameData
  <2>6. QED
    BY <2>1, <2>2, <2>3, <2>4, <2>5
<1>16. M \subseteq Node /\ IsFiniteSet(M)
  BY FS_RemoveElement DEF TreeOf
<1>17. QED
  BY <1>4, <1>7, <1>10, <1>11, <1>12, <1>14, <1>15, <1>16 DEF TreeOf, Tree, ShrunkBelow, R

-----------------------------------------------------------------------------
(* Search trees: a node takes the place of another.                        *)

\* e takes the place of d, links and all
Replaced(g, h, d, e) ==
    LET p == h[d].parent
    IN  /\ g \in Memory /\ SameList(g, h) /\ SameData(g, h)
        /\ \A y \in Address :
               /\ g[y].left = IF y = e THEN h[d].left
                              ELSE IF y = p /\ h[y].left = d THEN e ELSE h[y].left
               /\ g[y].right = IF y = e THEN h[d].right
                               ELSE IF y = p /\ h[y].right = d THEN e ELSE h[y].right
               /\ g[y].parent = IF y = e THEN p
                                ELSE IF y = h[d].left \/ y = h[d].right THEN e ELSE h[y].parent

\* The key of e fits where d is
FitsAt(h, L, S, d, e) ==
    /\ \A a \in L : /\ d \in S[h[a].left] => h[e].key < h[a].key
                    /\ d \in S[h[a].right] => h[a].key < h[e].key
    /\ \A x \in S[h[d].left] : h[x].key < h[e].key
    /\ \A x \in S[h[d].right] : h[e].key < h[x].key

\* A set with e for d
Swapped(T, d, e) == IF d \in T THEN (T \ {d}) \cup {e} ELSE T

\* The subtrees with e for d
Exchanged(S, d, e) == [x \in Pointer |-> IF x = e THEN Swapped(S[d], d, e) ELSE Swapped(S[x], d, e)]

\* The replacement leaves a search tree
LEMMA ReplacedTree ==
    ASSUME NEW h, NEW L, NEW S, TreeOf(h, L, S), NEW d \in L, NEW e \in Node \ L,
           FitsAt(h, L, S, d, e), NEW g, Replaced(g, h, d, e)
    PROVE  TreeOf(g, (L \ {d}) \cup {e}, Exchanged(S, d, e))
<1> DEFINE R == Exchanged(S, d, e)
           M == (L \ {d}) \cup {e}
           p == h[d].parent
           lt == h[d].left
           rt == h[d].right
           Sub(x) == IF x = d THEN e ELSE x
<1>1. /\ d \in Address /\ d # Null /\ d # Root /\ Root \notin L /\ Null \notin L
      /\ e \in Address /\ e # Null /\ e # Root /\ e # d /\ Null \notin Address
      /\ Null \in Pointer /\ Root \in Address /\ L \subseteq Address /\ Address \subseteq Pointer
  BY CacheAssumption DEF Address, Pointer, TreeOf
<1>2. /\ S \in [Pointer -> SUBSET L] /\ S[Null] = {} /\ S[h[Root].left] = L
      /\ h[Root].right = Null /\ h[Root].parent = Null
      /\ \A n \in L \cup {Root} : Child(h, L, n, h[n].left) /\ Child(h, L, n, h[n].right)
  BY DEF TreeOf, Tree
<1>3. \A y \in Pointer : R[y] = IF y = e THEN Swapped(S[d], d, e) ELSE Swapped(S[y], d, e)
  BY DEF Exchanged
<1>4. \A T \in SUBSET L : Swapped(T, d, e) \in SUBSET M
  BY DEF Swapped
<1>5. R \in [Pointer -> SUBSET M]
  <2>1. \A y \in Pointer : S[y] \in SUBSET L
    BY <1>2
  <2>2. \A y \in Pointer :
            (IF y = e THEN Swapped(S[d], d, e) ELSE Swapped(S[y], d, e)) \in SUBSET M
    BY <1>1, <1>4, <2>1
  <2> HIDE DEF M
  <2>3. QED
    BY <2>2 DEF Exchanged
<1>6. /\ p \in Address /\ p # d /\ p \in L \cup {Root}
      /\ h[p].left = d \/ h[p].right = d
      /\ ~(h[p].left = d /\ h[p].right = d)
  BY Side, Parent
<1>7. /\ lt \in L \cup {Null} /\ rt \in L \cup {Null} /\ lt # d /\ rt # d
      /\ d \notin S[lt] /\ d \notin S[rt] /\ S[lt] \subseteq L /\ S[rt] \subseteq L
      /\ S[d] = {d} \cup S[lt] \cup S[rt]
      /\ lt # Null => h[lt].parent = d
      /\ rt # Null => h[rt].parent = d
  <2>1. /\ lt \in L \cup {Null} /\ rt \in L \cup {Null} /\ lt # d /\ rt # d
        /\ d \notin S[lt] /\ d \notin S[rt] /\ S[lt] \subseteq L /\ S[rt] \subseteq L
    BY Subtrees
  <2>2. S[d] = {d} \cup S[lt] \cup S[rt]
    BY DEF TreeOf, Tree
  <2>3. Child(h, L, d, lt) /\ Child(h, L, d, rt)
    BY <1>2
  <2> HIDE DEF lt, rt
  <2>4. QED
    BY <2>1, <2>2, <2>3 DEF Child
<1> HIDE DEF R, p, lt, rt
<1>8. /\ g \in Memory /\ SameList(g, h) /\ SameData(g, h)
      /\ \A y \in Address :
             /\ g[y].left = IF y = e THEN lt ELSE IF y = p /\ h[y].left = d THEN e ELSE h[y].left
             /\ g[y].right = IF y = e THEN rt ELSE IF y = p /\ h[y].right = d THEN e ELSE h[y].right
             /\ g[y].parent = IF y = e THEN p ELSE IF y = lt \/ y = rt THEN e ELSE h[y].parent
  BY DEF Replaced, p, lt, rt
<1>9. \A n \in L \cup {Root} : n # p => h[n].left # d /\ h[n].right # d
  BY <1>1, <1>2 DEF Child, p
<1>10. \A n \in (L \ {d}) \cup {Root} : /\ n \in Address /\ n # e
                                        /\ g[n].left = Sub(h[n].left)
                                        /\ g[n].right = Sub(h[n].right)
  BY <1>1, <1>8, <1>9
<1>11. \A y \in L \cup {Null} : R[Sub(y)] = Swapped(S[y], d, e)
  BY <1>1, <1>3
<1>12. R[Null] = {}
  BY <1>1, <1>2, <1>3 DEF Swapped
<1>13. R[g[Root].left] = M
  <2>1. h[Root].left \in L \cup {Null}
    BY <1>2 DEF Child
  <2>2. R[g[Root].left] = Swapped(L, d, e)
    BY <1>2, <1>10, <1>11, <2>1
  <2>3. QED
    BY <2>2 DEF Swapped
<1>14. g[Root].right = Null /\ g[Root].parent = Null
  <2>1. Root # lt /\ Root # rt
    BY <1>1, <1>7
  <2>2. QED
    BY <1>1, <1>2, <1>8, <1>10, <2>1
<1>15. ASSUME NEW n \in (L \ {d}) \cup {Root}, NEW y \in L \cup {Null}, Child(h, L, n, y)
       PROVE  Child(g, M, n, Sub(y))
  <2>1. CASE y = d
    <3>1. n = p
      BY <1>1, <1>15, <2>1 DEF Child, p
    <3>2. g[e].parent = p
      BY <1>1, <1>8
    <3>3. QED
      BY <2>1, <3>1, <3>2 DEF Child
  <2>2. CASE y # d /\ y # Null
    <3>1. y \in L \ {d} /\ y \in Address /\ h[y].parent = n /\ y # e
      BY <1>1, <1>15, <2>2 DEF Child
    <3>2. y # lt /\ y # rt
      BY <1>1, <1>7, <3>1
    <3>3. QED
      BY <1>8, <2>2, <3>1, <3>2 DEF Child
  <2>3. CASE y = Null
    BY <1>1, <2>3 DEF Child
  <2>4. QED
    BY <2>1, <2>2, <2>3
<1>16. \A n \in M \cup {Root} : Child(g, M, n, g[n].left) /\ Child(g, M, n, g[n].right)
  <2>1. \A n \in L \cup {Root} : h[n].left \in L \cup {Null} /\ h[n].right \in L \cup {Null}
    BY <1>2 DEF Child
  <2>2. \A n \in (L \ {d}) \cup {Root} : Child(g, M, n, g[n].left) /\ Child(g, M, n, g[n].right)
    <3> SUFFICES ASSUME NEW n \in (L \ {d}) \cup {Root}
                 PROVE  Child(g, M, n, g[n].left) /\ Child(g, M, n, g[n].right)
      OBVIOUS
    <3> HIDE DEF M, Sub
    <3>1. n \in L \cup {Root}
      OBVIOUS
    <3>2. Child(h, L, n, h[n].left) /\ Child(h, L, n, h[n].right)
      BY <1>2, <3>1
    <3>3. h[n].left \in L \cup {Null} /\ h[n].right \in L \cup {Null}
      BY <2>1, <3>1
    <3>4. Child(g, M, n, Sub(h[n].left)) /\ Child(g, M, n, Sub(h[n].right))
      BY <1>15, <3>2, <3>3
    <3>5. QED
      BY <1>10, <3>4
  <2>3. g[e].left = lt /\ g[e].right = rt
    BY <1>1, <1>8
  <2>4. \A y \in {lt, rt} : y # Null => y \in M /\ y \in Address /\ y # e
    BY <1>1, <1>7
  <2>5. \A y \in {lt, rt} : y # Null => g[y].parent = e
    BY <1>8, <2>4
  <2>6. QED
    BY <2>2, <2>3, <2>4, <2>5 DEF Child
<1>17. \A y \in Address : g[y].key = h[y].key
  BY <1>8 DEF SameData
<1>18. FitsAt(h, L, S, d, e)
  OBVIOUS
<1>19. ASSUME NEW n \in M
       PROVE  /\ R[n] = {n} \cup R[g[n].left] \cup R[g[n].right]
              /\ \A y \in R[g[n].left] : g[y].key < g[n].key
              /\ \A y \in R[g[n].right] : g[n].key < g[y].key
  <2>1. CASE n = e
    <3>1. g[e].left = lt /\ g[e].right = rt
      BY <1>1, <1>8
    <3>2. R[lt] = S[lt] /\ R[rt] = S[rt]
      <4>1. R[lt] = Swapped(S[lt], d, e) /\ R[rt] = Swapped(S[rt], d, e)
        BY <1>7, <1>11
      <4>2. QED
        BY <1>7, <4>1 DEF Swapped
    <3>3. R[e] = {e} \cup S[lt] \cup S[rt]
      <4>1. R[e] = Swapped(S[d], d, e)
        BY <1>1, <1>3
      <4>2. QED
        BY <1>7, <4>1 DEF Swapped
    <3>4. /\ \A x \in S[lt] : h[x].key < h[e].key
          /\ \A x \in S[rt] : h[e].key < h[x].key
      BY <1>18 DEF FitsAt, lt, rt
    <3>5. QED
      BY <1>1, <1>7, <1>17, <2>1, <3>1, <3>2, <3>3, <3>4
  <2>2. CASE n # e
    <3>1. n \in L \ {d} /\ n \in Pointer /\ n \in Address
      BY <1>1, <2>2
    <3>2. /\ S[n] = {n} \cup S[h[n].left] \cup S[h[n].right]
          /\ \A y \in S[h[n].left] : h[y].key < h[n].key
          /\ \A y \in S[h[n].right] : h[n].key < h[y].key
      BY <3>1 DEF TreeOf, Tree
    <3>3. /\ h[n].left \in L \cup {Null} /\ h[n].right \in L \cup {Null}
          /\ S[h[n].left] \subseteq L /\ S[h[n].right] \subseteq L
          /\ S[h[n].left] \cap S[h[n].right] = {}
      BY <3>1, Subtrees
    <3>4. /\ R[g[n].left] = Swapped(S[h[n].left], d, e)
          /\ R[g[n].right] = Swapped(S[h[n].right], d, e)
      BY <1>10, <1>11, <3>1, <3>3
    <3>5. R[n] = Swapped(S[n], d, e)
      BY <1>3, <2>2, <3>1
    <3>6. R[n] = {n} \cup R[g[n].left] \cup R[g[n].right]
      BY <3>1, <3>2, <3>4, <3>5 DEF Swapped
    <3>7. /\ d \in S[h[n].left] => h[e].key < h[n].key
          /\ d \in S[h[n].right] => h[n].key < h[e].key
      BY <1>18, <3>1 DEF FitsAt
    <3>8. /\ \A y \in R[g[n].left] : y \in Address /\ h[y].key < h[n].key
          /\ \A y \in R[g[n].right] : y \in Address /\ h[n].key < h[y].key
      BY <1>1, <3>2, <3>3, <3>4, <3>7 DEF Swapped
    <3>9. QED
      BY <1>17, <3>1, <3>6, <3>8
  <2>3. QED
    BY <2>1, <2>2
<1>20. M \subseteq Node /\ IsFiniteSet(M)
  <2>1. IsFiniteSet(L \ {d})
    BY FS_RemoveElement DEF TreeOf
  <2>2. QED
    BY <2>1, FS_AddElement DEF TreeOf
<1>21. QED
  BY <1>5, <1>8, <1>12, <1>13, <1>14, <1>16, <1>19, <1>20 DEF TreeOf, Tree, R

-----------------------------------------------------------------------------
(* Loops that follow pointers, as recursive functions.                     *)

\* A set of things with a measure has a smallest one
LEMMA Smallest ==
    ASSUME NEW T, T # {}, NEW rank, \A x \in T : rank[x] \in Nat
    PROVE  \E x \in T : \A y \in T : ~(rank[y] < rank[x])
<1> DEFINE ranks == {rank[x] : x \in T}
<1>1. ranks \in SUBSET Nat /\ ranks # {}
  OBVIOUS
<1>2. PICK m \in ranks : \A i \in ranks : ~ (<<i, m>> \in OpToRel(<, Nat))
  BY <1>1, NatLessThanWellFounded, WFMin
<1>3. PICK x \in T : m = rank[x]
  BY <1>2
<1>4. \A y \in T : rank[y] \in ranks /\ rank[y] \in Nat /\ m \in Nat
  BY <1>3
<1>5. \A y \in T : ~(rank[y] < m)
  BY <1>2, <1>4 DEF OpToRel
<1>6. QED
  BY <1>3, <1>5

\* f follows nxt up to a member of B, and takes val there
Follows(f, A, B, val, nxt) == f = [x \in A |-> IF x \in B THEN val[x] ELSE f[nxt[x]]]

\* There is such a function if every step makes rank smaller
LEMMA DescentExists ==
    ASSUME NEW A, NEW B, NEW val, NEW nxt, NEW rank, NEW N \in Nat,
           \A x \in A : rank[x] \in Nat /\ rank[x] < N,
           \A x \in A \ B : nxt[x] \in A /\ rank[nxt[x]] < rank[x]
    PROVE  \E f : Follows(f, A, B, val, nxt)
<1> DEFINE Low(m) == {x \in A : rank[x] < m}
           Part(m) == \E f : f = [x \in Low(m) |-> IF x \in B THEN val[x] ELSE f[nxt[x]]]
           T == {m \in Nat : ~Part(m)}
           id == [m \in Nat |-> m]
<1>1. SUFFICES ASSUME T # {} PROVE FALSE
  <2>1. Part(N)
    BY <1>1
  <2>2. Low(N) = A
    OBVIOUS
  <2>3. QED
    BY <2>1, <2>2 DEF Follows
<1>2. PICK m \in T : \A i \in T : ~(i < m)
  <2>1. \A i \in T : id[i] \in Nat /\ id[i] = i
    OBVIOUS
  <2> HIDE DEF T, id
  <2>2. PICK m \in T : \A i \in T : ~(id[i] < id[m])
    BY <1>1, <2>1, Smallest
  <2>3. QED
    BY <2>1, <2>2
<1>3. m \in Nat /\ ~Part(m)
  OBVIOUS
<1>4. CASE m = 0
  <2>1. Low(0) = {}
    OBVIOUS
  <2>2. \A f : [x \in {} |-> IF x \in B THEN val[x] ELSE f[nxt[x]]] = [x \in {} |-> x]
    OBVIOUS
  <2>3. Part(0)
    BY <2>1, <2>2
  <2>4. QED
    BY <1>3, <1>4, <2>3
<1>5. CASE m # 0
  <2>1. m - 1 \in Nat /\ m - 1 < m
    BY <1>3, <1>5
  <2>2. Part(m - 1)
    BY <1>2, <2>1
  <2>3. PICK f : f = [x \in Low(m - 1) |-> IF x \in B THEN val[x] ELSE f[nxt[x]]]
    BY <2>2
  <2> DEFINE g == [x \in Low(m) |-> IF x \in B THEN val[x] ELSE f[nxt[x]]]
  <2>4. ASSUME NEW x \in Low(m), x \notin B
        PROVE  f[nxt[x]] = g[nxt[x]]
    <3>1. nxt[x] \in A /\ rank[nxt[x]] < rank[x] /\ rank[x] < m /\ rank[x] \in Nat
          /\ rank[nxt[x]] \in Nat
      BY <2>4
    <3>2. rank[nxt[x]] < m - 1 /\ rank[nxt[x]] < m
      BY <1>3, <3>1
    <3>3. nxt[x] \in Low(m - 1) /\ nxt[x] \in Low(m)
      BY <3>1, <3>2
    <3>4. f[nxt[x]] = IF nxt[x] \in B THEN val[nxt[x]] ELSE f[nxt[nxt[x]]]
      BY <2>3, <3>3, Zenon
    <3>5. g[nxt[x]] = IF nxt[x] \in B THEN val[nxt[x]] ELSE f[nxt[nxt[x]]]
      BY <3>3
    <3>6. QED
      BY <3>4, <3>5
  <2>5. g = [x \in Low(m) |-> IF x \in B THEN val[x] ELSE g[nxt[x]]]
    <3> HIDE DEF Low
    <3>1. \A x \in Low(m) : g[x] = IF x \in B THEN val[x] ELSE f[nxt[x]]
      OBVIOUS
    <3>2. \A x \in Low(m) : g[x] = IF x \in B THEN val[x] ELSE g[nxt[x]]
      BY <2>4, <3>1
    <3>3. g = [x \in Low(m) |-> g[x]]
      OBVIOUS
    <3> HIDE DEF g
    <3>4. QED
      BY <3>2, <3>3
  <2>6. Part(m)
    BY <2>5
  <2>7. QED
    BY <1>3, <2>6
<1>6. QED
  BY <1>4, <1>5

\* It ends in a member of B, and keeps whatever every step keeps
LEMMA DescentEnds ==
    ASSUME NEW A, NEW B, NEW val, NEW nxt, NEW f,
           Follows(f, A, B, val, nxt),
           NEW I \in SUBSET A, NEW rank, \A x \in I : rank[x] \in Nat,
           \A x \in I \ B : nxt[x] \in I /\ rank[nxt[x]] < rank[x],
           NEW start \in I
    PROVE  \E y \in I \cap B : f[start] = val[y]
<1> DEFINE T == {x \in I : ~ \E y \in I \cap B : f[x] = val[y]}
<1>1. SUFFICES ASSUME T # {} PROVE FALSE
  OBVIOUS
<1>2. PICK x \in T : \A y \in T : ~(rank[y] < rank[x])
  <2>1. \A x \in T : rank[x] \in Nat
    OBVIOUS
  <2> HIDE DEF T
  <2>2. QED
    BY <1>1, <2>1, Smallest
<1>3. f[x] = IF x \in B THEN val[x] ELSE f[nxt[x]]
  <2>1. x \in A
    BY <1>2
  <2>2. QED
    BY <2>1, Zenon DEF Follows
<1>4. x \notin B
  BY <1>2, <1>3
<1>5. nxt[x] \in I /\ rank[nxt[x]] < rank[x]
  BY <1>2, <1>4
<1>6. nxt[x] \notin T
  BY <1>2, <1>5
<1>7. QED
  BY <1>2, <1>3, <1>4, <1>5, <1>6

-----------------------------------------------------------------------------
(* Search trees: ways down.                                                *)

\* A measure that every step to a child makes smaller, whatever freed nodes hold
Height(L, S) == [x \in Address |-> IF x \in L THEN Cardinality(S[x]) ELSE Cardinality(L) + 1]

\* A child is less high than its parent
LEMMA Heights ==
    ASSUME NEW h, NEW L, NEW S, TreeOf(h, L, S), Grounded(h, L)
    PROVE  /\ Cardinality(L) \in Nat
           /\ \A x \in Address : /\ Height(L, S)[x] \in Nat
                                 /\ Height(L, S)[x] < Cardinality(L) + 2
           /\ \A x \in Address : \A y \in {h[x].left, h[x].right} :
                  y # Null => y \in L /\ y \in Address /\ Height(L, S)[y] < Height(L, S)[x]
<1>1. Cardinality(L) \in Nat /\ IsFiniteSet(L) /\ L \subseteq Address
  BY FS_CardinalityType DEF TreeOf, Address
<1>2. ASSUME NEW x \in L
      PROVE  /\ IsFiniteSet(S[x]) /\ Cardinality(S[x]) \in Nat /\ Cardinality(S[x]) <= Cardinality(L)
  <2>1. S[x] \subseteq L
    BY Subtrees
  <2>2. QED
    BY <1>1, <2>1, FS_Subset, FS_CardinalityType
<1>3. ASSUME NEW x \in L, NEW y \in L, y = h[x].left \/ y = h[x].right
      PROVE  Cardinality(S[y]) < Cardinality(S[x])
  <2>1. S[y] \subseteq S[x] /\ x \notin S[y] /\ x \in S[x]
    BY <1>3, Subtrees
  <2>2. S[y] # S[x]
    BY <2>1
  <2>3. QED
    BY <1>2, <2>1, <2>2, FS_Subset
<1>4. \A x \in Address : Height(L, S)[x] = IF x \in L THEN Cardinality(S[x]) ELSE Cardinality(L) + 1
  BY DEF Height
<1>5. ASSUME NEW x \in Address
      PROVE  Height(L, S)[x] \in Nat /\ Height(L, S)[x] < Cardinality(L) + 2
  <2>1. CASE x \in L
    BY <1>1, <1>2, <1>4, <2>1
  <2>2. CASE x \notin L
    BY <1>1, <1>4, <2>2
  <2>3. QED
    BY <2>1, <2>2
<1>6. ASSUME NEW x \in Address, NEW y \in {h[x].left, h[x].right}, y # Null
      PROVE  y \in L /\ y \in Address /\ Height(L, S)[y] < Height(L, S)[x]
  <2>1. y \in L /\ y \in Address
    BY <1>1, <1>6 DEF Grounded
  <2>2. CASE x \in L
    BY <1>3, <1>4, <2>1, <2>2
  <2>3. CASE x \notin L
    BY <1>1, <1>2, <1>4, <2>1, <2>3
  <2>4. QED
    BY <2>1, <2>2, <2>3
<1>7. QED
  BY <1>1, <1>5, <1>6

\* The search ends where the key is or, if it is nowhere, where it belongs
LEMMA Search ==
    ASSUME NEW h, NEW L, NEW S, TreeOf(h, L, S), Grounded(h, L), NEW k \in Nat
    PROVE  LET p == FindByKey(h, k)
           IN  \/ p \in L /\ h[p].key = k
               \/ OpenAt(h, L, S, p, k) /\ \A n \in L : h[n].key # k
<1> DEFINE Left(n) == n = Root \/ k < h[n].key
           Right(n) == ~Left(n) /\ k > h[n].key
           B == {n \in Address : /\ Left(n) => h[n].left = Null
                                 /\ Right(n) => h[n].right = Null}
           nxt == [n \in Address |-> IF Left(n) THEN h[n].left ELSE h[n].right]
           id == [n \in Address |-> n]
           Body(f) == [n \in Address |->
                          IF n = Root \/ k < h[n].key
                          THEN IF h[n].left = Null THEN n ELSE f[h[n].left]
                          ELSE IF k > h[n].key
                          THEN IF h[n].right = Null THEN n ELSE f[h[n].right]
                          ELSE n]
           from == CHOOSE f : f = Body(f)
<1>1. \A f : Body(f) = [n \in Address |-> IF n \in B THEN id[n] ELSE f[nxt[n]]]
  <2>1. ASSUME NEW f, NEW n \in Address
        PROVE  Body(f)[n] = IF n \in B THEN id[n] ELSE f[nxt[n]]
    OBVIOUS
  <2>2. \A f : Body(f) = [n \in Address |-> Body(f)[n]]
    OBVIOUS
  <2> HIDE DEF Body, B, id, nxt
  <2>3. QED
    BY <2>1, <2>2
<1>2. /\ Cardinality(L) \in Nat
      /\ \A x \in Address : /\ Height(L, S)[x] \in Nat
                            /\ Height(L, S)[x] < Cardinality(L) + 2
      /\ \A x \in Address : \A y \in {h[x].left, h[x].right} :
             y # Null => y \in L /\ y \in Address /\ Height(L, S)[y] < Height(L, S)[x]
  BY Heights
<1>3. ASSUME NEW x \in Address \ B
      PROVE  /\ nxt[x] \in {h[x].left, h[x].right} /\ nxt[x] # Null
             /\ nxt[x] \in Address /\ Height(L, S)[nxt[x]] < Height(L, S)[x]
  BY <1>2
<1>4. \E f : Follows(f, Address, B, id, nxt)
  <2> HIDE DEF B, id, nxt
  <2> DEFINE rank == Height(L, S)
             N == Cardinality(L) + 2
  <2>1. N \in Nat /\ \A x \in Address : rank[x] \in Nat /\ rank[x] < N
    BY <1>2
  <2>2. \A x \in Address \ B : nxt[x] \in Address /\ rank[nxt[x]] < rank[x]
    BY <1>3
  <2> HIDE DEF rank, N
  <2>3. QED
    BY <2>1, <2>2, DescentExists
<1>5. Follows(from, Address, B, id, nxt)
  <2> HIDE DEF B, id, nxt, Body
  <2>1. \E f : f = Body(f)
    BY <1>1, <1>4 DEF Follows
  <2>2. from = Body(from)
    BY <2>1
  <2>3. QED
    BY <1>1, <2>2 DEF Follows
<1>6. FindByKey(h, k) = from[Root]
  BY DEF FindByKey
<1> DEFINE I == {n \in L \cup {Root} :
                    /\ \A a \in L : /\ n \in S[h[a].left] => k < h[a].key
                                    /\ n \in S[h[a].right] => h[a].key < k
                    /\ n # Root => \A m \in L : h[m].key = k => m \in S[n]}
<1>7. /\ L \subseteq Address /\ Root \in Address /\ Root \notin L /\ Null \notin L
      /\ \A a \in L : h[a].key \in Nat /\ S[h[a].left] \subseteq L /\ S[h[a].right] \subseteq L
  <2>1. L \subseteq Address /\ Root \in Address /\ Root \notin L /\ Null \notin L /\ h \in Memory
    BY CacheAssumption DEF TreeOf, Address
  <2>2. QED
    BY <2>1, Fields, Subtrees
<1>8. Root \in I
  BY <1>7
<1>9. ASSUME NEW n \in I, n \notin B
      PROVE  nxt[n] \in I
  <2>0. n \in Address /\ n \in L \cup {Root}
    BY <1>7
  <2>1. nxt[n] # Null /\ nxt[n] \in L /\ nxt[n] # Root
    BY <1>2, <1>3, <1>7, <1>9, <2>0
  <2>2. h[nxt[n]].parent = n
    <3>1. Child(h, L, n, h[n].left) /\ Child(h, L, n, h[n].right)
      BY <2>0 DEF TreeOf, Tree
    <3>2. nxt[n] = h[n].left \/ nxt[n] = h[n].right
      BY <2>0
    <3> HIDE DEF nxt
    <3>3. QED
      BY <2>1, <3>1, <3>2 DEF Child
  <2>3. \A m \in L : h[m].key = k => m \in S[nxt[n]]
    <3>1. CASE n = Root
      <4>1. nxt[n] = h[Root].left /\ S[h[Root].left] = L
        BY <2>0, <3>1 DEF TreeOf, Tree
      <4>2. QED
        BY <4>1
    <3>2. CASE n # Root
      <4>1. n \in L /\ h[n].key \in Nat /\ \A m \in L : h[m].key = k => m \in S[n]
        BY <1>7, <2>0, <3>2
      <4>2. /\ S[n] = {n} \cup S[h[n].left] \cup S[h[n].right]
            /\ \A x \in S[h[n].left] : h[x].key < h[n].key
            /\ \A x \in S[h[n].right] : h[n].key < h[x].key
        BY <4>1 DEF TreeOf, Tree
      <4>3. CASE k < h[n].key
        <5>1. nxt[n] = h[n].left
          BY <2>0, <4>3
        <5> HIDE DEF nxt, I, B
        <5>2. QED
          BY <1>7, <4>1, <4>2, <4>3, <5>1
      <4>4. CASE ~(k < h[n].key)
        <5>1. nxt[n] = h[n].right /\ k > h[n].key
          BY <1>9, <2>0, <3>2, <4>4
        <5> HIDE DEF nxt, I, B
        <5>2. QED
          BY <1>7, <4>1, <4>2, <5>1
      <4>5. QED
        BY <4>3, <4>4
    <3>3. QED
      BY <3>1, <3>2
  <2>4. ASSUME NEW a \in L
        PROVE  /\ nxt[n] \in S[h[a].left] => k < h[a].key
               /\ nxt[n] \in S[h[a].right] => h[a].key < k
    <3>1. CASE a = n
      <4>1. /\ nxt[n] = h[n].left => k < h[n].key
            /\ nxt[n] = h[n].right => h[n].key < k
        <5>1. n # Root /\ h[n].key \in Nat /\ h[n].left # h[n].right
          <6>1. n \in L /\ n # Root
            BY <1>7, <3>1
          <6>2. /\ S[h[n].left] \cap S[h[n].right] = {} /\ nxt[n] \in S[nxt[n]]
                /\ nxt[n] = h[n].left \/ nxt[n] = h[n].right
            BY <2>0, <2>1, <6>1, Subtrees
          <6>3. QED
            BY <1>7, <6>1, <6>2
        <5>2. QED
          BY <1>9, <2>0, <5>1
      <4>2. nxt[n] \in S[nxt[n]]
        BY <2>1, Subtrees
      <4>3. S[h[n].left] \cap S[h[n].right] = {} /\ (nxt[n] = h[n].left \/ nxt[n] = h[n].right)
        BY <2>0, <3>1, Subtrees
      <4> HIDE DEF nxt, I, B
      <4>4. QED
        BY <3>1, <4>1, <4>2, <4>3
    <3>2. CASE a # n
      <4>1. \A y \in {h[a].left, h[a].right} : nxt[n] \in S[y] => n \in S[y]
        <5>1. SUFFICES ASSUME NEW y \in {h[a].left, h[a].right}, nxt[n] \in S[y] PROVE n \in S[y]
          OBVIOUS
        <5>2. S[Null] = {} /\ Child(h, L, a, y)
          BY DEF TreeOf, Tree
        <5>3. y \in L /\ h[y].parent = a
          BY <5>1, <5>2 DEF Child
        <5>4. nxt[n] # y
          BY <2>2, <3>2, <5>3
        <5> HIDE DEF nxt, I, B
        <5>5. QED
          BY <2>2, <5>1, <5>3, <5>4, ParentIn
      <4>2. /\ n \in S[h[a].left] => k < h[a].key
            /\ n \in S[h[a].right] => h[a].key < k
        OBVIOUS
      <4> HIDE DEF nxt, I, B
      <4>3. QED
        BY <4>1, <4>2
    <3>3. QED
      BY <3>1, <3>2
  <2> HIDE DEF nxt, B
  <2>5. QED
    BY <2>1, <2>3, <2>4
<1>10. PICK p \in I \cap B : from[Root] = id[p]
  <2>1. I \in SUBSET Address
    BY <1>7
  <2> DEFINE rank == Height(L, S)
  <2>2. \A x \in I : rank[x] \in Nat
    BY <1>2, <2>1
  <2>3. \A x \in I \ B : nxt[x] \in I /\ rank[nxt[x]] < rank[x]
    BY <1>3, <1>9, <2>1
  <2> HIDE DEF I, B, id, nxt, from, rank
  <2>4. QED
    BY <1>5, <1>8, <2>1, <2>2, <2>3, DescentEnds
<1>11. p = FindByKey(h, k) /\ p \in Address
  BY <1>6, <1>7, <1>10
<1>12. CASE p = Root
  <2>1. h[Root].left = Null /\ S[Null] = {} /\ S[h[Root].left] = L
    BY <1>10, <1>12 DEF TreeOf, Tree
  <2>2. L = {}
    BY <2>1
  <2>3. QED
    BY <1>11, <1>12, <2>1, <2>2 DEF OpenAt
<1>13. CASE p # Root
  <2>1. p \in L /\ h[p].key \in Nat
    BY <1>7, <1>10, <1>13
  <2>2. /\ \A a \in L : /\ p \in S[h[a].left] => k < h[a].key
                        /\ p \in S[h[a].right] => h[a].key < k
        /\ \A m \in L : h[m].key = k => m \in S[p]
    BY <1>10, <1>13
  <2>3. /\ k < h[p].key => h[p].left = Null
        /\ ~(k < h[p].key) /\ k > h[p].key => h[p].right = Null
    BY <1>10, <1>13
  <2>4. /\ S[p] = {p} \cup S[h[p].left] \cup S[h[p].right] /\ S[Null] = {}
        /\ \A x \in S[h[p].left] : h[x].key < h[p].key
        /\ \A x \in S[h[p].right] : h[p].key < h[x].key
    BY <2>1 DEF TreeOf, Tree
  <2> HIDE DEF I, B, id, nxt, from
  <2>5. CASE h[p].key = k
    BY <1>11, <2>1, <2>5
  <2>6. CASE h[p].key # k
    <3>1. \A n \in L : h[n].key # k
      <4>1. SUFFICES ASSUME NEW n \in L, h[n].key = k PROVE FALSE
        OBVIOUS
      <4>2. n \in S[p] /\ n # p
        BY <2>2, <2>6, <4>1
      <4>3. QED
        BY <1>7, <2>1, <2>3, <2>4, <4>1, <4>2
    <3>2. \/ k < h[p].key /\ h[p].left = Null
          \/ h[p].key < k /\ h[p].right = Null
      BY <2>1, <2>3, <2>6
    <3>3. OpenAt(h, L, S, p, k)
      BY <1>13, <2>1, <2>2, <3>2, Zenon DEF OpenAt
    <3>4. QED
      BY <1>11, <3>1, <3>3
  <2>7. QED
    BY <2>5, <2>6
<1>14. QED
  BY <1>12, <1>13

\* Going left from a node leads to the least key of its subtree
LEMMA Leftmost ==
    ASSUME NEW h, NEW L, NEW S, TreeOf(h, L, S), Grounded(h, L)
    PROVE  LET down == CHOOSE f : f = [x \in Address |->
                           IF h[x].left = Null THEN x ELSE f[h[x].left]]
           IN  /\ down[Root] = IF h[Root].left = Null THEN Root ELSE down[h[Root].left]
               /\ \A x \in L : /\ down[x] \in S[x] /\ h[down[x]].left = Null
                               /\ \A z \in S[x] : z # down[x] => h[down[x]].key < h[z].key
<1> DEFINE B == {x \in Address : h[x].left = Null}
           nxt == [x \in Address |-> h[x].left]
           id == [x \in Address |-> x]
           Body(f) == [x \in Address |-> IF h[x].left = Null THEN x ELSE f[h[x].left]]
           down == CHOOSE f : f = Body(f)
           rank == Height(L, S)
           N == Cardinality(L) + 2
<1>1. \A f : Body(f) = [x \in Address |-> IF x \in B THEN id[x] ELSE f[nxt[x]]]
  <2>1. ASSUME NEW f, NEW x \in Address
        PROVE  Body(f)[x] = IF x \in B THEN id[x] ELSE f[nxt[x]]
    OBVIOUS
  <2>2. \A f : Body(f) = [x \in Address |-> Body(f)[x]]
    OBVIOUS
  <2> HIDE DEF Body, B, id, nxt
  <2>3. QED
    BY <2>1, <2>2
<1>2. /\ N \in Nat /\ \A x \in Address : rank[x] \in Nat /\ rank[x] < N
      /\ \A x \in Address \ B : nxt[x] \in Address /\ rank[nxt[x]] < rank[x]
  BY Heights
<1>3. L \subseteq Address /\ Root \in Address
  BY DEF TreeOf, Address
<1>4. Follows(down, Address, B, id, nxt)
  <2> HIDE DEF B, id, nxt, rank, N, Body
  <2>1. \E f : Follows(f, Address, B, id, nxt)
    BY <1>2, DescentExists
  <2>2. \E f : f = Body(f)
    BY <1>1, <2>1 DEF Follows
  <2>3. down = Body(down)
    BY <2>2
  <2>4. QED
    BY <1>1, <2>3 DEF Follows
<1>5. down[Root] = IF h[Root].left = Null THEN Root ELSE down[h[Root].left]
  <2> HIDE DEF down
  <2>1. down[Root] = IF Root \in B THEN id[Root] ELSE down[nxt[Root]]
    BY <1>3, <1>4 DEF Follows
  <2>2. QED
    BY <1>3, <2>1
<1>6. ASSUME NEW x \in L
      PROVE  /\ down[x] \in S[x] /\ h[down[x]].left = Null
             /\ \A z \in S[x] : z # down[x] => h[down[x]].key < h[z].key
  <2> DEFINE I == {y \in S[x] : \A z \in S[x] : z \in S[y] \/ h[y].key < h[z].key}
  <2>1. S[x] \subseteq L /\ x \in S[x]
    BY Subtrees
  <2>2. I \in SUBSET Address /\ x \in I
    BY <1>3, <2>1
  <2>3. ASSUME NEW y \in L
        PROVE  /\ h[y].key \in Nat
               /\ S[y] = {y} \cup S[h[y].left] \cup S[h[y].right] /\ S[Null] = {}
               /\ \A z \in S[h[y].left] : h[z].key < h[y].key
               /\ \A z \in S[h[y].right] : h[y].key < h[z].key
               /\ h[y].left # Null => h[y].left \in L /\ h[y].left \in S[h[y].left]
               /\ h[y].right # Null => h[y].right \in L /\ h[y].right \in S[h[y].right]
    <3>1. h[y].left # Null => h[y].left \in L
      BY Subtrees
    <3>2. h[y].right # Null => h[y].right \in L
      BY Subtrees
    <3>3. \A z \in L : z \in S[z]
      BY Subtrees
    <3>4. h[y].key \in Nat
      BY <1>3, Fields DEF TreeOf
    <3>5. QED
      BY <3>1, <3>2, <3>3, <3>4 DEF TreeOf, Tree
  <2>4. ASSUME NEW y \in I, y \notin B
        PROVE  nxt[y] \in I
    <3>1. y \in L /\ y \in S[x] /\ nxt[y] = h[y].left /\ h[y].left # Null
      BY <1>3, <2>1, <2>4
    <3>2. \A z \in S[x] : z \in S[y] \/ h[y].key < h[z].key
      BY <2>4
    <3> DEFINE w == h[y].left
    <3>3. w \in L /\ w \in S[w] /\ h[w].key < h[y].key /\ h[w].key \in Nat /\ h[y].key \in Nat
      BY <2>3, <3>1
    <3>4. w \in S[x]
      BY <2>3, <3>1, <3>3, SubtreeOf
    <3>5. ASSUME NEW z \in S[x]
          PROVE  z \in S[w] \/ h[w].key < h[z].key
      <4>1. h[z].key \in Nat
        BY <2>1, <2>3
      <4>2. CASE h[y].key < h[z].key
        BY <3>3, <4>1, <4>2
      <4>3. CASE z \in S[y]
        <5>1. z = y \/ z \in S[w] \/ z \in S[h[y].right]
          BY <2>3, <3>1, <4>3
        <5>2. z \in S[h[y].right] => h[y].key < h[z].key
          BY <2>3, <3>1
        <5>3. QED
          BY <3>3, <4>1, <5>1, <5>2
      <4>4. QED
        BY <3>2, <4>2, <4>3
    <3> HIDE DEF nxt, B
    <3>6. QED
      BY <3>1, <3>4, <3>5
  <2>5. \A y \in I : rank[y] \in Nat
    BY <1>2, <2>2
  <2>6. \A y \in I \ B : nxt[y] \in I /\ rank[nxt[y]] < rank[y]
    <3> HIDE DEF B, nxt, rank, I, N
    <3>1. QED
      BY <1>2, <2>2, <2>4
  <2>7. PICK y \in I \cap B : down[x] = id[y]
    <3> HIDE DEF B, nxt, rank, I, id, down
    <3>1. QED
      BY <1>4, <2>2, <2>5, <2>6, DescentEnds
  <2>8. /\ down[x] = y /\ y \in S[x] /\ y \in L /\ h[y].left = Null
        /\ \A z \in S[x] : z \in S[y] \/ h[y].key < h[z].key
    BY <2>1, <2>7
  <2>9. \A z \in S[y] : z # y => h[y].key < h[z].key
    BY <2>3, <2>8
  <2> HIDE DEF down, I, B, id, nxt
  <2>10. QED
    BY <2>8, <2>9, Zenon
<1> HIDE DEF B, id, nxt, rank, N
<1>7. QED
  BY <1>5, <1>6, Zenon

\* Going right from a node leads to the greatest key of its subtree
LEMMA Rightmost ==
    ASSUME NEW h, NEW L, NEW S, TreeOf(h, L, S), Grounded(h, L)
    PROVE  LET down == CHOOSE f : f = [x \in Address |->
                           IF h[x].right = Null THEN x ELSE f[h[x].right]]
           IN  /\ down[Root] = IF h[Root].right = Null THEN Root ELSE down[h[Root].right]
               /\ \A x \in L : /\ down[x] \in S[x] /\ h[down[x]].right = Null
                               /\ \A z \in S[x] : z # down[x] => h[z].key < h[down[x]].key
<1> DEFINE B == {x \in Address : h[x].right = Null}
           nxt == [x \in Address |-> h[x].right]
           id == [x \in Address |-> x]
           Body(f) == [x \in Address |-> IF h[x].right = Null THEN x ELSE f[h[x].right]]
           down == CHOOSE f : f = Body(f)
           rank == Height(L, S)
           N == Cardinality(L) + 2
<1>1. \A f : Body(f) = [x \in Address |-> IF x \in B THEN id[x] ELSE f[nxt[x]]]
  <2>1. ASSUME NEW f, NEW x \in Address
        PROVE  Body(f)[x] = IF x \in B THEN id[x] ELSE f[nxt[x]]
    OBVIOUS
  <2>2. \A f : Body(f) = [x \in Address |-> Body(f)[x]]
    OBVIOUS
  <2> HIDE DEF Body, B, id, nxt
  <2>3. QED
    BY <2>1, <2>2
<1>2. /\ N \in Nat /\ \A x \in Address : rank[x] \in Nat /\ rank[x] < N
      /\ \A x \in Address \ B : nxt[x] \in Address /\ rank[nxt[x]] < rank[x]
  BY Heights
<1>3. L \subseteq Address /\ Root \in Address
  BY DEF TreeOf, Address
<1>4. Follows(down, Address, B, id, nxt)
  <2> HIDE DEF B, id, nxt, rank, N, Body
  <2>1. \E f : Follows(f, Address, B, id, nxt)
    BY <1>2, DescentExists
  <2>2. \E f : f = Body(f)
    BY <1>1, <2>1 DEF Follows
  <2>3. down = Body(down)
    BY <2>2
  <2>4. QED
    BY <1>1, <2>3 DEF Follows
<1>5. down[Root] = IF h[Root].right = Null THEN Root ELSE down[h[Root].right]
  <2> HIDE DEF down
  <2>1. down[Root] = IF Root \in B THEN id[Root] ELSE down[nxt[Root]]
    BY <1>3, <1>4 DEF Follows
  <2>2. QED
    BY <1>3, <2>1
<1>6. ASSUME NEW x \in L
      PROVE  /\ down[x] \in S[x] /\ h[down[x]].right = Null
             /\ \A z \in S[x] : z # down[x] => h[z].key < h[down[x]].key
  <2> DEFINE I == {y \in S[x] : \A z \in S[x] : z \in S[y] \/ h[z].key < h[y].key}
  <2>1. S[x] \subseteq L /\ x \in S[x]
    BY Subtrees
  <2>2. I \in SUBSET Address /\ x \in I
    BY <1>3, <2>1
  <2>3. ASSUME NEW y \in L
        PROVE  /\ h[y].key \in Nat
               /\ S[y] = {y} \cup S[h[y].left] \cup S[h[y].right] /\ S[Null] = {}
               /\ \A z \in S[h[y].left] : h[z].key < h[y].key
               /\ \A z \in S[h[y].right] : h[y].key < h[z].key
               /\ h[y].left # Null => h[y].left \in L /\ h[y].left \in S[h[y].left]
               /\ h[y].right # Null => h[y].right \in L /\ h[y].right \in S[h[y].right]
    <3>1. h[y].left # Null => h[y].left \in L
      BY Subtrees
    <3>2. h[y].right # Null => h[y].right \in L
      BY Subtrees
    <3>3. \A z \in L : z \in S[z]
      BY Subtrees
    <3>4. h[y].key \in Nat
      BY <1>3, Fields DEF TreeOf
    <3>5. QED
      BY <3>1, <3>2, <3>3, <3>4 DEF TreeOf, Tree
  <2>4. ASSUME NEW y \in I, y \notin B
        PROVE  nxt[y] \in I
    <3>1. y \in L /\ y \in S[x] /\ nxt[y] = h[y].right /\ h[y].right # Null
      BY <1>3, <2>1, <2>4
    <3>2. \A z \in S[x] : z \in S[y] \/ h[z].key < h[y].key
      BY <2>4
    <3> DEFINE w == h[y].right
    <3>3. w \in L /\ w \in S[w] /\ h[y].key < h[w].key /\ h[w].key \in Nat /\ h[y].key \in Nat
      BY <2>3, <3>1
    <3>4. w \in S[x]
      BY <2>3, <3>1, <3>3, SubtreeOf
    <3>5. ASSUME NEW z \in S[x]
          PROVE  z \in S[w] \/ h[z].key < h[w].key
      <4>1. h[z].key \in Nat
        BY <2>1, <2>3
      <4>2. CASE h[z].key < h[y].key
        BY <3>3, <4>1, <4>2
      <4>3. CASE z \in S[y]
        <5>1. z = y \/ z \in S[w] \/ z \in S[h[y].left]
          BY <2>3, <3>1, <4>3
        <5>2. z \in S[h[y].left] => h[z].key < h[y].key
          BY <2>3, <3>1
        <5>3. QED
          BY <3>3, <4>1, <5>1, <5>2
      <4>4. QED
        BY <3>2, <4>2, <4>3
    <3> HIDE DEF nxt, B
    <3>6. QED
      BY <3>1, <3>4, <3>5
  <2>5. \A y \in I : rank[y] \in Nat
    BY <1>2, <2>2
  <2>6. \A y \in I \ B : nxt[y] \in I /\ rank[nxt[y]] < rank[y]
    <3> HIDE DEF B, nxt, rank, I, N
    <3>1. QED
      BY <1>2, <2>2, <2>4
  <2>7. PICK y \in I \cap B : down[x] = id[y]
    <3> HIDE DEF B, nxt, rank, I, id, down
    <3>1. QED
      BY <1>4, <2>2, <2>5, <2>6, DescentEnds
  <2>8. /\ down[x] = y /\ y \in S[x] /\ y \in L /\ h[y].right = Null
        /\ \A z \in S[x] : z \in S[y] \/ h[z].key < h[y].key
    BY <2>1, <2>7
  <2>9. \A z \in S[y] : z # y => h[z].key < h[y].key
    BY <2>3, <2>8
  <2> HIDE DEF down, I, B, id, nxt
  <2>10. QED
    BY <2>8, <2>9, Zenon
<1> HIDE DEF B, id, nxt, rank, N
<1>7. QED
  BY <1>5, <1>6, Zenon

-----------------------------------------------------------------------------
(* Search trees: ways up.                                                  *)

\* Nodes that are not in the tree point nowhere
Idle(h, L) == \A x \in Address \ L : /\ h[x].right = Null /\ h[x].parent = Null
                                     /\ x # Root => h[x].left = Null

\* So every pointer down is to a node of the tree
LEMMA IdleGrounded ==
    ASSUME NEW h, NEW L, NEW S, TreeOf(h, L, S), Idle(h, L)
    PROVE  Grounded(h, L)
<1>1. \A x \in L : h[x].left \in L \cup {Null} /\ h[x].right \in L \cup {Null}
  BY Subtrees
<1>2. h[Root].left \in L \cup {Null} /\ h[Root].right = Null
  BY DEF TreeOf, Tree, Child
<1>3. QED
  BY <1>1, <1>2 DEF Idle, Grounded

\* A measure that every step to the parent makes smaller
Depth(L, S) == [x \in Address |-> IF x \in L THEN Cardinality(L) + 1 - Cardinality(S[x]) ELSE 0]

\* A parent is less deep than its child
LEMMA Depths ==
    ASSUME NEW h, NEW L, NEW S, TreeOf(h, L, S), Idle(h, L)
    PROVE  /\ Cardinality(L) + 2 \in Nat
           /\ \A x \in Address : /\ Depth(L, S)[x] \in Nat
                                 /\ Depth(L, S)[x] < Cardinality(L) + 2
           /\ \A x \in Address : h[x].parent # Null =>
                  h[x].parent \in Address /\ Depth(L, S)[h[x].parent] < Depth(L, S)[x]
<1>1. Cardinality(L) \in Nat /\ IsFiniteSet(L) /\ L \subseteq Address /\ Root \in Address
      /\ Root \notin L
  BY CacheAssumption, FS_CardinalityType DEF TreeOf, Address
<1>2. ASSUME NEW x \in L
      PROVE  /\ IsFiniteSet(S[x]) /\ Cardinality(S[x]) \in Nat /\ Cardinality(S[x]) <= Cardinality(L)
  <2>1. S[x] \subseteq L
    BY Subtrees
  <2>2. QED
    BY <1>1, <2>1, FS_Subset, FS_CardinalityType
<1>3. ASSUME NEW x \in L, NEW y \in L, y = h[x].left \/ y = h[x].right
      PROVE  Cardinality(S[y]) < Cardinality(S[x])
  <2>1. S[y] \subseteq S[x] /\ x \notin S[y] /\ x \in S[x]
    BY <1>3, Subtrees
  <2>2. S[y] # S[x]
    BY <2>1
  <2>3. QED
    BY <1>2, <2>1, <2>2, FS_Subset
<1>4. \A x \in Address : Depth(L, S)[x] = IF x \in L THEN Cardinality(L) + 1 - Cardinality(S[x]) ELSE 0
  BY DEF Depth
<1>5. ASSUME NEW x \in Address
      PROVE  Depth(L, S)[x] \in Nat /\ Depth(L, S)[x] < Cardinality(L) + 2
  <2>1. CASE x \in L
    <3>1. Depth(L, S)[x] = Cardinality(L) + 1 - Cardinality(S[x])
      BY <1>4, <2>1
    <3>2. QED
      BY <1>1, <1>2, <2>1, <3>1
  <2>2. CASE x \notin L
    BY <1>1, <1>4, <2>2
  <2>3. QED
    BY <2>1, <2>2
<1>6. ASSUME NEW x \in Address, h[x].parent # Null
      PROVE  h[x].parent \in Address /\ Depth(L, S)[h[x].parent] < Depth(L, S)[x]
  <2>1. x \in L
    BY <1>6 DEF Idle
  <2>2. h[x].parent \in L \cup {Root} /\ (x = h[h[x].parent].left \/ x = h[h[x].parent].right)
    BY <2>1, Parent
  <2>3. Depth(L, S)[x] = Cardinality(L) + 1 - Cardinality(S[x])
    BY <1>4, <2>1
  <2>4. CASE h[x].parent \in L
    <3>1. Depth(L, S)[h[x].parent] = Cardinality(L) + 1 - Cardinality(S[h[x].parent])
      BY <1>1, <1>4, <2>4
    <3>2. Cardinality(S[x]) < Cardinality(S[h[x].parent])
      BY <1>3, <2>1, <2>2, <2>4
    <3>3. \A a, b, d \in Nat : a < b => d + 1 - b < d + 1 - a
      OBVIOUS
    <3>4. Cardinality(S[x]) \in Nat /\ Cardinality(S[h[x].parent]) \in Nat
      BY <1>2, <2>1, <2>4
    <3>5. QED
      BY <1>1, <2>3, <2>4, <3>1, <3>2, <3>3, <3>4
  <2>5. CASE h[x].parent = Root
    <3>1. Depth(L, S)[h[x].parent] = 0
      BY <1>1, <1>4, <2>5
    <3>2. QED
      BY <1>1, <1>2, <2>1, <2>3, <2>5, <3>1
  <2>6. QED
    BY <2>2, <2>4, <2>5
<1>7. QED
  BY <1>1, <1>5, <1>6

\* What is not in a subtree is on one side of all of it
LEMMA Outside ==
    ASSUME NEW h, NEW L, NEW S, TreeOf(h, L, S), NEW r \in L, NEW z \in L \ S[r]
    PROVE  (\A w \in S[r] : h[w].key < h[z].key) \/ (\A w \in S[r] : h[z].key < h[w].key)
<1> DEFINE T == {a \in L : r \in S[a] /\ z \in S[a]}
<1>1. S[h[Root].left] = L /\ S[Null] = {} /\ h[Root].left \in L \cup {Null}
  BY DEF TreeOf, Tree, Child
<1>2. h[Root].left \in T
  BY <1>1
<1>3. PICK a \in T : h[a].left \notin T /\ h[a].right \notin T
  <2> T \in SUBSET L
    OBVIOUS
  <2> HIDE DEF T
  <2>1. QED
    BY <1>2, Bottom
<1>4. /\ S[a] = {a} \cup S[h[a].left] \cup S[h[a].right]
      /\ h[a].left \in L \cup {Null} /\ h[a].right \in L \cup {Null}
      /\ \A y \in S[h[a].left] : h[y].key < h[a].key
      /\ \A y \in S[h[a].right] : h[a].key < h[y].key
      /\ a # r /\ r \in S[a] /\ z \in S[a]
  BY Subtrees DEF TreeOf, Tree
<1>5. \A y \in L : h[y].key \in Nat
  BY Fields DEF TreeOf, Address
<1>6. S[r] \subseteq L /\ h[a].key \in Nat
  BY <1>5, Subtrees
<1>7. CASE r \in S[h[a].left]
  <2>1. S[r] \subseteq S[h[a].left]
    BY <1>1, <1>4, <1>7, SubtreeOf
  <2>2. z = a \/ z \in S[h[a].right]
    BY <1>1, <1>3, <1>4, <1>7
  <2>3. \A w \in S[r] : h[w].key < h[z].key
    BY <1>4, <1>5, <1>6, <2>1, <2>2
  <2>4. QED
    BY <2>3
<1>8. CASE r \in S[h[a].right]
  <2>1. S[r] \subseteq S[h[a].right]
    BY <1>1, <1>4, <1>8, SubtreeOf
  <2>2. z = a \/ z \in S[h[a].left]
    BY <1>1, <1>3, <1>4, <1>8
  <2>3. \A w \in S[r] : h[z].key < h[w].key
    BY <1>4, <1>5, <1>6, <2>1, <2>2
  <2>4. QED
    BY <2>3
<1>9. QED
  BY <1>4, <1>7, <1>8

\* Going up from a node to a left child: all that was passed is before the node
LEMMA UpToLeft ==
    ASSUME NEW h, NEW L, NEW S, TreeOf(h, L, S), Idle(h, L), NEW x \in L
    PROVE  LET up == CHOOSE f : f = [n \in Address |->
                         IF h[n].parent = Null \/ n = h[h[n].parent].left THEN h[n].parent
                         ELSE f[h[n].parent]]
           IN  \E y \in L : /\ x \in S[y] /\ up[x] = h[y].parent /\ y = h[h[y].parent].left
                       /\ \A z \in S[y] : z \in S[x] \/ h[z].key < h[x].key
<1> DEFINE B == {n \in Address : h[n].parent = Null \/ n = h[h[n].parent].left}
           nxt == [n \in Address |-> h[n].parent]
           Body(f) == [n \in Address |->
                         IF h[n].parent = Null \/ n = h[h[n].parent].left THEN h[n].parent
                         ELSE f[h[n].parent]]
           up == CHOOSE f : f = Body(f)
           rank == Depth(L, S)
           N == Cardinality(L) + 2
<1>1. \A f : Body(f) = [n \in Address |-> IF n \in B THEN nxt[n] ELSE f[nxt[n]]]
  <2>1. ASSUME NEW f, NEW n \in Address
        PROVE  Body(f)[n] = IF n \in B THEN nxt[n] ELSE f[nxt[n]]
    OBVIOUS
  <2>2. \A f : Body(f) = [n \in Address |-> Body(f)[n]]
    OBVIOUS
  <2> HIDE DEF Body, B, nxt
  <2>3. QED
    BY <2>1, <2>2
<1>2. /\ N \in Nat /\ \A n \in Address : rank[n] \in Nat /\ rank[n] < N
      /\ \A n \in Address \ B : nxt[n] \in Address /\ rank[nxt[n]] < rank[n]
  BY Depths
<1>3. L \subseteq Address /\ Root \in Address /\ Root \notin L
  BY CacheAssumption DEF TreeOf, Address
<1>4. Follows(up, Address, B, nxt, nxt)
  <2> HIDE DEF B, nxt, rank, N, Body
  <2>1. \E f : Follows(f, Address, B, nxt, nxt)
    BY <1>2, DescentExists
  <2>2. \E f : f = Body(f)
    BY <1>1, <2>1 DEF Follows
  <2>3. up = Body(up)
    BY <2>2
  <2>4. QED
    BY <1>1, <2>3 DEF Follows
<1> DEFINE I == {y \in L : /\ x \in S[y]
                            /\ \A z \in S[y] : z \in S[x] \/ h[z].key < h[x].key}
<1>5. I \in SUBSET Address /\ x \in I
  BY <1>3, Subtrees
<1>6. ASSUME NEW n \in L
      PROVE  /\ n \in Address /\ h[n].key \in Nat /\ S[n] \subseteq L
             /\ S[n] = {n} \cup S[h[n].left] \cup S[h[n].right]
             /\ \A z \in S[h[n].left] : h[z].key < h[n].key
             /\ \A z \in S[h[n].right] : h[n].key < h[z].key
  BY <1>3, Subtrees, Fields DEF TreeOf, Tree
<1>7. ASSUME NEW y \in I, y \notin B
      PROVE  nxt[y] \in I
  <2>1. /\ y \in L /\ y \in Address /\ x \in S[y] /\ nxt[y] = h[y].parent
        /\ \A z \in S[y] : z \in S[x] \/ h[z].key < h[x].key
        /\ y # h[h[y].parent].left
    BY <1>3, <1>7
  <2> DEFINE p == h[y].parent
  <2>2. p \in L /\ y = h[p].right
    <3>1. p \in L \cup {Root} /\ (y = h[p].left \/ y = h[p].right)
      BY <2>1, Parent
    <3>2. h[Root].right = Null /\ Null \notin L
      BY CacheAssumption DEF TreeOf, Tree, Address
    <3>3. QED
      BY <2>1, <3>1, <3>2
  <2>3. /\ S[p] = {p} \cup S[h[p].right] \cup S[h[p].left]
        /\ \A z \in S[h[p].left] : h[z].key < h[p].key
        /\ h[p].key < h[x].key
        /\ S[p] \subseteq L /\ p \in Address
    BY <1>6, <2>1, <2>2
  <2>4. h[p].key \in Nat /\ h[x].key \in Nat /\ \A z \in S[p] : h[z].key \in Nat
    BY <1>6, <2>2, <2>3
  <2>5. ASSUME NEW z \in S[p]
        PROVE  z \in S[x] \/ h[z].key < h[x].key
    <3>1. CASE z \in S[y]
      BY <2>1, <3>1
    <3>2. CASE z \notin S[y]
      <4>1. z = p \/ h[z].key < h[p].key
        BY <2>2, <2>3, <3>2
      <4>2. QED
        BY <2>3, <2>4, <4>1
    <3>3. QED
      BY <3>1, <3>2
  <2>6. x \in S[p]
    BY <2>1, <2>2, <2>3
  <2> HIDE DEF nxt, B
  <2>7. QED
    BY <2>1, <2>2, <2>5, <2>6
<1>8. \A y \in I : rank[y] \in Nat
  BY <1>2, <1>5
<1>9. \A y \in I \ B : nxt[y] \in I /\ rank[nxt[y]] < rank[y]
  <2> HIDE DEF B, nxt, rank, I, N
  <2>1. QED
    BY <1>2, <1>5, <1>7
<1>10. PICK y \in I \cap B : up[x] = nxt[y]
  <2> HIDE DEF B, nxt, rank, I, up
  <2>1. QED
    BY <1>4, <1>5, <1>8, <1>9, DescentEnds
<1>11. /\ up[x] = h[y].parent /\ y \in L /\ x \in S[y]
       /\ \A z \in S[y] : z \in S[x] \/ h[z].key < h[x].key
       /\ h[y].parent = Null \/ y = h[h[y].parent].left
  BY <1>3, <1>10
<1>12. h[y].parent # Null
  <2>1. h[y].parent \in L \cup {Root}
    BY <1>11, Parent
  <2>2. QED
    BY <1>3, <2>1, CacheAssumption
<1> HIDE DEF I, B, nxt, rank, N
<1>13. QED
  BY <1>11, <1>12

\* Going up from a node to a right child, or past the root: all that was passed is after it
LEMMA UpToRight ==
    ASSUME NEW h, NEW L, NEW S, TreeOf(h, L, S), Idle(h, L), NEW x \in L
    PROVE  LET up == CHOOSE f : f = [n \in Address |->
                         IF h[n].parent = Null \/ n = h[h[n].parent].right THEN h[n].parent
                         ELSE f[h[n].parent]]
           IN  \/ /\ up[x] = Null
                 /\ \A z \in L : z \in S[x] \/ h[x].key < h[z].key
              \/ \E y \in L : /\ x \in S[y] /\ up[x] = h[y].parent /\ y = h[h[y].parent].right
                             /\ \A z \in S[y] : z \in S[x] \/ h[x].key < h[z].key
<1> DEFINE B == {n \in Address : h[n].parent = Null \/ n = h[h[n].parent].right}
           nxt == [n \in Address |-> h[n].parent]
           Body(f) == [n \in Address |->
                         IF h[n].parent = Null \/ n = h[h[n].parent].right THEN h[n].parent
                         ELSE f[h[n].parent]]
           up == CHOOSE f : f = Body(f)
           rank == Depth(L, S)
           N == Cardinality(L) + 2
<1>1. \A f : Body(f) = [n \in Address |-> IF n \in B THEN nxt[n] ELSE f[nxt[n]]]
  <2>1. ASSUME NEW f, NEW n \in Address
        PROVE  Body(f)[n] = IF n \in B THEN nxt[n] ELSE f[nxt[n]]
    OBVIOUS
  <2>2. \A f : Body(f) = [n \in Address |-> Body(f)[n]]
    OBVIOUS
  <2> HIDE DEF Body, B, nxt
  <2>3. QED
    BY <2>1, <2>2
<1>2. /\ N \in Nat /\ \A n \in Address : rank[n] \in Nat /\ rank[n] < N
      /\ \A n \in Address \ B : nxt[n] \in Address /\ rank[nxt[n]] < rank[n]
  BY Depths
<1>3. L \subseteq Address /\ Root \in Address /\ Root \notin L
  BY CacheAssumption DEF TreeOf, Address
<1>4. Follows(up, Address, B, nxt, nxt)
  <2> HIDE DEF B, nxt, rank, N, Body
  <2>1. \E f : Follows(f, Address, B, nxt, nxt)
    BY <1>2, DescentExists
  <2>2. \E f : f = Body(f)
    BY <1>1, <2>1 DEF Follows
  <2>3. up = Body(up)
    BY <2>2
  <2>4. QED
    BY <1>1, <2>3 DEF Follows
<1> DEFINE Sub(y) == IF y = Root THEN L ELSE S[y]
           I == {y \in L \cup {Root} : /\ x \in Sub(y)
                                     /\ \A z \in Sub(y) : z \in S[x] \/ h[x].key < h[z].key}
<1>5. I \in SUBSET Address /\ x \in I
  BY <1>3, Subtrees
<1>6. ASSUME NEW n \in L
      PROVE  /\ n \in Address /\ h[n].key \in Nat /\ S[n] \subseteq L
             /\ S[n] = {n} \cup S[h[n].left] \cup S[h[n].right]
             /\ \A z \in S[h[n].left] : h[z].key < h[n].key
             /\ \A z \in S[h[n].right] : h[n].key < h[z].key
  BY <1>3, Subtrees, Fields DEF TreeOf, Tree
<1>7. ASSUME NEW y \in I, y \notin B
      PROVE  nxt[y] \in I
  <2>0. y # Root
    <3>1. Root \in B
      BY <1>3 DEF TreeOf, Tree
    <3>2. QED
      BY <1>7, <3>1
  <2>1. /\ y \in L /\ y \in Address /\ x \in S[y] /\ nxt[y] = h[y].parent
        /\ \A z \in S[y] : z \in S[x] \/ h[x].key < h[z].key
        /\ y # h[h[y].parent].right
    BY <1>3, <1>7, <2>0
  <2> DEFINE p == h[y].parent
  <2>2. p \in L \cup {Root} /\ y = h[p].left
    <3>1. p \in L \cup {Root} /\ (y = h[p].left \/ y = h[p].right)
      BY <2>1, Parent
    <3>2. QED
      BY <2>1, <3>1
  <2>a. CASE p = Root
    <3>1. S[y] = L
      BY <2>2, <2>a DEF TreeOf, Tree
    <3>2. QED
      BY <2>1, <2>a, <3>1
  <2>b. CASE p # Root
    <3>0. p \in L
      BY <2>2, <2>b
    <3>3. /\ S[p] = {p} \cup S[h[p].left] \cup S[h[p].right]
          /\ \A z \in S[h[p].right] : h[p].key < h[z].key
          /\ h[x].key < h[p].key
          /\ S[p] \subseteq L /\ p \in Address
      BY <1>6, <2>1, <2>2, <2>b
    <3>4. h[p].key \in Nat /\ h[x].key \in Nat /\ \A z \in S[p] : h[z].key \in Nat
      BY <1>6, <2>2, <3>3, <2>b
    <3>5. ASSUME NEW z \in S[p]
          PROVE  z \in S[x] \/ h[x].key < h[z].key
      <4>1. CASE z \in S[y]
        BY <2>1, <4>1
      <4>2. CASE z \notin S[y]
        <5>1. z = p \/ h[p].key < h[z].key
          BY <2>2, <3>3, <4>2
        <5>2. QED
          BY <3>3, <3>4, <5>1
      <4>3. QED
        BY <4>1, <4>2
    <3>6. x \in S[p]
      BY <2>1, <2>2, <3>3
    <3> HIDE DEF nxt, B
    <3>7. QED
      BY <2>1, <2>2, <2>b, <3>5, <3>6
  <2> HIDE DEF nxt, B, I
  <2>c. QED
    BY <2>a, <2>b
<1>8. \A y \in I : rank[y] \in Nat
  BY <1>2, <1>5
<1>9. \A y \in I \ B : nxt[y] \in I /\ rank[nxt[y]] < rank[y]
  <2> HIDE DEF B, nxt, rank, I, N
  <2>1. QED
    BY <1>2, <1>5, <1>7
<1>10. PICK y \in I \cap B : up[x] = nxt[y]
  <2> HIDE DEF B, nxt, rank, I, up
  <2>1. QED
    BY <1>4, <1>5, <1>8, <1>9, DescentEnds
<1> DEFINE Past == up[x] = Null /\ \A z \in L : z \in S[x] \/ h[x].key < h[z].key
           Met == \E w \in L : /\ x \in S[w] /\ up[x] = h[w].parent /\ w = h[h[w].parent].right
                              /\ \A z \in S[w] : z \in S[x] \/ h[x].key < h[z].key
<1>11. CASE y = Root
  <2>1. up[x] = h[Root].parent /\ \A z \in L : z \in S[x] \/ h[x].key < h[z].key
    BY <1>3, <1>10, <1>11
  <2>2. h[Root].parent = Null
    BY DEF TreeOf, Tree
  <2> HIDE DEF up, I, B, nxt
  <2>3. Past
    BY <2>1, <2>2
  <2> HIDE DEF Past, Met
  <2>4. Past \/ Met
    BY <2>3
  <2>5. QED
    BY <2>4 DEF Past, Met, up
<1>12. CASE y # Root
  <2>1. /\ up[x] = h[y].parent /\ y \in L /\ x \in S[y]
        /\ \A z \in S[y] : z \in S[x] \/ h[x].key < h[z].key
        /\ h[y].parent = Null \/ y = h[h[y].parent].right
    BY <1>3, <1>10, <1>12
  <2>2. h[y].parent # Null
    <3>1. h[y].parent \in L \cup {Root}
      BY <2>1, Parent
    <3>2. QED
      BY <1>3, <3>1, CacheAssumption
  <2> HIDE DEF up, I, B, nxt
  <2>3. Met
    BY <2>1, <2>2
  <2> HIDE DEF Past, Met
  <2>4. Past \/ Met
    BY <2>3
  <2>5. QED
    BY <2>4 DEF Past, Met, up
<1>13. QED
  BY <1>11, <1>12

\* operator++: from a node to the one with the next key, or to end()
LEMMA SuccessorIs ==
    ASSUME NEW h, NEW L, NEW S, TreeOf(h, L, S), Idle(h, L), NEW x \in L
    PROVE  LET r == Successor(h, x)
           IN  \/ r = Root /\ \A z \in L : ~(h[x].key < h[z].key)
               \/ /\ r \in L /\ h[x].key < h[r].key
                  /\ \A z \in L : h[x].key < h[z].key => z = r \/ h[r].key < h[z].key
<1> DEFINE down == CHOOSE f : f = [n \in Address |->
                       IF h[n].left = Null THEN n ELSE f[h[n].left]]
           up == CHOOSE f : f = [n \in Address |->
                     IF h[n].parent = Null \/ n = h[h[n].parent].left THEN h[n].parent
                     ELSE f[h[n].parent]]
           r == IF h[x].right # Null THEN down[h[x].right] ELSE up[x]
<1>1. r = Successor(h, x)
  BY DEF Successor
<1>2. ASSUME NEW n \in L
      PROVE  /\ n \in Address /\ h[n].key \in Nat /\ S[n] \subseteq L /\ n \in S[n]
             /\ S[n] = {n} \cup S[h[n].left] \cup S[h[n].right]
             /\ \A z \in S[h[n].left] : h[z].key < h[n].key
             /\ \A z \in S[h[n].right] : h[n].key < h[z].key
             /\ h[n].left \in L \cup {Null} /\ h[n].right \in L \cup {Null}
  <2>1. n \in Address
    BY DEF TreeOf, Address
  <2>2. QED
    BY <2>1, Subtrees, Fields DEF TreeOf, Tree
<1>3. S[Null] = {} /\ S[h[Root].left] = L
  BY DEF TreeOf, Tree
<1>4. CASE h[x].right # Null
  <2> DEFINE m == down[h[x].right]
  <2>1. h[x].right \in L
    BY <1>2, <1>4
  <2>2. m \in S[h[x].right] /\ \A z \in S[h[x].right] : z # m => h[m].key < h[z].key
    BY <2>1, IdleGrounded, Leftmost
  <2>3. r = m
    BY <1>4
  <2> HIDE DEF m, r, down, up
  <2>4. m \in L /\ m \in S[x] /\ h[x].key < h[m].key
    BY <1>2, <2>1, <2>2
  <2>5. ASSUME NEW z \in L, h[x].key < h[z].key
        PROVE  z = m \/ h[m].key < h[z].key
    <3>1. h[z].key \in Nat /\ h[x].key \in Nat /\ h[m].key \in Nat
      BY <1>2, <2>4
    <3>2. CASE z \in S[x]
      <4>1. z \in S[h[x].right]
        BY <1>2, <2>5, <3>1, <3>2
      <4>2. QED
        BY <2>2, <4>1
    <3>3. CASE z \notin S[x]
      <4>1. (\A w \in S[x] : h[w].key < h[z].key) \/ (\A w \in S[x] : h[z].key < h[w].key)
        BY <3>3, Outside
      <4>2. x \in S[x]
        BY <1>2
      <4>3. QED
        BY <2>4, <2>5, <3>1, <4>1, <4>2
    <3>4. QED
      BY <3>2, <3>3
  <2>6. QED
    BY <1>1, <2>3, <2>4, <2>5
<1>5. CASE h[x].right = Null
  <2>1. PICK y \in L : /\ x \in S[y] /\ up[x] = h[y].parent /\ y = h[h[y].parent].left
                       /\ \A z \in S[y] : z \in S[x] \/ h[z].key < h[x].key
    BY UpToLeft
  <2>2. r = h[y].parent
    BY <1>5, <2>1
  <2> HIDE DEF r, down, up
  <2>3. \A z \in S[y] : ~(h[x].key < h[z].key)
    <3>1. \A z \in S[x] : z = x \/ h[z].key < h[x].key
      BY <1>2, <1>3, <1>5
    <3>2. \A z \in S[y] : h[z].key \in Nat /\ h[x].key \in Nat
      BY <1>2
    <3>3. QED
      BY <2>1, <3>1, <3>2
  <2>4. r \in L \cup {Root} /\ y = h[r].left
    BY <2>1, <2>2, Parent
  <2>5. CASE r = Root
    BY <1>1, <1>3, <2>3, <2>4, <2>5
  <2>6. CASE r \in L
    <3>1. h[x].key < h[r].key /\ x \in S[r]
      BY <1>2, <2>1, <2>4, <2>6
    <3>2. ASSUME NEW z \in L, h[x].key < h[z].key
          PROVE  z = r \/ h[r].key < h[z].key
      <4>1. h[z].key \in Nat /\ h[x].key \in Nat /\ h[r].key \in Nat
        BY <1>2, <2>6
      <4>2. CASE z \in S[r]
        BY <1>2, <2>3, <2>4, <2>6, <3>2, <4>2
      <4>3. CASE z \notin S[r]
        <5>1. (\A w \in S[r] : h[w].key < h[z].key) \/ (\A w \in S[r] : h[z].key < h[w].key)
          BY <2>6, <4>3, Outside
        <5>2. QED
          BY <1>2, <2>6, <3>1, <3>2, <4>1, <5>1
      <4>4. QED
        BY <4>2, <4>3
    <3>3. QED
      BY <1>1, <2>6, <3>1, <3>2
  <2>7. QED
    BY <2>4, <2>5, <2>6
<1> HIDE DEF r
<1>6. QED
  BY <1>4, <1>5

\* operator--: from a node to the one with the key before, or to nothing
LEMMA PredecessorIs ==
    ASSUME NEW h, NEW L, NEW S, TreeOf(h, L, S), Idle(h, L), NEW x \in L
    PROVE  LET r == Predecessor(h, x)
           IN  \/ r = Null /\ \A z \in L : ~(h[z].key < h[x].key)
               \/ /\ r \in L /\ h[r].key < h[x].key
                  /\ \A z \in L : h[z].key < h[x].key => z = r \/ h[z].key < h[r].key
<1> DEFINE down == CHOOSE f : f = [n \in Address |->
                       IF h[n].right = Null THEN n ELSE f[h[n].right]]
           up == CHOOSE f : f = [n \in Address |->
                     IF h[n].parent = Null \/ n = h[h[n].parent].right THEN h[n].parent
                     ELSE f[h[n].parent]]
           r == IF h[x].left # Null THEN down[h[x].left] ELSE up[x]
<1>1. r = Predecessor(h, x)
  BY DEF Predecessor
<1>2. ASSUME NEW n \in L
      PROVE  /\ n \in Address /\ h[n].key \in Nat /\ S[n] \subseteq L /\ n \in S[n]
             /\ S[n] = {n} \cup S[h[n].left] \cup S[h[n].right]
             /\ \A z \in S[h[n].left] : h[z].key < h[n].key
             /\ \A z \in S[h[n].right] : h[n].key < h[z].key
             /\ h[n].left \in L \cup {Null} /\ h[n].right \in L \cup {Null}
  <2>1. n \in Address
    BY DEF TreeOf, Address
  <2>2. QED
    BY <2>1, Subtrees, Fields DEF TreeOf, Tree
<1>3. S[Null] = {} /\ S[h[Root].left] = L /\ Null \notin L /\ h[Root].right = Null
  BY CacheAssumption DEF TreeOf, Tree, Address
<1>4. CASE h[x].left # Null
  <2> DEFINE m == down[h[x].left]
  <2>1. h[x].left \in L
    BY <1>2, <1>4
  <2>2. m \in S[h[x].left] /\ \A z \in S[h[x].left] : z # m => h[z].key < h[m].key
    BY <2>1, IdleGrounded, Rightmost
  <2>3. r = m
    BY <1>4
  <2> HIDE DEF m, r, down, up
  <2>4. m \in L /\ m \in S[x] /\ h[m].key < h[x].key
    BY <1>2, <2>1, <2>2
  <2>5. ASSUME NEW z \in L, h[z].key < h[x].key
        PROVE  z = m \/ h[z].key < h[m].key
    <3>1. h[z].key \in Nat /\ h[x].key \in Nat /\ h[m].key \in Nat
      BY <1>2, <2>4
    <3>2. CASE z \in S[x]
      <4>1. z \in S[h[x].left]
        BY <1>2, <2>5, <3>1, <3>2
      <4>2. QED
        BY <2>2, <4>1
    <3>3. CASE z \notin S[x]
      <4>1. (\A w \in S[x] : h[w].key < h[z].key) \/ (\A w \in S[x] : h[z].key < h[w].key)
        BY <3>3, Outside
      <4>2. x \in S[x]
        BY <1>2
      <4>3. QED
        BY <2>4, <2>5, <3>1, <4>1, <4>2
    <3>4. QED
      BY <3>2, <3>3
  <2>6. QED
    BY <1>1, <2>3, <2>4, <2>5
<1>5. CASE h[x].left = Null
  <2> DEFINE Past == up[x] = Null /\ \A z \in L : z \in S[x] \/ h[x].key < h[z].key
             Met(y) == /\ x \in S[y] /\ up[x] = h[y].parent /\ y = h[h[y].parent].right
                       /\ \A z \in S[y] : z \in S[x] \/ h[x].key < h[z].key
  <2>1. Past \/ \E y \in L : Met(y)
    BY UpToRight
  <2>2. \A z \in S[x] : ~(h[z].key < h[x].key)
    <3>1. \A z \in S[x] : z = x \/ h[x].key < h[z].key
      BY <1>2, <1>3, <1>5
    <3>2. \A z \in S[x] : h[z].key \in Nat /\ h[x].key \in Nat
      BY <1>2
    <3>3. QED
      BY <3>1, <3>2
  <2>3. r = up[x]
    BY <1>5
  <2> HIDE DEF r, down, up
  <2>4. \A z \in L : h[z].key \in Nat /\ h[x].key \in Nat
    BY <1>2
  <2>5. CASE Past
    <3>1. \A z \in L : ~(h[z].key < h[x].key)
      BY <2>2, <2>4, <2>5
    <3>2. QED
      BY <1>1, <2>3, <2>5, <3>1
  <2>6. CASE \E y \in L : Met(y)
    <3>1. PICK y \in L : Met(y)
      BY <2>6
    <3>2. \A z \in S[y] : ~(h[z].key < h[x].key)
      <4>1. S[y] \subseteq L
        BY <1>2
      <4>2. QED
        BY <2>2, <2>4, <3>1, <4>1
    <3>3. r = h[y].parent /\ x \in S[y] /\ y = h[r].right
      BY <2>3, <3>1
    <3>4. r \in L
      BY <1>3, <3>3, Parent
    <3>5. h[r].key < h[x].key /\ x \in S[r]
      BY <1>2, <3>3, <3>4
    <3>6. ASSUME NEW z \in L, h[z].key < h[x].key
          PROVE  z = r \/ h[z].key < h[r].key
      <4>1. h[z].key \in Nat /\ h[x].key \in Nat /\ h[r].key \in Nat
        BY <1>2, <3>4
      <4>2. CASE z \in S[r]
        BY <1>2, <3>2, <3>3, <3>4, <3>6, <4>2
      <4>3. CASE z \notin S[r]
        <5>1. (\A w \in S[r] : h[w].key < h[z].key) \/ (\A w \in S[r] : h[z].key < h[w].key)
          BY <3>4, <4>3, Outside
        <5>2. QED
          BY <1>2, <3>4, <3>5, <3>6, <4>1, <5>1
      <4>4. QED
        BY <4>2, <4>3
    <3>7. QED
      BY <1>1, <3>4, <3>5, <3>6
  <2>7. QED
    BY <2>1, <2>5, <2>6
<1> HIDE DEF r
<1>6. QED
  BY <1>4, <1>5

\* begin() has the least key, and is end() in an empty cache
LEMMA FindMinIs ==
    ASSUME NEW h, NEW L, NEW S, TreeOf(h, L, S), Idle(h, L)
    PROVE  /\ L = {} => FindMin(h) = Root
           /\ L # {} => FindMin(h) \in L /\ \A z \in L : ~(h[z].key < h[FindMin(h)].key)
<1> DEFINE down == CHOOSE f : f = [n \in Address |->
                       IF h[n].left = Null THEN n ELSE f[h[n].left]]
<1>1. FindMin(h) = down[Root]
  BY DEF FindMin
<1>2. /\ down[Root] = IF h[Root].left = Null THEN Root ELSE down[h[Root].left]
      /\ \A x \in L : /\ down[x] \in S[x] /\ h[down[x]].left = Null
                      /\ \A z \in S[x] : z # down[x] => h[down[x]].key < h[z].key
  BY IdleGrounded, Leftmost
<1>3. S[Null] = {} /\ S[h[Root].left] = L /\ h[Root].left \in L \cup {Null}
  BY DEF TreeOf, Tree, Child
<1>4. \A n \in L : h[n].key \in Nat /\ n \in S[n] /\ S[n] \subseteq L
  BY Fields, Subtrees DEF TreeOf, Address
<1> HIDE DEF down
<1>5. CASE h[Root].left = Null
  BY <1>1, <1>2, <1>3, <1>5
<1>6. CASE h[Root].left # Null
  <2>1. h[Root].left \in L /\ down[Root] = down[h[Root].left]
    BY <1>2, <1>3, <1>6
  <2>2. down[Root] \in L /\ \A z \in L : z # down[Root] => h[down[Root]].key < h[z].key
    BY <1>2, <1>3, <1>4, <2>1
  <2>3. \A z \in L : ~(h[z].key < h[down[Root]].key)
    BY <1>4, <2>2
  <2>4. QED
    BY <1>1, <2>2, <2>3
<1>7. QED
  BY <1>5, <1>6

\* -- from end() leads to the greatest key
LEMMA PredecessorOfEnd ==
    ASSUME NEW h, NEW L, NEW S, TreeOf(h, L, S), Idle(h, L), L # {}
    PROVE  /\ Predecessor(h, Root) \in L
           /\ \A z \in L : ~(h[Predecessor(h, Root)].key < h[z].key)
<1> DEFINE down == CHOOSE f : f = [n \in Address |->
                       IF h[n].right = Null THEN n ELSE f[h[n].right]]
           r == Predecessor(h, Root)
<1>1. h[Root].left # Null => r = down[h[Root].left]
  BY DEF Predecessor
<1>2. \A x \in L : /\ down[x] \in S[x]
                   /\ \A z \in S[x] : z # down[x] => h[z].key < h[down[x]].key
  BY IdleGrounded, Rightmost
<1>3. S[Null] = {} /\ S[h[Root].left] = L /\ h[Root].left \in L \cup {Null}
  BY DEF TreeOf, Tree, Child
<1>4. \A n \in L : h[n].key \in Nat
  BY Fields DEF TreeOf, Address
<1> HIDE DEF down, r
<1>5. h[Root].left \in L
  BY <1>3
<1>6. r \in L /\ \A z \in L : z # r => h[z].key < h[r].key
  BY <1>1, <1>2, <1>3, <1>5
<1>7. \A z \in L : ~(h[r].key < h[z].key)
  BY <1>4, <1>6
<1>8. QED
  BY <1>6, <1>7 DEF r

-----------------------------------------------------------------------------
(* Search trees: erasure.                                                  *)

\* The predecessor of a node with a left child is below it
LEMMA PredecessorDown ==
    ASSUME NEW h, NEW n, h[n].left # Null
    PROVE  LET down == CHOOSE f : f = [x \in Address |->
                           IF h[x].right = Null THEN x ELSE f[h[x].right]]
           IN  Predecessor(h, n) = down[h[n].left]
BY Zenon DEF Predecessor

\* erase_two_child: the predecessor is cut out and then takes the place of the node
LEMMA EraseTwo ==
    ASSUME NEW h, NEW L, NEW S, TreeOf(h, L, S), Grounded(h, L), NEW d \in L,
           h[d].left # Null, h[d].right # Null, NEW g, g = EraseTwoChild(h, d)
    PROVE  \E e \in L \ {d}, h1 \in Memory :
               /\ h[e].left = Null \/ h[e].right = Null
               /\ Spliced(h1, h, e, OnlyChild(h, e))
               /\ FitsAt(h1, L \ {e}, Shrunk(S, e), d, e)
               /\ Replaced(g, h1, d, e)
<1> DEFINE e == Predecessor(h, d)
           h1 == IF h[e].left # Null THEN EraseOneChild(h, e) ELSE EraseNoChild(h, e)
           p == h1[d].parent
           lt == h1[d].left
           rt == h1[d].right
           h2 == [h1 EXCEPT ![e].parent = p, ![e].left = lt, ![e].right = rt]
           h3 == IF h2[p].left = d THEN [h2 EXCEPT ![p].left = e]
                 ELSE IF h2[p].right = d THEN [h2 EXCEPT ![p].right = e] ELSE h2
           h4 == IF h3[d].left # Null THEN [h3 EXCEPT ![h3[d].left].parent = e] ELSE h3
           h5 == IF h4[d].right # Null THEN [h4 EXCEPT ![h4[d].right].parent = e] ELSE h4
           M == L \ {e}
           R == Shrunk(S, e)
<1>1. g = h5
  BY Zenon DEF EraseTwoChild, CutFromTree, TakePlace, Inherit, HangAt, Adopt
<1>2. /\ h[d].left \in L /\ S[h[d].left] \subseteq L /\ d \notin S[h[d].left]
      /\ S[d] = {d} \cup S[h[d].left] \cup S[h[d].right]
  BY Subtrees DEF TreeOf, Tree
<1>3. /\ e \in S[h[d].left] /\ h[e].right = Null
      /\ \A z \in S[h[d].left] : z # e => h[z].key < h[e].key
  <2> DEFINE down == CHOOSE f : f = [n \in Address |->
                         IF h[n].right = Null THEN n ELSE f[h[n].right]]
             m == down[h[d].left]
  <2>1. e = m
    BY PredecessorDown, Zenon
  <2>2. m \in S[h[d].left] /\ h[m].right = Null
        /\ \A z \in S[h[d].left] : z # m => h[z].key < h[m].key
    <3>1. h[d].left \in L
      BY <1>2
    <3>2. QED
      BY <3>1, Rightmost, Zenon
  <2> HIDE DEF e, m, down
  <2>3. QED
    BY <2>1, <2>2
<1> HIDE DEF e
<1>4. /\ e \in L \ {d} /\ d \in L \ {e} /\ e \in S[d] /\ e \in Node
      /\ e \in Address /\ d \in Address /\ e # Null /\ d # Null /\ e # Root /\ d # Root
      /\ Root \notin L
  BY <1>2, <1>3, Subtrees, CacheAssumption DEF TreeOf, Address
<1>5. Spliced(h1, h, e, OnlyChild(h, e))
  <2>1. h1 = IF h[e].left = Null /\ h[e].right = Null THEN EraseNoChild(h, e) ELSE EraseOneChild(h, e)
    BY <1>3
  <2> HIDE DEF h1
  <2>2. QED
    BY <1>3, <1>4, <2>1, SpliceFields
<1> HIDE DEF h1
<1>6. /\ TreeOf(h1, M, R)
      /\ \A n \in M : /\ R[h1[n].left] = S[h[n].left] \ {e}
                      /\ R[h1[n].right] = S[h[n].right] \ {e}
  <2>1. e \in L
    BY <1>4
  <2>2. h[e].left = Null \/ h[e].right = Null
    BY <1>3
  <2>3. TreeOf(h1, L \ {e}, Shrunk(S, e))
    BY <1>5, <2>1, <2>2, SplicedTree
  <2>4. ShrunkBelow(h1, h, L, S, e)
    BY <1>5, <2>1, <2>2, SplicedTree
  <2>5. QED
    BY <2>3, <2>4 DEF ShrunkBelow
<1>7. \A x \in Address : h1[x].key = h[x].key
  BY <1>5 DEF Spliced, SameData
<1> HIDE DEF R
<1>8. FitsAt(h1, M, R, d, e)
  <2>1. \A a \in L : /\ a \in Address /\ h[a].key \in Nat
                     /\ h[a].left \in L \cup {Null} /\ h[a].right \in L \cup {Null}
                     /\ S[h[a].left] \subseteq L /\ S[h[a].right] \subseteq L
                     /\ \A x \in S[h[a].left] : h[x].key < h[a].key
                     /\ \A x \in S[h[a].right] : h[a].key < h[x].key
    BY Subtrees, Fields DEF TreeOf, Tree
  <2>2. \A y \in L \cup {Null} : d \in S[y] => S[d] \subseteq S[y]
    BY SubtreeOf DEF TreeOf, Tree
  <2>3. \A a \in M : /\ d \in R[h1[a].left] => h1[e].key < h1[a].key
                     /\ d \in R[h1[a].right] => h1[a].key < h1[e].key
    BY <1>4, <1>6, <1>7, <2>1, <2>2
  <2>4. \A x \in S[h[d].left] \ {e} : h1[x].key < h1[e].key
    BY <1>3, <1>4, <1>7, <2>1
  <2>5. \A x \in S[h[d].right] : h1[e].key < h1[x].key
    <3> SUFFICES ASSUME NEW x \in S[h[d].right] PROVE h1[e].key < h1[x].key
      OBVIOUS
    <3>1. x \in L
      BY <1>4, <2>1
    <3>2. h[x].key \in Nat /\ h[e].key \in Nat /\ h[d].key \in Nat
      BY <1>4, <2>1, <3>1
    <3>3. h[e].key < h[d].key /\ h[d].key < h[x].key
      BY <1>3, <1>4, <2>1
    <3>4. QED
      BY <1>4, <1>7, <2>1, <3>1, <3>2, <3>3
  <2>6. QED
    BY <1>4, <1>6, <2>3, <2>4, <2>5 DEF FitsAt
<1>9. /\ p \in Address /\ p # d /\ p # e /\ p \in M \cup {Root}
      /\ h1[p].left = d \/ h1[p].right = d
      /\ ~(h1[p].left = d /\ h1[p].right = d)
      /\ h1 \in Memory /\ p \in Pointer
  <2>1. d \in M
    BY <1>4
  <2>2. /\ p \in Address /\ p # d /\ p \in M \cup {Root}
        /\ h1[p].left = d \/ h1[p].right = d
        /\ ~(h1[p].left = d /\ h1[p].right = d)
    <3> HIDE DEF M
    <3>1. QED
      BY <1>6, <2>1, Side, Parent
  <2>3. QED
    BY <1>4, <1>6, <2>2 DEF TreeOf, Pointer
<1>10. /\ lt \in M \cup {Null} /\ rt \in M \cup {Null} /\ lt # d /\ rt # d
       /\ lt # e /\ rt # e
       /\ lt # Null => lt \in Address
       /\ rt # Null => rt \in Address
       /\ lt \in Pointer /\ rt \in Pointer /\ e \in Pointer
  <2>1. d \in M
    BY <1>4
  <2>2. lt \in M \cup {Null} /\ rt \in M \cup {Null} /\ lt # d /\ rt # d
    <3> HIDE DEF M
    <3>1. QED
      BY <1>6, <2>1, Subtrees
  <2>3. \A x \in M : x \in Address /\ x # e
    BY <1>4 DEF TreeOf, Address
  <2>4. QED
    BY <1>4, <2>2, <2>3 DEF Pointer
<1> DEFINE r == [h1[e] EXCEPT !.parent = p, !.left = lt, !.right = rt]
<1>11. /\ r \in NodeRecord
       /\ r.key = h1[e].key /\ r.value = h1[e].value
       /\ r.left = lt /\ r.right = rt /\ r.parent = p
       /\ r.next = h1[e].next /\ r.prev = h1[e].prev
  <2>1. h1[e] \in NodeRecord
    BY <1>4, <1>9, Fields
  <2> HIDE DEF p, lt, rt
  <2>2. QED
    BY <1>9, <1>10, <2>1 DEF NodeRecord
<1>12. \A y \in Address : h2[y] = IF y = e THEN r ELSE h1[y]
  <2> HIDE DEF p, lt, rt
  <2>1. QED
    BY <1>4, <1>9 DEF Memory
<1>13. h2 \in Memory
  <2>1. h2 = [y \in Address |-> IF y = e THEN r ELSE h1[y]]
    <3> HIDE DEF p, lt, rt
    <3>1. QED
      BY <1>4, <1>9 DEF Memory
  <2>2. \A y \in Address : (IF y = e THEN r ELSE h1[y]) \in NodeRecord
    BY <1>9, <1>11, Fields
  <2> HIDE DEF h2, r
  <2>3. QED
    BY <2>1, <2>2 DEF Memory
<1> HIDE DEF r, h2
<1>14. /\ h3 \in Memory /\ SameList(h3, h1) /\ SameData(h3, h1)
       /\ \A y \in Address :
              /\ h3[y].left = IF y = e THEN lt
                              ELSE IF y = p /\ h1[y].left = d THEN e ELSE h1[y].left
              /\ h3[y].right = IF y = e THEN rt
                               ELSE IF y = p /\ h1[y].right = d THEN e ELSE h1[y].right
              /\ h3[y].parent = IF y = e THEN p ELSE h1[y].parent
  <2>1. h2[p] = h1[p]
    BY <1>9, <1>12
  <2>2. CASE h1[p].left = d
    <3>1. h3 = [h2 EXCEPT ![p].left = e]
      BY <2>1, <2>2
    <3> HIDE DEF h3, p, lt, rt
    <3>2. WroteLeft(h3, h2, p, e)
      BY <1>9, <1>10, <1>13, <3>1, SetLeft
    <3>3. QED
      BY <1>9, <1>11, <1>12, <2>2, <3>2 DEF WroteLeft, SameList, SameData
  <2>3. CASE h1[p].left # d
    <3>1. h3 = [h2 EXCEPT ![p].right = e] /\ h1[p].right = d
      BY <1>9, <2>1, <2>3
    <3> HIDE DEF h3, p, lt, rt
    <3>2. WroteRight(h3, h2, p, e)
      BY <1>9, <1>10, <1>13, <3>1, SetRight
    <3>3. QED
      BY <1>9, <1>11, <1>12, <2>3, <3>1, <3>2 DEF WroteRight, SameList, SameData
  <2>4. QED
    BY <2>2, <2>3
<1> HIDE DEF h3
<1>15. h3[d].left = lt /\ h3[d].right = rt
  BY <1>4, <1>9, <1>14
<1>16. /\ h4 \in Memory /\ SameList(h4, h3) /\ SameData(h4, h3)
       /\ \A y \in Address : /\ h4[y].left = h3[y].left /\ h4[y].right = h3[y].right
                             /\ h4[y].parent = IF y = lt THEN e ELSE h3[y].parent
  <2>1. CASE lt = Null
    <3>1. h4 = h3 /\ lt \notin Address
      BY <1>15, <2>1, CacheAssumption
    <3> HIDE DEF h4, p, lt, rt
    <3>2. QED
      BY <1>14, <3>1 DEF SameList, SameData
  <2>2. CASE lt # Null
    <3>1. h4 = [h3 EXCEPT ![lt].parent = e]
      BY <1>15, <2>2
    <3> HIDE DEF h4, p, lt, rt
    <3>2. WroteParent(h4, h3, lt, e)
      BY <1>10, <1>14, <2>2, <3>1, SetParent
    <3>3. QED
      BY <3>2 DEF WroteParent
  <2>3. QED
    BY <2>1, <2>2
<1> HIDE DEF h4
<1>17. /\ h5 \in Memory /\ SameList(h5, h4) /\ SameData(h5, h4)
       /\ \A y \in Address : /\ h5[y].left = h4[y].left /\ h5[y].right = h4[y].right
                             /\ h5[y].parent = IF y = rt THEN e ELSE h4[y].parent
  <2>0. h4[d].right = rt
    BY <1>4, <1>15, <1>16
  <2>1. CASE rt = Null
    <3>1. h5 = h4 /\ rt \notin Address
      BY <2>0, <2>1, CacheAssumption
    <3> HIDE DEF h5, p, lt, rt
    <3>2. QED
      BY <1>16, <3>1 DEF SameList, SameData
  <2>2. CASE rt # Null
    <3>1. h5 = [h4 EXCEPT ![rt].parent = e]
      BY <2>0, <2>2
    <3> HIDE DEF h5, p, lt, rt
    <3>2. WroteParent(h5, h4, rt, e)
      BY <1>10, <1>16, <2>2, <3>1, SetParent
    <3>3. QED
      BY <3>2 DEF WroteParent
  <2>3. QED
    BY <2>1, <2>2
<1> HIDE DEF h5
<1>18. Replaced(h5, h1, d, e)
  <2>1. SameList(h5, h1) /\ SameData(h5, h1)
    BY <1>14, <1>16, <1>17 DEF SameList, SameData
  <2>2. \A y \in Address :
            h5[y].parent = IF y = e THEN p ELSE IF y = lt \/ y = rt THEN e ELSE h1[y].parent
    <3> HIDE DEF p, lt, rt
    <3>1. QED
      BY <1>10, <1>14, <1>16, <1>17
  <2>3. QED
    BY <1>14, <1>16, <1>17, <2>1, <2>2 DEF Replaced
<1>19. /\ h[e].left = Null \/ h[e].right = Null
       /\ e \in L \ {d} /\ h1 \in Memory /\ M = L \ {e} /\ R = Shrunk(S, e)
  BY <1>3, <1>4, <1>9 DEF R
<1> HIDE DEF M
<1>20. QED
  BY <1>1, <1>5, <1>8, <1>18, <1>19, Zenon

\* What erasure leaves: its lists and data, what is not in the tree, and links
\* of d itself that lead nowhere else than the tree
Cleared(g, h, L, d) ==
    /\ SameList(g, h) /\ SameData(g, h)
    /\ \A y \in Address \ (L \cup {Root}) :
           g[y].left = h[y].left /\ g[y].right = h[y].right /\ g[y].parent = h[y].parent
    /\ g[d].left \in (L \ {d}) \cup {Null} /\ g[d].right \in (L \ {d}) \cup {Null}

\* Splicing leaves that
LEMMA SplicedCleared ==
    ASSUME NEW h, NEW L, NEW S, TreeOf(h, L, S), NEW d \in L,
           NEW g, Spliced(g, h, d, OnlyChild(h, d))
    PROVE  /\ Cleared(g, h, L, d)
           /\ g[d].left = h[d].left /\ g[d].right = h[d].right
<1> DEFINE p == h[d].parent
           x == OnlyChild(h, d)
<1>1. /\ p \in L \cup {Root} /\ p # d /\ d \in Address
      /\ h[d].left \in (L \ {d}) \cup {Null} /\ h[d].right \in (L \ {d}) \cup {Null}
      /\ x \in L \cup {Null}
  BY Parent, Side, Subtrees DEF OnlyChild
<1>2. Null \notin Address
  BY CacheAssumption
<1> HIDE DEF x, p
<1>3. /\ SameList(g, h) /\ SameData(g, h)
      /\ \A y \in Address :
             /\ g[y].left = IF y = p /\ h[y].left = d THEN x ELSE h[y].left
             /\ g[y].right = IF y = p /\ h[y].right = d THEN x ELSE h[y].right
             /\ g[y].parent = IF y = x THEN p ELSE h[y].parent
  BY DEF Spliced, p, x
<1>4. QED
  BY <1>1, <1>2, <1>3 DEF Cleared

\* So does erase_two_child
LEMMA ReplacedCleared ==
    ASSUME NEW h, NEW L, NEW S, TreeOf(h, L, S), NEW d \in L, NEW e \in L \ {d},
           h[e].left = Null \/ h[e].right = Null,
           NEW h1, Spliced(h1, h, e, OnlyChild(h, e)), NEW g, Replaced(g, h1, d, e)
    PROVE  Cleared(g, h, L, d)
<1> DEFINE M == L \ {e}
           R == Shrunk(S, e)
           p == h1[d].parent
           lt == h1[d].left
           rt == h1[d].right
<1>1. TreeOf(h1, M, R)
  BY SplicedTree
<1>2. d \in M
  OBVIOUS
<1>3. /\ p \in M \cup {Root} /\ p # d /\ d \in Address
      /\ lt \in M \cup {Null} /\ rt \in M \cup {Null} /\ lt # d /\ rt # d
  <2> HIDE DEF M, R
  <2>1. QED
    BY <1>1, <1>2, Parent, Side, Subtrees
<1>4. Null \notin Address
  BY CacheAssumption
<1>5. Cleared(h1, h, L, e)
  BY SplicedCleared
<1> HIDE DEF R, p, lt, rt
<1>6. /\ SameList(g, h1) /\ SameData(g, h1)
      /\ \A y \in Address :
             /\ g[y].left = IF y = e THEN lt ELSE IF y = p /\ h1[y].left = d THEN e ELSE h1[y].left
             /\ g[y].right = IF y = e THEN rt ELSE IF y = p /\ h1[y].right = d THEN e ELSE h1[y].right
             /\ g[y].parent = IF y = e THEN p ELSE IF y = lt \/ y = rt THEN e ELSE h1[y].parent
  BY DEF Replaced, p, lt, rt
<1>7. g[d].left = lt /\ g[d].right = rt
  BY <1>2, <1>3, <1>6 DEF lt, rt
<1>8. SameList(g, h) /\ SameData(g, h)
  BY <1>5, <1>6 DEF Cleared, SameList, SameData
<1>9. ASSUME NEW y \in Address \ (L \cup {Root})
      PROVE  g[y].left = h[y].left /\ g[y].right = h[y].right /\ g[y].parent = h[y].parent
  <2>1. y # e /\ y # p /\ y # lt /\ y # rt
    BY <1>3, <1>4
  <2>2. QED
    BY <1>5, <1>6, <2>1 DEF Cleared
<1>10. QED
  BY <1>3, <1>7, <1>8, <1>9 DEF Cleared

\* erase_from_tree_ leaves a search tree of the other nodes
LEMMA EraseTree ==
    ASSUME NEW h, NEW L, NEW S, TreeOf(h, L, S), Grounded(h, L), NEW d \in L,
           NEW g, g = EraseFromTree(h, d)
    PROVE  /\ \E R : TreeOf(g, L \ {d}, R)
           /\ Cleared(g, h, L, d)
<1>1. CASE h[d].left = Null \/ h[d].right = Null
  <2>1. g = IF h[d].left = Null /\ h[d].right = Null THEN EraseNoChild(h, d) ELSE EraseOneChild(h, d)
    BY <1>1 DEF EraseFromTree
  <2>2. Spliced(g, h, d, OnlyChild(h, d))
    BY <1>1, <2>1, SpliceFields
  <2>3. TreeOf(g, L \ {d}, Shrunk(S, d))
    BY <1>1, <2>2, SplicedTree
  <2>4. Cleared(g, h, L, d)
    BY <2>2, SplicedCleared
  <2>5. QED
    BY <2>3, <2>4
<1>2. CASE h[d].left # Null /\ h[d].right # Null
  <2>1. g = EraseTwoChild(h, d)
    BY <1>2 DEF EraseFromTree
  <2>2. PICK e \in L \ {d}, h1 \in Memory :
            /\ h[e].left = Null \/ h[e].right = Null
            /\ Spliced(h1, h, e, OnlyChild(h, e))
            /\ FitsAt(h1, L \ {e}, Shrunk(S, e), d, e)
            /\ Replaced(g, h1, d, e)
    BY <1>2, <2>1, EraseTwo
  <2> DEFINE M == L \ {e}
             R == Shrunk(S, e)
  <2>3. TreeOf(h1, M, R) /\ d \in M /\ e \in Node \ M
    BY <2>2, SplicedTree DEF TreeOf
  <2>4. TreeOf(g, (M \ {d}) \cup {e}, Exchanged(R, d, e))
    <3>1. FitsAt(h1, M, R, d, e)
      BY <2>2
    <3> HIDE DEF M, R
    <3>2. QED
      BY <2>2, <2>3, <3>1, ReplacedTree
  <2>5. (M \ {d}) \cup {e} = L \ {d}
    BY <2>2
  <2>6. Cleared(g, h, L, d)
    BY <2>2, ReplacedCleared
  <2> HIDE DEF M, R
  <2>7. QED
    BY <2>4, <2>5, <2>6
<1>3. QED
  BY <1>1, <1>2

\* A tree depends on its own nodes and the root only
LEMMA Elsewhere ==
    ASSUME NEW h, NEW L, NEW S, TreeOf(h, L, S), NEW g \in Memory,
           \A x \in L \cup {Root} : /\ g[x].key = h[x].key /\ g[x].left = h[x].left
                                    /\ g[x].right = h[x].right /\ g[x].parent = h[x].parent
    PROVE  TreeOf(g, L, S)
<1>1. \A n \in L \cup {Root} : \A x : Child(h, L, n, x) => Child(g, L, n, x)
  BY DEF Child
<1>2. \A n \in L : S[h[n].left] \subseteq L /\ S[h[n].right] \subseteq L
  BY Subtrees
<1>3. \A n \in L : /\ S[n] = {n} \cup S[g[n].left] \cup S[g[n].right]
                   /\ \A x \in S[g[n].left] : g[x].key < g[n].key
                   /\ \A x \in S[g[n].right] : g[n].key < g[x].key
  <2> SUFFICES ASSUME NEW n \in L
               PROVE  /\ S[n] = {n} \cup S[g[n].left] \cup S[g[n].right]
                      /\ \A x \in S[g[n].left] : g[x].key < g[n].key
                      /\ \A x \in S[g[n].right] : g[n].key < g[x].key
    OBVIOUS
  <2>1. /\ S[n] = {n} \cup S[h[n].left] \cup S[h[n].right]
        /\ \A x \in S[h[n].left] : h[x].key < h[n].key
        /\ \A x \in S[h[n].right] : h[n].key < h[x].key
    BY DEF TreeOf, Tree
  <2>2. g[n].left = h[n].left /\ g[n].right = h[n].right /\ g[n].key = h[n].key
    OBVIOUS
  <2>3. QED
    BY <1>2, <2>1, <2>2
<1>4. \A n \in L \cup {Root} : Child(g, L, n, g[n].left) /\ Child(g, L, n, g[n].right)
  BY <1>1 DEF TreeOf, Tree
<1>5. QED
  BY <1>3, <1>4 DEF TreeOf, Tree

\* Assignments to next and prev leave the tree alone
LEMMA SameTrees ==
    ASSUME NEW h, NEW L, NEW S, TreeOf(h, L, S), NEW g \in Memory, SameTree(g, h)
    PROVE  /\ TreeOf(g, L, S)
           /\ Idle(h, L) => Idle(g, L)
           /\ Grounded(h, L) => Grounded(g, L)
<1>1. L \cup {Root} \subseteq Address
  BY DEF TreeOf, Address
<1>2. TreeOf(g, L, S)
  BY <1>1, Elsewhere DEF SameTree
<1>3. QED
  BY <1>2 DEF SameTree, Idle, Grounded

\* After an erasure d, too, leads only into the tree
LEMMA EraseIdle ==
    ASSUME NEW h, NEW L, Idle(h, L), NEW d \in L, NEW g, NEW R, TreeOf(g, L \ {d}, R),
           Root \notin L, Cleared(g, h, L, d)
    PROVE  Idle(g, L) /\ Grounded(g, L \ {d})
<1> DEFINE M == L \ {d}
<1>1. g[Root].right = Null /\ g[Root].parent = Null /\ g[Root].left \in M \cup {Null}
  BY DEF TreeOf, Tree, Child
<1>2. Idle(g, L)
  BY <1>1 DEF Idle, Cleared
<1>3. \A x \in M : g[x].left \in M \cup {Null} /\ g[x].right \in M \cup {Null}
  <2> HIDE DEF M
  <2>1. TreeOf(g, M, R)
    BY DEF M
  <2>2. QED
    BY <2>1, Subtrees
<1>4. QED
  BY <1>1, <1>2, <1>3 DEF Idle, Grounded, Cleared

\* After an insertion only n and the nodes of the tree lead anywhere
LEMMA InsertIdle ==
    ASSUME NEW h, NEW L, NEW n \in Node, Idle(h, L \cup {n}), Root \notin L,
           NEW k, NEW v, NEW p \in L \cup {Root}, NEW g, Inserted(g, h, n, k, v, p)
    PROVE  Idle(g, L \cup {n})
<1>1. Root \in Address /\ n # Root
  BY CacheAssumption DEF Address
<1>2. ASSUME NEW x \in Address \ (L \cup {n})
      PROVE  g[x].right = Null /\ g[x].parent = Null /\ (x # Root => g[x].left = Null)
  <2>1. h[x].right = Null /\ h[x].parent = Null /\ (x # Root => h[x].left = Null)
    BY DEF Idle
  <2>2. x = p => x = Root
    OBVIOUS
  <2>3. QED
    BY <2>1, <2>2 DEF Inserted
<1>3. QED
  BY <1>2 DEF Idle

-----------------------------------------------------------------------------
(* The list.                                                               *)

After(i, k)  == IF i = k THEN 1 ELSE i + 1
Before(i, k) == IF i = 1 THEN k ELSE i - 1

\* q lists the nodes of L, k of them, from head on, each next to the one before it
Ring(h, head, L, q, k) ==
    /\ q \in [1..k -> L] /\ \A x \in L : \E i \in 1..k : x = q[i]
    /\ \A i, j \in 1..k : q[i] = q[j] => i = j
    /\ head = IF k = 0 THEN Null ELSE q[1]
    /\ \A i \in 1..k : h[q[i]].next = q[After(i, k)] /\ h[q[i]].prev = q[Before(i, k)]

\* What list_cut_ and list_insert_ do to the fields
WroteCut(g, h, n) ==
    /\ g \in Memory /\ SameTree(g, h)
    /\ \A y \in Address :
           /\ g[y].next = IF y = h[n].prev THEN h[n].next ELSE h[y].next
           /\ g[y].prev = IF y = h[n].next THEN h[n].prev ELSE h[y].prev
WroteFront(g, h, n, b) ==
    /\ g \in Memory /\ SameTree(g, h)
    /\ \A y \in Address :
           /\ g[y].next = IF y = h[b].prev THEN n ELSE IF y = n THEN b ELSE h[y].next
           /\ g[y].prev = IF y = b THEN n ELSE IF y = n THEN h[b].prev ELSE h[y].prev
WroteAlone(g, h, n) ==
    /\ g \in Memory /\ SameTree(g, h)
    /\ \A y \in Address : /\ g[y].next = IF y = n THEN n ELSE h[y].next
                          /\ g[y].prev = IF y = n THEN n ELSE h[y].prev

\* list_cut_
LEMMA CutFields ==
    ASSUME NEW x, x.node \in Memory, NEW n \in Address,
           x.node[n].next \in Address, x.node[n].prev \in Address
    PROVE  /\ WroteCut(ListCut(x, n).node, x.node, n)
           /\ ListCut(x, n).head = IF x.head = n THEN x.node[n].next ELSE x.head
<1> DEFINE m == x.node
           a == m[n].prev
           b == m[n].next
           h == [m EXCEPT ![a].next = b]
           g == [h EXCEPT ![h[n].next].prev = h[n].prev]
<1>1. ListCut(x, n) = [node |-> g, head |-> IF x.head = n THEN b ELSE x.head]
  BY DEF ListCut
<1>2. m \in Memory /\ a \in Address /\ b \in Address /\ a \in Pointer /\ b \in Pointer
  BY DEF Pointer
<1>3. WroteNext(h, m, a, b)
  <2> HIDE DEF m, a, b
  <2>1. QED
    BY <1>2, SetNext
<1> HIDE DEF h
<1>4. h[n].next = b /\ h[n].prev = a /\ h \in Memory
  BY <1>3 DEF WroteNext
<1>5. g = [h EXCEPT ![b].prev = a]
  BY <1>4
<1> HIDE DEF g
<1>6. WrotePrev(g, h, b, a)
  <2> HIDE DEF m, a, b
  <2>1. QED
    BY <1>2, <1>4, <1>5, SetPrev
<1>7. WroteCut(g, m, n)
  BY <1>3, <1>6 DEF WroteNext, WrotePrev, SameTree, WroteCut
<1>8. QED
  BY <1>1, <1>7

\* list_insert_
LEMMA ListInsertFields ==
    ASSUME NEW x, x.node \in Memory, NEW n \in Address,
           x.head # Null => x.head \in Address /\ x.node[x.head].prev \in Address
    PROVE  /\ x.head # Null => WroteFront(ListInsert(x, n).node, x.node, n, x.head)
           /\ x.head = Null => WroteAlone(ListInsert(x, n).node, x.node, n)
           /\ ListInsert(x, n).head = n
<1> DEFINE m == x.node
<1>1. n \in Pointer
  BY DEF Pointer
<1>2. CASE x.head = Null
  <2> DEFINE r == [m[n] EXCEPT !.next = n, !.prev = n]
             g == [m EXCEPT ![n].next = n, ![n].prev = n]
  <2>1. ListInsert(x, n) = [node |-> g, head |-> n]
    BY <1>2 DEF ListInsert
  <2>2. g = [[m EXCEPT ![n].next = n] EXCEPT ![n].prev = n]
    OBVIOUS
  <2> DEFINE h == [m EXCEPT ![n].next = n]
  <2>3. WroteNext(h, m, n, n)
    <3> HIDE DEF m
    <3>1. m \in Memory
      BY DEF m
    <3>2. QED
      BY <1>1, <3>1, SetNext
  <2>4. g = [h EXCEPT ![n].prev = n]
    BY <2>2
  <2> HIDE DEF g, h
  <2>5. h \in Memory
    BY <2>3 DEF WroteNext
  <2>6. WrotePrev(g, h, n, n)
    BY <1>1, <2>4, <2>5, SetPrev
  <2>7. WroteAlone(g, m, n)
    BY <2>3, <2>6 DEF WroteNext, WrotePrev, SameTree, WroteAlone
  <2>8. QED
    BY <1>2, <2>1, <2>7
<1>3. CASE x.head # Null
  <2> DEFINE b == x.head
             a == m[b].prev
             h0 == [m EXCEPT ![n].prev = a]
             h1 == [m EXCEPT ![n].prev = a, ![n].next = b]
             h2 == [h1 EXCEPT ![h1[b].prev].next = n]
             g == [h2 EXCEPT ![b].prev = n]
  <2>1. ListInsert(x, n) = [node |-> g, head |-> n]
    BY <1>3 DEF ListInsert
  <2>2. m \in Memory /\ a \in Address /\ b \in Address /\ a \in Pointer /\ b \in Pointer
    BY <1>3 DEF Pointer
  <2>3. h1 = [h0 EXCEPT ![n].next = b]
    OBVIOUS
  <2> HIDE DEF m, a, b
  <2>4. WrotePrev(h0, m, n, a)
    BY <2>2, SetPrev
  <2> HIDE DEF h0, h1
  <2>5. h0 \in Memory
    BY <2>4 DEF WrotePrev
  <2>6. WroteNext(h1, h0, n, b)
    BY <2>2, <2>3, <2>5, SetNext
  <2>7. h1 \in Memory /\ h1[b].prev = a
    BY <2>2, <2>4, <2>6 DEF WroteNext, WrotePrev, a
  <2>8. h2 = [h1 EXCEPT ![a].next = n]
    BY <2>7
  <2> HIDE DEF h2, g
  <2>9. WroteNext(h2, h1, a, n)
    BY <1>1, <2>2, <2>7, <2>8, SetNext
  <2>10. h2 \in Memory
    BY <2>9 DEF WroteNext
  <2>11. WrotePrev(g, h2, b, n)
    <3>1. g = [h2 EXCEPT ![b].prev = n]
      BY DEF g
    <3>2. QED
      BY <1>1, <2>2, <2>10, <3>1, SetPrev
  <2>12. WroteFront(g, m, n, b)
    BY <2>4, <2>6, <2>9, <2>11 DEF WroteNext, WrotePrev, SameTree, WroteFront, a
  <2>13. QED
    BY <1>3, <2>1, <2>12 DEF m, b
<1>4. QED
  BY <1>2, <1>3

\* The neighbours in a ring are in it
LEMMA RingNeighbours ==
    ASSUME NEW h, NEW head, NEW L, NEW q, NEW k \in Nat, Ring(h, head, L, q, k)
    PROVE  /\ \A n \in L : h[n].next \in L /\ h[n].prev \in L
           /\ k > 0 => head \in L
           /\ k = 0 => head = Null /\ L = {}
<1>1. \A i \in 1..k : After(i, k) \in 1..k /\ Before(i, k) \in 1..k
  BY DEF After, Before
<1>2. \A n \in L : h[n].next \in L /\ h[n].prev \in L
  <2> SUFFICES ASSUME NEW n \in L PROVE h[n].next \in L /\ h[n].prev \in L
    OBVIOUS
  <2>1. PICK i \in 1..k : n = q[i]
    BY DEF Ring
  <2>2. h[n].next = q[After(i, k)] /\ h[n].prev = q[Before(i, k)] /\ q \in [1..k -> L]
    BY <2>1 DEF Ring
  <2>3. QED
    BY <1>1, <2>2
<1>3. k > 0 => 1 \in 1..k
  OBVIOUS
<1>4. k > 0 => head \in L
  BY <1>3 DEF Ring
<1>5. k = 0 => head = Null /\ L = {}
  BY DEF Ring
<1>6. QED
  BY <1>2, <1>4, <1>5

\* A ring depends on the links of its own nodes only
LEMMA RingSame ==
    ASSUME NEW h, NEW head, NEW L, NEW q, NEW k \in Nat, Ring(h, head, L, q, k),
           NEW g, \A y \in L : g[y].next = h[y].next /\ g[y].prev = h[y].prev
    PROVE  Ring(g, head, L, q, k)
BY DEF Ring

\* The list without its j-th node, and with n in front
Dropped(q, j, k) == [i \in 1..(k - 1) |-> IF i < j THEN q[i] ELSE q[i + 1]]
Pushed(q, n, k)  == [i \in 1..(k + 1) |-> IF i = 1 THEN n ELSE q[i - 1]]

\* A cut leaves a ring of the others
LEMMA RingCut ==
    ASSUME NEW h, NEW head, NEW L, L \subseteq Address, NEW q, NEW k \in Nat, k > 1,
           Ring(h, head, L, q, k), NEW j \in 1..k, NEW g, WroteCut(g, h, q[j])
    PROVE  Ring(g, IF head = q[j] THEN h[q[j]].next ELSE head, L \ {q[j]}, Dropped(q, j, k), k - 1)
<1> DEFINE n == q[j]
           M == L \ {n}
           r == Dropped(q, j, k)
           At(i) == IF i < j THEN i ELSE i + 1
           top == IF head = n THEN h[n].next ELSE head
<1>1. /\ q \in [1..k -> L] /\ \A x \in L : \E i \in 1..k : x = q[i]
      /\ \A i1, i2 \in 1..k : q[i1] = q[i2] => i1 = i2
      /\ head = q[1]
      /\ \A i \in 1..k : h[q[i]].next = q[After(i, k)] /\ h[q[i]].prev = q[Before(i, k)]
  BY DEF Ring
<1>2. k - 1 \in Nat /\ k - 1 > 0
  OBVIOUS
<1>3. \A i \in 1..(k - 1) : At(i) \in 1..k /\ At(i) # j /\ r[i] = q[At(i)]
  BY DEF Dropped
<1>4. \A i1, i2 \in 1..(k - 1) : At(i1) = At(i2) => i1 = i2
  OBVIOUS
<1>5. \A i \in 1..k : i # j => \E i0 \in 1..(k - 1) : At(i0) = i
  <2> SUFFICES ASSUME NEW i \in 1..k, i # j PROVE \E i0 \in 1..(k - 1) : At(i0) = i
    OBVIOUS
  <2>1. CASE i < j
    <3>1. i \in 1..(k - 1) /\ At(i) = i
      BY <2>1
    <3>2. QED
      BY <3>1
  <2>2. CASE i > j
    <3>1. i - 1 \in 1..(k - 1) /\ At(i - 1) = i
      BY <2>2
    <3>2. QED
      BY <3>1
  <2>3. QED
    BY <2>1, <2>2
<1>6. \A i \in 1..(k - 1) :
          /\ At(After(i, k - 1)) = IF At(i) = Before(j, k) THEN After(j, k) ELSE After(At(i), k)
          /\ At(Before(i, k - 1)) = IF At(i) = After(j, k) THEN Before(j, k) ELSE Before(At(i), k)
          /\ After(i, k - 1) \in 1..(k - 1) /\ Before(i, k - 1) \in 1..(k - 1)
  BY DEF After, Before
<1>7. Before(j, k) \in 1..k /\ After(j, k) \in 1..k
  BY DEF Before, After
<1>8. r \in [1..(k - 1) -> M]
  <2>1. \A i \in 1..(k - 1) : r[i] \in M
    BY <1>1, <1>3
  <2>2. r = [i \in 1..(k - 1) |-> r[i]]
    BY DEF Dropped
  <2> HIDE DEF r
  <2>3. QED
    BY <2>1, <2>2
<1> HIDE DEF r
<1>9. \A x \in M : \E i \in 1..(k - 1) : x = r[i]
  <2> SUFFICES ASSUME NEW x \in M PROVE \E i \in 1..(k - 1) : x = r[i]
    OBVIOUS
  <2>1. PICK i \in 1..k : x = q[i]
    BY <1>1
  <2>2. i # j
    BY <2>1
  <2>3. QED
    BY <1>3, <1>5, <2>1, <2>2
<1>10. \A i1, i2 \in 1..(k - 1) : r[i1] = r[i2] => i1 = i2
  <2> HIDE DEF At
  <2>1. QED
    BY <1>1, <1>3, <1>4
<1>11. top = r[1]
  <2>1. r[1] = IF 1 < j THEN q[1] ELSE q[2]
    BY <1>2 DEF Dropped, r
  <2>2. CASE j = 1
    <3>1. h[n].next = q[2]
      BY <1>1, <2>2 DEF After
    <3>2. QED
      BY <1>1, <2>1, <2>2, <3>1
  <2>3. CASE j # 1
    <3>1. head # n /\ 1 < j
      BY <1>1, <2>3
    <3>2. QED
      BY <1>1, <2>1, <3>1
  <2>4. QED
    BY <2>2, <2>3
<1>12. \A i \in 1..(k - 1) : g[r[i]].next = r[After(i, k - 1)] /\ g[r[i]].prev = r[Before(i, k - 1)]
  <2> SUFFICES ASSUME NEW i \in 1..(k - 1)
               PROVE  g[r[i]].next = r[After(i, k - 1)] /\ g[r[i]].prev = r[Before(i, k - 1)]
    OBVIOUS
  <2> DEFINE y == r[i]
             a == At(i)
  <2>1. y = q[a] /\ a \in 1..k /\ y \in Address
    BY <1>1, <1>3
  <2>2. /\ r[After(i, k - 1)] = q[At(After(i, k - 1))]
        /\ r[Before(i, k - 1)] = q[At(Before(i, k - 1))]
    BY <1>3, <1>6
  <2>3. /\ At(After(i, k - 1)) = IF a = Before(j, k) THEN After(j, k) ELSE After(a, k)
        /\ At(Before(i, k - 1)) = IF a = After(j, k) THEN Before(j, k) ELSE Before(a, k)
    BY <1>6
  <2> HIDE DEF a, y, At
  <2>4. /\ h[n].prev = q[Before(j, k)] /\ h[n].next = q[After(j, k)]
        /\ h[y].next = q[After(a, k)] /\ h[y].prev = q[Before(a, k)]
    BY <1>1, <2>1
  <2>5. /\ (y = h[n].prev) <=> (a = Before(j, k))
        /\ (y = h[n].next) <=> (a = After(j, k))
    BY <1>1, <1>7, <2>1, <2>4
  <2>6. /\ g[y].next = IF y = h[n].prev THEN h[n].next ELSE h[y].next
        /\ g[y].prev = IF y = h[n].next THEN h[n].prev ELSE h[y].prev
    BY <2>1 DEF WroteCut
  <2>7. g[y].next = r[After(i, k - 1)] /\ g[y].prev = r[Before(i, k - 1)]
    BY <2>2, <2>3, <2>4, <2>5, <2>6
  <2>8. QED
    BY <2>7 DEF y
<1>13. k - 1 # 0
  BY <1>2
<1> HIDE DEF M, top
<1>14. Ring(g, top, M, r, k - 1)
  BY <1>8, <1>9, <1>10, <1>11, <1>12, <1>13 DEF Ring
<1>15. QED
  BY <1>14 DEF top, M, r

\* An insertion puts the node in front
LEMMA RingFront ==
    ASSUME NEW h, NEW b, NEW L, L \subseteq Address, NEW q, NEW k \in Nat, k > 0,
           Ring(h, b, L, q, k), NEW n \in Address \ L, NEW g, WroteFront(g, h, n, b)
    PROVE  Ring(g, n, L \cup {n}, Pushed(q, n, k), k + 1)
<1> DEFINE M == L \cup {n}
           r == Pushed(q, n, k)
<1>1. /\ q \in [1..k -> L] /\ \A x \in L : \E i \in 1..k : x = q[i]
      /\ \A i, j \in 1..k : q[i] = q[j] => i = j
      /\ b = q[1]
      /\ \A i \in 1..k : h[q[i]].next = q[After(i, k)] /\ h[q[i]].prev = q[Before(i, k)]
  BY DEF Ring
<1>2. \A i \in 1..(k + 1) : r[i] = IF i = 1 THEN n ELSE q[i - 1]
  BY DEF Pushed
<1>3. r \in [1..(k + 1) -> M]
  <2>1. \A i \in 1..(k + 1) : r[i] \in M
    BY <1>1, <1>2
  <2>2. r = [i \in 1..(k + 1) |-> r[i]]
    BY DEF Pushed
  <2> HIDE DEF r
  <2>3. QED
    BY <2>1, <2>2
<1> HIDE DEF r
<1>4. \A i \in 1..k : i + 1 \in 1..(k + 1) /\ r[i + 1] = q[i]
  BY <1>2
<1>5. \A x \in M : \E i \in 1..(k + 1) : x = r[i]
  <2>1. 1 \in 1..(k + 1) /\ r[1] = n
    BY <1>2
  <2>2. QED
    BY <1>1, <1>4, <2>1
<1>6. \A i, j \in 1..(k + 1) : r[i] = r[j] => i = j
  <2> SUFFICES ASSUME NEW i \in 1..(k + 1), NEW j \in 1..(k + 1), r[i] = r[j] PROVE i = j
    OBVIOUS
  <2>1. \A a \in 2..(k + 1) : r[a] = q[a - 1] /\ a - 1 \in 1..k /\ r[a] # n
    BY <1>1, <1>2
  <2>2. r[1] = n /\ (i = 1 \/ i \in 2..(k + 1)) /\ (j = 1 \/ j \in 2..(k + 1))
    BY <1>2
  <2>3. QED
    BY <1>1, <2>1, <2>2
<1>7. h[b].prev = q[k] /\ h[q[k]].next = b /\ b \in L /\ q[k] \in L
  BY <1>1 DEF After, Before
<1>8. \A y \in Address :
          /\ g[y].next = IF y = q[k] THEN n ELSE IF y = n THEN b ELSE h[y].next
          /\ g[y].prev = IF y = b THEN n ELSE IF y = n THEN q[k] ELSE h[y].prev
  BY <1>7 DEF WroteFront
<1>9. ASSUME NEW i \in 1..(k + 1)
      PROVE  g[r[i]].next = r[After(i, k + 1)] /\ g[r[i]].prev = r[Before(i, k + 1)]
  <2>1. CASE i = 1
    <3>1. After(1, k + 1) = 2 /\ Before(1, k + 1) = k + 1
      BY DEF After, Before
    <3>2. r[1] = n /\ r[2] = b /\ r[k + 1] = q[k]
      BY <1>1, <1>2
    <3>3. g[n].next = b /\ g[n].prev = q[k]
      BY <1>7, <1>8
    <3>4. QED
      BY <2>1, <3>1, <3>2, <3>3
  <2>2. CASE i # 1
    <3> DEFINE a == i - 1
               y == q[a]
    <3>1. a \in 1..k /\ r[i] = y /\ y \in L /\ y \in Address /\ y # n /\ i = a + 1
      BY <1>1, <1>2, <2>2
    <3>2. /\ After(i, k + 1) = IF a = k THEN 1 ELSE After(a, k) + 1
          /\ Before(i, k + 1) = IF a = 1 THEN 1 ELSE Before(a, k) + 1
          /\ After(a, k) \in 1..k /\ Before(a, k) \in 1..k
      BY <3>1 DEF After, Before
    <3> HIDE DEF a
    <3>3. /\ r[After(i, k + 1)] = IF a = k THEN n ELSE q[After(a, k)]
          /\ r[Before(i, k + 1)] = IF a = 1 THEN n ELSE q[Before(a, k)]
      BY <1>2, <1>4, <3>2
    <3>4. (y = q[k] <=> a = k) /\ (y = b <=> a = 1)
      BY <1>1, <3>1
    <3>5. h[y].next = q[After(a, k)] /\ h[y].prev = q[Before(a, k)]
      BY <1>1, <3>1
    <3>6. QED
      BY <1>8, <3>1, <3>3, <3>4, <3>5
  <2>3. QED
    BY <2>1, <2>2
<1>10. n = r[1] /\ k + 1 # 0
  BY <1>2
<1> HIDE DEF M
<1>11. Ring(g, n, M, r, k + 1)
  BY <1>3, <1>5, <1>6, <1>9, <1>10 DEF Ring
<1>12. QED
  BY <1>11 DEF M, r

\* The first node is alone
LEMMA RingFirst ==
    ASSUME NEW h, NEW n \in Address, NEW g, WroteAlone(g, h, n)
    PROVE  Ring(g, n, {n}, [i \in 1..1 |-> n], 1)
<1>1. g[n].next = n /\ g[n].prev = n
  BY DEF WroteAlone
<1>2. 1..1 = {1}
  OBVIOUS
<1>3. QED
  BY <1>1, <1>2 DEF Ring, After, Before

\* Cutting the only node and putting it in front changes nothing
LEMMA RingSingle ==
    ASSUME NEW h, NEW n \in Address, NEW q, Ring(h, n, {n}, q, 1),
           NEW g, WroteCut(g, h, n) \/ WroteFront(g, h, n, n)
    PROVE  Ring(g, n, {n}, q, 1)
<1>1. h[n].next = n /\ h[n].prev = n
  BY RingNeighbours
<1>2. g[n].next = n /\ g[n].prev = n
  BY <1>1 DEF WroteCut, WroteFront
<1>3. \A y \in {n} : g[y].next = h[y].next /\ g[y].prev = h[y].prev
  BY <1>1, <1>2
<1>4. QED
  BY <1>3, RingSame

-----------------------------------------------------------------------------
(* The inductive invariant.                                                *)

Cache == [node : Memory, head : Pointer]

\* The cache x has the nodes L, in a search tree with the subtrees S and in a ring q
Sound(x, L, S, q, k) ==
    /\ x \in Cache
    /\ TreeOf(x.node, L, S) /\ Idle(x.node, L)
    /\ \A n \in L : x.node[n].key \in Key /\ x.node[n].value \in Value
    /\ Ring(x.node, x.head, L, q, k)
    /\ k = Cardinality(L) /\ k \in 0..Capacity

IInv == \E S, q : Sound(c, live, S, q, size)

\* The fields of a cache
LEMMA CacheIs ==
    ASSUME NEW x, x = [node |-> x.node, head |-> x.head], x.node \in Memory, x.head \in Pointer
    PROVE  x \in Cache
BY DEF Cache

\* What Found says is true, and FindByKey returns the node with the key
LEMMA FoundIs ==
    ASSUME NEW h, NEW L, NEW S, TreeOf(h, L, S), Grounded(h, L), NEW k \in Nat
    PROVE  /\ Found(h, FindByKey(h, k), k) => FindByKey(h, k) \in L
           /\ Found(h, FindByKey(h, k), k) <=> \E n \in L : h[n].key = k
<1> DEFINE p == FindByKey(h, k)
<1>1. \/ p \in L /\ h[p].key = k
      \/ OpenAt(h, L, S, p, k) /\ \A n \in L : h[n].key # k
  BY Search
<1>2. Root \notin L
  BY CacheAssumption DEF TreeOf, Address
<1> HIDE DEF p
<1>3. /\ Found(h, p, k) => p \in L
      /\ Found(h, p, k) <=> \E n \in L : h[n].key = k
  BY <1>1, <1>2 DEF Found, OpenAt
<1>4. QED
  BY <1>3 DEF p

\* The order of use with the j-th node in front
Moved(q, j, k) == Pushed(Dropped(q, j, k), q[j], k - 1)

\* A hit moves the node to the front and leaves everything else
LEMMA ToHead ==
    ASSUME NEW x, NEW L, NEW S, NEW q, NEW k \in Nat, Sound(x, L, S, q, k), NEW j \in 1..k
    PROVE  /\ Sound(ListToHead(x, q[j]), L, S, Moved(q, j, k), k)
           /\ SameData(ListToHead(x, q[j]).node, x.node)
<1> DEFINE n == q[j]
           y == ListCut(x, n)
           z == ListInsert(y, n)
<1>1. /\ x.node \in Memory /\ x.head \in Pointer
      /\ TreeOf(x.node, L, S) /\ Idle(x.node, L)
      /\ Ring(x.node, x.head, L, q, k)
      /\ L \subseteq Address /\ Null \notin Address
  BY CacheAssumption DEF Sound, Cache, TreeOf, Address
<1>2. /\ n \in L /\ n \in Address /\ n # Null
      /\ x.node[n].next \in L /\ x.node[n].prev \in L
      /\ x.head \in L /\ k > 0
  <2>1. n \in L
    BY <1>1 DEF Ring
  <2>2. QED
    BY <1>1, <2>1, RingNeighbours
<1>3. z = ListToHead(x, q[j])
  BY DEF ListToHead
<1> HIDE DEF n, z, y
<1>4. /\ WroteCut(y.node, x.node, n)
      /\ y.head = IF x.head = n THEN x.node[n].next ELSE x.head
  <2>1. x.node[n].next \in Address /\ x.node[n].prev \in Address
    BY <1>1, <1>2
  <2>2. QED
    BY <1>1, <1>2, <2>1, CutFields DEF y
<1>5. y.node \in Memory /\ y.head \in L /\ y.head # Null /\ y.head \in Address
  BY <1>1, <1>2, <1>4 DEF WroteCut
<1>6. y.node[y.head].prev \in Address
  <2>1. x.node[y.head].prev \in L
    BY <1>1, <1>5, RingNeighbours
  <2>2. QED
    BY <1>1, <1>2, <1>4, <1>5, <2>1 DEF WroteCut
<1>7. WroteFront(z.node, y.node, n, y.head) /\ z.head = n
  BY <1>2, <1>5, <1>6, ListInsertFields DEF z
<1>8. Ring(z.node, n, L, Moved(q, j, k), k)
  <2>1. CASE k > 1
    <3> DEFINE M == L \ {n}
               r == Dropped(q, j, k)
               m == k - 1
    <3>1. Ring(y.node, y.head, M, r, m)
      <4>1. Ring(y.node, IF x.head = q[j] THEN x.node[q[j]].next ELSE x.head, L \ {q[j]}, r, m)
        BY <1>1, <1>4, <2>1, RingCut DEF n
      <4>2. QED
        BY <1>4, <4>1 DEF n
    <3>2. M \subseteq Address /\ m \in Nat /\ m > 0 /\ n \in Address \ M
      BY <1>1, <1>2, <2>1
    <3> HIDE DEF M, r, m
    <3>3. Ring(z.node, n, M \cup {n}, Pushed(r, n, m), m + 1)
      BY <1>7, <3>1, <3>2, RingFront
    <3>4. M \cup {n} = L /\ m + 1 = k /\ Pushed(r, n, m) = Moved(q, j, k)
      BY <1>2 DEF M, m, r, n, Moved
    <3>5. QED
      BY <3>3, <3>4
  <2>2. CASE k = 1
    <3>1. j = 1 /\ q \in [1..1 -> L] /\ \A a \in L : \E i \in 1..1 : a = q[i]
      BY <1>1, <2>2 DEF Ring
    <3>2. L = {n} /\ x.head = n
      BY <1>2, <3>1 DEF n
    <3>3. y.head = n
      BY <1>5, <3>2
    <3>4. Ring(x.node, n, {n}, q, 1)
      BY <1>1, <2>2, <3>2
    <3>5. Ring(y.node, n, {n}, q, 1)
      BY <1>2, <1>4, <3>4, RingSingle
    <3>6. Ring(z.node, n, {n}, q, 1)
      BY <1>2, <1>7, <3>3, <3>5, RingSingle
    <3>7. Moved(q, j, k) = q
      <4>1. k - 1 + 1 = 1 /\ \A i \in 1..1 : i = 1
        BY <2>2
      <4>2. Moved(q, j, k) = [i \in 1..1 |-> n]
        BY <4>1 DEF Moved, Pushed, n
      <4>3. \A i \in 1..1 : q[i] = n
        BY <3>1 DEF n
      <4>4. QED
        BY <3>1, <4>2, <4>3
    <3>8. QED
      BY <2>2, <3>2, <3>6, <3>7
  <2>3. QED
    BY <2>1, <2>2
<1>9. z.node \in Memory /\ SameTree(z.node, x.node)
  BY <1>4, <1>7 DEF WroteCut, WroteFront, SameTree
<1>10. TreeOf(z.node, L, S) /\ Idle(z.node, L)
  BY <1>1, <1>9, SameTrees
<1>11. SameData(z.node, x.node)
  BY <1>9 DEF SameTree, SameData
<1>12. z \in Cache
  <2>1. z = [node |-> z.node, head |-> z.head]
    BY Zenon DEF z, ListInsert
  <2>2. n \in Pointer
    BY <1>2 DEF Pointer
  <2>3. QED
    BY <1>7, <1>9, <2>1, <2>2, CacheIs, Zenon
<1>13. \A a \in L : z.node[a].key \in Key /\ z.node[a].value \in Value
  BY <1>1, <1>11 DEF Sound, SameData
<1>14. k = Cardinality(L) /\ k \in 0..Capacity
  BY DEF Sound
<1>15. Sound(z, L, S, Moved(q, j, k), k)
  BY <1>7, <1>8, <1>10, <1>12, <1>13, <1>14 DEF Sound
<1>16. QED
  BY <1>3, <1>11, <1>15

\* What a node and its data bring into the cache
DataSet(g, h, n, k, v) == \A y \in Address : /\ g[y].key = IF y = n THEN k ELSE h[y].key
                                             /\ g[y].value = IF y = n THEN v ELSE h[y].value

\* The tail of insert_, up to the list: the node enters the tree
LEMMA EnterTree ==
    ASSUME NEW h, NEW L, NEW S, TreeOf(h, L, S), Grounded(h, L), NEW n \in Node \ L,
           Idle(h, L \cup {n}), NEW k \in Nat, NEW v \in Value,
           \A z \in L : h[z].key # k,
           NEW g, g = InsertInTree(h, n, k, v, FindByKey(h, k))
    PROVE  /\ \E R : TreeOf(g, L \cup {n}, R)
           /\ Idle(g, L \cup {n}) /\ SameList(g, h) /\ DataSet(g, h, n, k, v)
<1> DEFINE p == FindByKey(h, k)
<1>1. OpenAt(h, L, S, p, k)
  <2>1. \/ p \in L /\ h[p].key = k
        \/ OpenAt(h, L, S, p, k) /\ \A z \in L : h[z].key # k
    BY Search
  <2>2. QED
    BY <2>1
<1>2. g = InsertInTree(h, n, k, v, p)
  OBVIOUS
<1> HIDE DEF p
<1>3. /\ p \in L \cup {Root} /\ p \in Address /\ p # n /\ h \in Memory /\ Root \notin L
  BY <1>1, CacheAssumption DEF OpenAt, TreeOf, Address
<1>4. Inserted(g, h, n, k, v, p)
  BY <1>2, <1>3, InsertFields
<1>5. TreeOf(g, L \cup {n}, Grown(S, n, p))
  BY <1>1, <1>4, InsertTree
<1>6. Idle(g, L \cup {n})
  BY <1>3, <1>4, InsertIdle
<1>7. SameList(g, h) /\ DataSet(g, h, n, k, v)
  BY <1>4 DEF Inserted, DataSet
<1>8. QED
  BY <1>5, <1>6, <1>7

\* The cache y is x without d, until d is used again or freed
Rest(y, x, L, d, q, j, k) ==
    /\ d \in L /\ y \in Cache
    /\ \E R : TreeOf(y.node, L \ {d}, R)
    /\ Idle(y.node, L) /\ Grounded(y.node, L \ {d})
    /\ SameData(y.node, x.node)
    /\ k > 1 => Ring(y.node, y.head, L \ {d}, Dropped(q, j, k), k - 1)
    /\ k = 1 => L = {d} /\ y.head = d /\ Ring(y.node, d, {d}, q, 1)

\* The erasure leaves that
LEMMA ErasedIs ==
    ASSUME NEW x, NEW L, NEW S, NEW q, NEW k \in Nat, Sound(x, L, S, q, k), NEW j \in 1..k,
           NEW d, d = q[j], NEW y, y = Erased(x, d)
    PROVE  Rest(y, x, L, d, q, j, k)
<1> DEFINE z == ListCut(x, d)
<1>1. /\ x.node \in Memory /\ x.head \in Pointer
      /\ TreeOf(x.node, L, S) /\ Idle(x.node, L)
      /\ Ring(x.node, x.head, L, q, k)
      /\ L \subseteq Address /\ Null \notin Address /\ Root \notin L
  BY CacheAssumption DEF Sound, Cache, TreeOf, Address
<1>2. /\ d \in L /\ d \in Address
      /\ x.node[d].next \in L /\ x.node[d].prev \in L
      /\ x.head \in L /\ k > 0
  <2>1. d \in L
    BY <1>1 DEF Ring
  <2>2. QED
    BY <1>1, <2>1, RingNeighbours
<1>3. y = [z EXCEPT !.node = EraseFromTree(z.node, d)]
  BY DEF Erased
<1>4. z = [node |-> z.node, head |-> z.head]
  BY DEF ListCut
<1> HIDE DEF z
<1>5. /\ WroteCut(z.node, x.node, d)
      /\ z.head = IF x.head = d THEN x.node[d].next ELSE x.head
  <2>1. x.node[d].next \in Address /\ x.node[d].prev \in Address
    BY <1>1, <1>2
  <2>2. QED
    BY <1>1, <1>2, <2>1, CutFields DEF z
<1>6. z.node \in Memory /\ SameTree(z.node, x.node) /\ z.head \in L /\ z.head \in Pointer
  BY <1>1, <1>2, <1>5 DEF WroteCut, Pointer
<1>7. TreeOf(z.node, L, S) /\ Idle(z.node, L)
  BY <1>1, <1>6, SameTrees
<1>8. Grounded(z.node, L)
  BY <1>7, IdleGrounded
<1>9. y = [node |-> EraseFromTree(z.node, d), head |-> z.head]
  BY <1>3, <1>4
<1>10. y.node = EraseFromTree(z.node, d) /\ y.head = z.head /\ y = [node |-> y.node, head |-> y.head]
  BY <1>9
<1>11. (\E R : TreeOf(y.node, L \ {d}, R)) /\ Cleared(y.node, z.node, L, d)
  BY <1>2, <1>7, <1>8, <1>10, EraseTree
<1>12. PICK R : TreeOf(y.node, L \ {d}, R)
  BY <1>11
<1>13. Idle(y.node, L) /\ Grounded(y.node, L \ {d})
  BY <1>1, <1>2, <1>7, <1>11, <1>12, EraseIdle
<1>14. y \in Cache
  <2>1. y.node \in Memory
    BY <1>12 DEF TreeOf
  <2>2. QED
    BY <1>6, <1>10, <2>1 DEF Cache
<1>15. SameData(y.node, x.node) /\ SameList(y.node, z.node)
  BY <1>6, <1>11 DEF Cleared, SameData, SameTree
<1>16. ASSUME NEW head, NEW M, M \subseteq L, NEW r, NEW m \in Nat, Ring(z.node, head, M, r, m)
       PROVE  Ring(y.node, head, M, r, m)
  <2>1. \A a \in M : y.node[a].next = z.node[a].next /\ y.node[a].prev = z.node[a].prev
    BY <1>1, <1>15, <1>16 DEF SameList
  <2>2. QED
    BY <1>16, <2>1, RingSame
<1>17. ASSUME k > 1
       PROVE  Ring(y.node, y.head, L \ {d}, Dropped(q, j, k), k - 1)
  <2>1. Ring(z.node, IF x.head = q[j] THEN x.node[q[j]].next ELSE x.head, L \ {q[j]},
             Dropped(q, j, k), k - 1)
    BY <1>1, <1>5, <1>17, RingCut
  <2>2. Ring(z.node, z.head, L \ {d}, Dropped(q, j, k), k - 1)
    BY <1>5, <2>1
  <2>3. k - 1 \in Nat /\ L \ {d} \subseteq L
    BY <1>17
  <2>4. QED
    BY <1>10, <1>16, <2>2, <2>3
<1>18. ASSUME k = 1
       PROVE  L = {d} /\ y.head = d /\ Ring(y.node, d, {d}, q, 1)
  <2>1. j = 1 /\ q \in [1..1 -> L] /\ \A a \in L : \E i \in 1..1 : a = q[i]
    BY <1>1, <1>18 DEF Ring
  <2>2. L = {d} /\ z.head = d /\ x.head = d
    BY <1>2, <1>6, <2>1
  <2>3. Ring(x.node, d, {d}, q, 1)
    BY <1>1, <1>18, <2>2
  <2>4. Ring(z.node, d, {d}, q, 1)
    BY <1>2, <1>5, <2>3, RingSingle
  <2>5. QED
    BY <1>10, <1>16, <2>2, <2>4
<1>19. QED
  BY <1>2, <1>11, <1>13, <1>14, <1>15, <1>17, <1>18 DEF Rest

\* The tail of insert_: the node enters the tree and the front of the list, or of the
\* list it was alone in
LEMMA EnterSound ==
    ASSUME NEW x \in Cache, NEW L, NEW S, TreeOf(x.node, L, S), Grounded(x.node, L),
           NEW n \in Node \ L, Idle(x.node, L \cup {n}), NEW k \in Key, NEW v \in Value,
           \A z \in L : x.node[z].key # k,
           \A z \in L : x.node[z].key \in Key /\ x.node[z].value \in Value,
           NEW m \in Nat, m = Cardinality(L), m + 1 <= Capacity, NEW q,
           \/ Ring(x.node, x.head, L, q, m)
           \/ m = 0 /\ x.head = n /\ \E o : Ring(x.node, n, {n}, o, 1),
           NEW y, y = Entered(x, n, k, v)
    PROVE  /\ \E R : Sound(y, L \cup {n}, R, Pushed(q, n, m), m + 1)
           /\ DataSet(y.node, x.node, n, k, v)
<1> DEFINE g == InsertInTree(x.node, n, k, v, FindByKey(x.node, k))
           w == [x EXCEPT !.node = g]
           M == L \cup {n}
           r == Pushed(q, n, m)
<1>1. k \in Nat /\ n \in Address /\ n \in Pointer /\ L \subseteq Address /\ Null \notin Address
      /\ IsFiniteSet(L) /\ n \notin L /\ M \subseteq Address
  BY CacheAssumption DEF TreeOf, Address, Pointer
<1>2. /\ \E R : TreeOf(g, M, R)
      /\ Idle(g, M) /\ SameList(g, x.node) /\ DataSet(g, x.node, n, k, v)
  BY <1>1, EnterTree
<1>3. PICK R : TreeOf(g, M, R)
  BY <1>2
<1>4. y = ListInsert(w, n)
  BY DEF Entered
<1> HIDE DEF g
<1>5. w.node = g /\ w.head = x.head /\ g \in Memory /\ x.head \in Pointer
  BY <1>3 DEF Cache, TreeOf
<1> HIDE DEF w
<1>6. ASSUME NEW head, NEW N, N \subseteq Address, NEW o, NEW i \in Nat, Ring(x.node, head, N, o, i)
      PROVE  Ring(g, head, N, o, i)
  <2>1. \A a \in N : g[a].next = x.node[a].next /\ g[a].prev = x.node[a].prev
    BY <1>2, <1>6 DEF SameList
  <2>2. QED
    BY <1>6, <2>1, RingSame
<1>7. Pushed(q, n, 0) = [i \in 1..1 |-> n]
  <2>1. \A i \in 1..(0 + 1) : i = 1
    OBVIOUS
  <2>2. 0 + 1 = 1
    OBVIOUS
  <2>3. QED
    BY <2>1, <2>2 DEF Pushed
<1>8. ASSUME Ring(x.node, x.head, L, q, m) /\ m > 0
      PROVE  /\ Ring(y.node, n, M, r, m + 1) /\ y.head = n
             /\ y.node \in Memory /\ SameTree(y.node, g)
  <2>1. /\ x.head \in L /\ x.node[x.head].prev \in L
    BY <1>8, RingNeighbours
  <2>2. x.head # Null /\ x.head \in Address /\ g[x.head].prev \in Address
    BY <1>1, <1>2, <2>1 DEF SameList
  <2>3. WroteFront(y.node, g, n, x.head) /\ y.head = n
    BY <1>1, <1>4, <1>5, <2>2, ListInsertFields
  <2>4. Ring(g, x.head, L, q, m)
    BY <1>1, <1>6, <1>8
  <2>5. Ring(y.node, n, M, r, m + 1)
    BY <1>1, <1>8, <2>3, <2>4, RingFront
  <2>6. y.node \in Memory /\ SameTree(y.node, g)
    BY <2>3 DEF WroteFront
  <2>7. QED
    BY <2>3, <2>5, <2>6
<1>9. ASSUME Ring(x.node, x.head, L, q, m) /\ m = 0
      PROVE  /\ Ring(y.node, n, M, r, m + 1) /\ y.head = n
             /\ y.node \in Memory /\ SameTree(y.node, g)
  <2>1. x.head = Null /\ L = {}
    BY <1>9, RingNeighbours
  <2>2. WroteAlone(y.node, g, n) /\ y.head = n
    BY <1>1, <1>4, <1>5, <2>1, ListInsertFields
  <2>3. Ring(y.node, n, {n}, [i \in 1..1 |-> n], 1)
    BY <1>1, <2>2, RingFirst
  <2>4. M = {n} /\ m + 1 = 1
    BY <1>9, <2>1
  <2>5. r = [i \in 1..1 |-> n]
    BY <1>7, <1>9
  <2> HIDE DEF M, r
  <2>6. Ring(y.node, n, M, r, m + 1)
    BY <2>3, <2>4, <2>5
  <2>7. y.node \in Memory /\ SameTree(y.node, g)
    BY <2>2 DEF WroteAlone
  <2>8. QED
    BY <2>2, <2>6, <2>7
<1>10. ASSUME m = 0 /\ x.head = n /\ \E o : Ring(x.node, n, {n}, o, 1)
      PROVE  /\ Ring(y.node, n, M, r, m + 1) /\ y.head = n
             /\ y.node \in Memory /\ SameTree(y.node, g)
  <2>1. PICK o : Ring(x.node, n, {n}, o, 1)
    BY <1>10
  <2>2. Ring(g, n, {n}, o, 1)
    BY <1>1, <1>6, <2>1
  <2>3. g[n].prev = n /\ x.head = n /\ n # Null
    BY <1>1, <1>10, <2>2, RingNeighbours
  <2>4. WroteFront(y.node, g, n, n) /\ y.head = n
    BY <1>1, <1>4, <1>5, <2>3, ListInsertFields
  <2>5. Ring(y.node, n, {n}, o, 1)
    BY <1>1, <2>2, <2>4, RingSingle
  <2>6. o = r
    <3>1. o \in [1..1 -> {n}]
      BY <2>1 DEF Ring
    <3>2. o = [i \in 1..1 |-> n]
      BY <3>1
    <3>3. QED
      BY <1>7, <1>10, <3>2
  <2>7. L = {}
    BY <1>1, <1>10, FS_EmptySet
  <2>8. M = {n} /\ m + 1 = 1
    BY <1>10, <2>7
  <2> HIDE DEF M, r
  <2>9. Ring(y.node, n, M, r, m + 1)
    BY <2>5, <2>6, <2>8
  <2>10. y.node \in Memory /\ SameTree(y.node, g)
    BY <2>4 DEF WroteFront
  <2>11. QED
    BY <2>4, <2>9, <2>10
<1>11. /\ Ring(y.node, n, M, r, m + 1) /\ y.head = n
       /\ y.node \in Memory /\ SameTree(y.node, g)
  <2>1. m > 0 \/ m = 0
    OBVIOUS
  <2> HIDE DEF M, r
  <2>2. QED
    BY <1>8, <1>9, <1>10, <2>1
<1> HIDE DEF r
<1>12. TreeOf(y.node, M, R) /\ Idle(y.node, M)
  <2> HIDE DEF M
  <2>1. QED
    BY <1>2, <1>3, <1>11, SameTrees
<1>13. DataSet(y.node, x.node, n, k, v)
  BY <1>2, <1>11 DEF SameTree, DataSet
<1>14. y \in Cache
  <2>0. \E a, b : ListInsert(w, n) = [node |-> a, head |-> b]
    BY Zenon DEF ListInsert
  <2>1. y = [node |-> y.node, head |-> y.head]
    BY <1>4, <2>0
  <2>2. QED
    BY <1>1, <1>11, <2>1, CacheIs
<1>15. \A a \in M : y.node[a].key \in Key /\ y.node[a].value \in Value
  BY <1>1, <1>13 DEF DataSet
<1>16. m + 1 = Cardinality(M) /\ m + 1 \in 0..Capacity
  <2>1. Cardinality(M) = m + 1
    BY <1>1, FS_AddElement
  <2>2. Capacity \in Nat
    BY CacheAssumption
  <2>3. QED
    BY <2>1, <2>2
<1>17. Sound(y, M, R, r, m + 1)
  BY <1>11, <1>12, <1>14, <1>15, <1>16 DEF Sound
<1>18. QED
  BY <1>13, <1>17 DEF r

-----------------------------------------------------------------------------
(* The calls.                                                              *)

\* A sound cache in the terms of the lemmas
LEMMA SoundIs ==
    ASSUME NEW x, NEW L, NEW S, NEW q, NEW k, Sound(x, L, S, q, k)
    PROVE  /\ x \in Cache /\ x.node \in Memory /\ TreeOf(x.node, L, S) /\ Idle(x.node, L)
           /\ Grounded(x.node, L) /\ k \in Nat /\ k = Cardinality(L) /\ k <= Capacity
           /\ L \subseteq Node /\ IsFiniteSet(L) /\ Ring(x.node, x.head, L, q, k)
           /\ x = [node |-> x.node, head |-> x.head]
<1>1. Capacity \in Nat
  BY CacheAssumption
<1>2. TreeOf(x.node, L, S) /\ Idle(x.node, L)
  BY DEF Sound
<1>3. Grounded(x.node, L)
  BY <1>2, IdleGrounded
<1>4. QED
  BY <1>1, <1>2, <1>3 DEF Sound, TreeOf, Cache

\* insert of a new key into a cache that is not full
LEMMA NewSound ==
    ASSUME NEW x, NEW L, NEW S, NEW q, NEW m, Sound(x, L, S, q, m), m < Capacity,
           NEW k \in Key, NEW v \in Value, ~Found(x.node, FindByKey(x.node, k), k),
           NEW n \in Node \ L, NEW y, y = Entered(x, n, k, v)
    PROVE  /\ \E R : Sound(y, L \cup {n}, R, Pushed(q, n, m), m + 1)
           /\ DataSet(y.node, x.node, n, k, v)
<1>1. /\ x \in Cache /\ TreeOf(x.node, L, S) /\ Idle(x.node, L)
      /\ Grounded(x.node, L) /\ m \in Nat /\ m = Cardinality(L)
      /\ Ring(x.node, x.head, L, q, m)
  BY SoundIs
<1>2. k \in Nat /\ Capacity \in Nat
  BY CacheAssumption
<1>3. \A z \in L : x.node[z].key # k
  BY <1>1, <1>2, FoundIs
<1>4. Idle(x.node, L \cup {n})
  BY <1>1 DEF Idle
<1>5. m + 1 <= Capacity
  BY <1>1, <1>2
<1>6. \A z \in L : x.node[z].key \in Key /\ x.node[z].value \in Value
  BY DEF Sound
<1>7. QED
  BY <1>1, <1>3, <1>4, <1>5, <1>6, EnterSound

\* insert of a new key into a full cache
LEMMA EvictSound ==
    ASSUME NEW x, NEW L, NEW S, NEW q, NEW m, Sound(x, L, S, q, m), m >= Capacity,
           NEW k \in Key, NEW v \in Value, ~Found(x.node, FindByKey(x.node, k), k),
           NEW d, d = x.node[x.head].prev, NEW y, y = Entered(Erased(x, d), d, k, v)
    PROVE  /\ m \in Nat \ {0} /\ d = q[m] /\ d \in L
           /\ \E R : Sound(y, L, R, Moved(q, m, m), m)
           /\ DataSet(y.node, x.node, d, k, v)
<1> DEFINE z == Erased(x, d)
           M == L \ {d}
           r == Dropped(q, m, m)
<1>1. /\ x \in Cache /\ TreeOf(x.node, L, S) /\ Idle(x.node, L)
      /\ Grounded(x.node, L) /\ m \in Nat /\ m = Cardinality(L) /\ m <= Capacity
      /\ Ring(x.node, x.head, L, q, m) /\ L \subseteq Node /\ IsFiniteSet(L)
  BY SoundIs
<1>2. k \in Nat /\ Capacity \in Nat \ {0}
  BY CacheAssumption
<1>3. m \in Nat \ {0} /\ m \in 1..m /\ 1 \in 1..m
  BY <1>1, <1>2
<1>4. d = q[m]
  BY <1>1, <1>3 DEF Ring, Before
<1>5. /\ d \in L /\ z \in Cache
      /\ \E R : TreeOf(z.node, M, R)
      /\ Idle(z.node, L) /\ Grounded(z.node, M)
      /\ SameData(z.node, x.node)
      /\ m > 1 => Ring(z.node, z.head, M, r, m - 1)
      /\ m = 1 => L = {d} /\ z.head = d /\ Ring(z.node, d, {d}, q, 1)
  <2>1. Rest(z, x, L, d, q, m, m)
    BY <1>1, <1>3, <1>4, ErasedIs
  <2> HIDE DEF z
  <2>2. QED
    BY <2>1 DEF Rest
<1>6. y = Entered(z, d, k, v)
  OBVIOUS
<1> HIDE DEF z, r
<1>7. PICK R : TreeOf(z.node, M, R)
  BY <1>5
<1>8. M \cup {d} = L /\ d \in Node \ M /\ M \subseteq L
  BY <1>1, <1>5
<1>9. \A a \in L : a \in Address
  BY <1>1 DEF Address
<1>10. \A a \in M : z.node[a].key # k
  <2>1. \A a \in L : x.node[a].key # k
    BY <1>1, <1>2, FoundIs
  <2>2. QED
    BY <1>5, <1>9, <2>1 DEF SameData
<1>11. \A a \in M : z.node[a].key \in Key /\ z.node[a].value \in Value
  BY <1>5, <1>9 DEF Sound, SameData
<1> DEFINE o == m - 1
<1>12. o \in Nat /\ o = Cardinality(M) /\ o + 1 <= Capacity /\ o + 1 = m
  <2>1. Cardinality(M) = m - 1
    BY <1>1, <1>5, FS_RemoveElement
  <2>2. QED
    BY <1>1, <1>2, <1>3, <2>1
<1>13. \/ Ring(z.node, z.head, M, r, o)
       \/ o = 0 /\ z.head = d /\ \E f : Ring(z.node, d, {d}, f, 1)
  <2>1. CASE m > 1
    BY <1>5, <2>1
  <2>2. CASE m = 1
    BY <1>5, <2>2
  <2>3. m > 1 \/ m = 1
    BY <1>3
  <2>4. QED
    BY <2>1, <2>2, <2>3
<1>14. Idle(z.node, M \cup {d})
  BY <1>5, <1>8
<1> HIDE DEF M, o
<1>15. /\ \E T : Sound(y, M \cup {d}, T, Pushed(r, d, o), o + 1)
       /\ DataSet(y.node, z.node, d, k, v)
  BY <1>5, <1>6, <1>7, <1>8, <1>10, <1>11, <1>12, <1>13, <1>14, EnterSound
<1>16. Pushed(r, d, o) = Moved(q, m, m)
  BY <1>4 DEF Moved, r, o
<1>17. \E T : Sound(y, L, T, Moved(q, m, m), m)
  BY <1>8, <1>12, <1>15, <1>16
<1>18. DataSet(y.node, x.node, d, k, v)
  BY <1>5, <1>15, Zenon DEF SameData, DataSet
<1>19. QED
  BY <1>3, <1>4, <1>5, <1>17, <1>18

\* The elements in the nodes L stay
KeepsData(y, x, L) == \A a \in L : y.node[a].key = x.node[a].key /\ y.node[a].value = x.node[a].value

\* erase of a node that leaves another one
LEMMA EraseSound ==
    ASSUME NEW x, NEW L, NEW S, NEW q, NEW k, Sound(x, L, S, q, k), k > 1, NEW j \in 1..k,
           NEW d, d = q[j], NEW y, y = [Erased(x, d) EXCEPT !.node[d] = Blank(RootKey)]
    PROVE  /\ d \in L
           /\ \E R : Sound(y, L \ {d}, R, Dropped(q, j, k), k - 1)
           /\ KeepsData(y, x, L \ {d})
<1> DEFINE z == Erased(x, d)
           M == L \ {d}
           r == Dropped(q, j, k)
           o == k - 1
<1>1. /\ k \in Nat /\ k = Cardinality(L) /\ k <= Capacity /\ L \subseteq Node /\ IsFiniteSet(L)
      /\ Ring(x.node, x.head, L, q, k)
  BY SoundIs
<1>2. Rest(z, x, L, d, q, j, k)
  BY <1>1, ErasedIs
<1>3. y = [z EXCEPT !.node[d] = Blank(RootKey)]
  OBVIOUS
<1> HIDE DEF z
<1>4. /\ d \in L /\ z \in Cache
      /\ Idle(z.node, L)
      /\ SameData(z.node, x.node)
      /\ Ring(z.node, z.head, M, r, o)
  BY <1>2 DEF Rest
<1>5. PICK R : TreeOf(z.node, M, R)
  BY <1>2 DEF Rest
<1>6. /\ d \in Address /\ \A a \in M \cup {Root} : a \in Address /\ a # d
      /\ Root \notin L /\ M \subseteq Node /\ d # Root
  BY <1>1, <1>4, CacheAssumption DEF Address
<1>7. /\ y = [node |-> y.node, head |-> y.head] /\ y.head = z.head
      /\ y.node = [z.node EXCEPT ![d] = Blank(RootKey)]
  BY <1>3, <1>4 DEF Cache
<1>8. Blank(RootKey) \in NodeRecord
  BY CacheAssumption DEF Blank, NodeRecord, Pointer
<1>9. z.node \in Memory /\ z.head \in Pointer
  BY <1>4 DEF Cache
<1>10. \A a \in Address : y.node[a] = IF a = d THEN Blank(RootKey) ELSE z.node[a]
  BY <1>6, <1>7, <1>9 DEF Memory
<1>11. y.node \in Memory
  <2>1. \A a \in Address : y.node[a] \in NodeRecord
    BY <1>8, <1>9, <1>10, Fields
  <2>2. y.node = [a \in Address |-> y.node[a]]
    BY <1>7, <1>9 DEF Memory
  <2>3. QED
    BY <2>1, <2>2 DEF Memory
<1>12. y \in Cache
  BY <1>7, <1>9, <1>11 DEF Cache
<1>13. TreeOf(y.node, M, R)
  <2> DEFINE f == z.node
             g == y.node
  <2>1. \A a \in M \cup {Root} : /\ g[a].key = f[a].key /\ g[a].left = f[a].left
                                 /\ g[a].right = f[a].right /\ g[a].parent = f[a].parent
    BY <1>6, <1>10
  <2>2. g \in Memory /\ TreeOf(f, M, R)
    BY <1>5, <1>11
  <2> HIDE DEF M, f, g
  <2>3. TreeOf(g, M, R)
    BY <2>1, <2>2, Elsewhere
  <2>4. QED
    BY <2>3 DEF g
<1>14. Blank(RootKey).left = Null /\ Blank(RootKey).right = Null /\ Blank(RootKey).parent = Null
  BY DEF Blank
<1>15. Idle(y.node, M)
  BY <1>4, <1>10, <1>14 DEF Idle
<1>16. \A a \in M : y.node[a] = z.node[a] /\ a \in Address /\ a \in L
  BY <1>6, <1>10
<1>17. Ring(y.node, y.head, M, r, o)
  <2>1. o \in Nat
    BY <1>1
  <2>2. \A a \in M : y.node[a].next = z.node[a].next /\ y.node[a].prev = z.node[a].prev
    BY <1>16
  <2>3. Ring(z.node, y.head, M, r, o)
    BY <1>4, <1>7
  <2> HIDE DEF M, r, o
  <2>4. QED
    BY <2>1, <2>2, <2>3, RingSame
<1>18. \A a \in M : y.node[a].key = x.node[a].key /\ y.node[a].value = x.node[a].value
  BY <1>4, <1>16 DEF SameData
<1>19. \A a \in M : y.node[a].key \in Key /\ y.node[a].value \in Value
  BY <1>16, <1>18 DEF Sound
<1>20. o = Cardinality(M) /\ o \in 0..Capacity
  <2>1. Cardinality(M) = k - 1
    BY <1>1, <1>4, FS_RemoveElement
  <2>2. Capacity \in Nat
    BY CacheAssumption
  <2>3. QED
    BY <1>1, <2>1, <2>2
<1> HIDE DEF M, r, o
<1>21. Sound(y, M, R, r, o)
  BY <1>12, <1>13, <1>15, <1>17, <1>19, <1>20 DEF Sound
<1>22. KeepsData(y, x, L \ {d})
  BY <1>18 DEF KeepsData, M
<1>23. QED
  BY <1>4, <1>21, <1>22 DEF M, r, o

\* The empty cache
LEMMA InitSound ==
    ASSUME Init
    PROVE  Sound(c, live, [x \in Pointer |-> {}], [i \in 1..0 |-> Null], size)
<1> DEFINE S == [x \in Pointer |-> {}]
<1>1. Blank(RootKey) \in NodeRecord
  BY CacheAssumption DEF Blank, NodeRecord, Pointer
<1>2. /\ c.node \in Memory /\ c.head = Null /\ c \in Cache /\ live = {} /\ size = 0
      /\ \A n \in Address : c.node[n] = Blank(RootKey)
  BY <1>1 DEF Init, Memory, Cache, Pointer
<1>3. Blank(RootKey).left = Null /\ Blank(RootKey).right = Null /\ Blank(RootKey).parent = Null
  BY DEF Blank
<1>4. Root \in Address /\ Null \in Pointer
  BY DEF Address, Pointer
<1>5. Tree(c.node, {}, S)
  BY <1>2, <1>3, <1>4 DEF Tree, Child
<1>6. TreeOf(c.node, {}, S) /\ Idle(c.node, {})
  BY <1>2, <1>3, <1>5, FS_EmptySet DEF TreeOf, Idle
<1>7. Ring(c.node, c.head, {}, [i \in 1..0 |-> Null], 0)
  BY <1>2 DEF Ring
<1>8. 0 = Cardinality({}) /\ 0 \in 0..Capacity
  BY FS_EmptySet, CacheAssumption
<1>9. QED
  BY <1>2, <1>6, <1>7, <1>8 DEF Sound

\* What the calls do to a sound cache with the ring q: a hit on the j-th node,
Hit(q, j) ==
    /\ j \in 1..size /\ live' = live /\ size' = size
    /\ SameData(c'.node, c.node)
    /\ \E R : Sound(c', live', R, Moved(q, j, size), size')
\* a new node,
Came(q, n, k, v) ==
    /\ size < Capacity /\ n \in Node \ live /\ \A z \in live : c.node[z].key # k
    /\ live' = live \cup {n} /\ size' = size + 1
    /\ DataSet(c'.node, c.node, n, k, v)
    /\ \E R : Sound(c', live', R, Pushed(q, n, size), size')
\* a new element in the last node,
Evicted(q, k, v) ==
    /\ size = Capacity /\ \A z \in live : c.node[z].key # k
    /\ live' = live /\ size' = size
    /\ DataSet(c'.node, c.node, q[size], k, v)
    /\ \E R : Sound(c', live', R, Moved(q, size, size), size')
\* or one node less
Gone(q, j) ==
    /\ size > 1 /\ j \in 1..size /\ live' = live \ {q[j]} /\ size' = size - 1
    /\ KeepsData(c', c, live')
    /\ \E R : Sound(c', live', R, Dropped(q, j, size), size')

\* A call that finds the key
LEMMA HitStep ==
    ASSUME NEW S, NEW q, Sound(c, live, S, q, size), NEW k \in Key,
           Found(c.node, FindByKey(c.node, k), k),
           c' = ListToHead(c, FindByKey(c.node, k)), UNCHANGED <<live, size>>
    PROVE  \E j : Hit(q, j)
<1> DEFINE n == FindByKey(c.node, k)
<1>1. /\ TreeOf(c.node, live, S) /\ Grounded(c.node, live) /\ size \in Nat
      /\ Ring(c.node, c.head, live, q, size)
  BY SoundIs
<1>2. n \in live
  <2>1. k \in Nat
    BY CacheAssumption
  <2>2. QED
    BY <1>1, <2>1, FoundIs
<1>3. c' = ListToHead(c, n)
  OBVIOUS
<1> HIDE DEF n
<1>4. PICK j \in 1..size : n = q[j]
  BY <1>1, <1>2 DEF Ring
<1>5. /\ Sound(ListToHead(c, q[j]), live, S, Moved(q, j, size), size)
      /\ SameData(ListToHead(c, q[j]).node, c.node)
  BY <1>1, ToHead
<1>6. Sound(c', live', S, Moved(q, j, size), size') /\ SameData(c'.node, c.node)
  BY <1>3, <1>4, <1>5
<1>7. QED
  BY <1>6 DEF Hit

\* insert of a new key
LEMMA NewStep ==
    ASSUME NEW S, NEW q, Sound(c, live, S, q, size), NEW k \in Key, NEW v \in Value, InsertNew(k, v)
    PROVE  \E n \in Node : Came(q, n, k, v)
<1>1. ~Found(c.node, FindByKey(c.node, k), k) /\ size < Capacity /\ size' = size + 1
  BY DEF InsertNew, NextSize
<1>2. PICK n \in Node \ live : c' = Entered(c, n, k, v) /\ live' = live \cup {n}
  BY DEF InsertNew
<1>3. TreeOf(c.node, live, S) /\ Grounded(c.node, live) /\ k \in Nat
  BY SoundIs, CacheAssumption
<1>4. \A z \in live : c.node[z].key # k
  BY <1>1, <1>3, FoundIs
<1> DEFINE y == Entered(c, n, k, v)
<1>5. /\ \E R : Sound(y, live \cup {n}, R, Pushed(q, n, size), size + 1)
      /\ DataSet(y.node, c.node, n, k, v)
  <2>1. y = Entered(c, n, k, v)
    OBVIOUS
  <2> HIDE DEF y
  <2>2. QED
    BY <1>1, <2>1, NewSound
<1> HIDE DEF y
<1>6. c' = y
  BY <1>2 DEF y
<1>7. QED
  BY <1>1, <1>2, <1>4, <1>5, <1>6 DEF Came

\* insert of a new key into a full cache
LEMMA EvictStep ==
    ASSUME NEW S, NEW q, Sound(c, live, S, q, size), NEW k \in Key, NEW v \in Value, InsertEvict(k, v)
    PROVE  Evicted(q, k, v)
<1> DEFINE d == c.node[c.head].prev
           y == Entered(Erased(c, d), d, k, v)
<1>1. /\ ~Found(c.node, FindByKey(c.node, k), k) /\ size >= Capacity /\ live' = live
      /\ c' = y
  BY DEF InsertEvict, Victim
<1>2. /\ TreeOf(c.node, live, S) /\ Grounded(c.node, live) /\ k \in Nat
      /\ size \in Nat /\ size <= Capacity /\ Capacity \in Nat
  BY SoundIs, CacheAssumption
<1>3. size = Capacity /\ size' = size
  BY <1>1, <1>2 DEF InsertEvict, NextSize
<1>4. \A z \in live : c.node[z].key # k
  BY <1>1, <1>2, FoundIs
<1>5. /\ d = q[size]
      /\ \E R : Sound(y, live, R, Moved(q, size, size), size)
      /\ DataSet(y.node, c.node, d, k, v)
  <2>1. d = c.node[c.head].prev /\ y = Entered(Erased(c, d), d, k, v)
    OBVIOUS
  <2> HIDE DEF d, y
  <2>2. QED
    BY <1>1, <2>1, EvictSound
<1> HIDE DEF d, y
<1>6. QED
  BY <1>1, <1>3, <1>4, <1>5 DEF Evicted

\* erase of a node that leaves another one
LEMMA EraseStep ==
    ASSUME ~EraseLast, NEW S, NEW q, Sound(c, live, S, q, size), NEW n \in Node, Erase(n)
    PROVE  \E j : Gone(q, j)
<1>1. /\ n \in live /\ size > 1 /\ live' = live \ {n} /\ size' = size - 1
      /\ c' = [Erased(c, n) EXCEPT !.node[n] = Blank(RootKey)]
  BY DEF Erase
<1>2. Ring(c.node, c.head, live, q, size) /\ size \in Nat
  BY SoundIs
<1>3. PICK j \in 1..size : n = q[j]
  BY <1>1, <1>2 DEF Ring
<1> DEFINE y == [Erased(c, n) EXCEPT !.node[n] = Blank(RootKey)]
<1>4. /\ \E R : Sound(y, live \ {n}, R, Dropped(q, j, size), size - 1)
      /\ KeepsData(y, c, live \ {n})
  <2>1. y = [Erased(c, n) EXCEPT !.node[n] = Blank(RootKey)]
    OBVIOUS
  <2> HIDE DEF y
  <2>2. size > 1 /\ j \in 1..size /\ n = q[j]
    BY <1>1, <1>3
  <2>3. QED
    BY <2>1, <2>2, EraseSound
<1>5. c' = y
  BY <1>1
<1> HIDE DEF y
<1>6. QED
  BY <1>1, <1>3, <1>4, <1>5 DEF Gone

\* There are no other steps
LEMMA Steps ==
    ASSUME ~EraseLast, NEW S, NEW q, Sound(c, live, S, q, size), [Next]_vars
    PROVE  \/ UNCHANGED vars
           \/ \E j : Hit(q, j)
           \/ \E n \in Node, k \in Key, v \in Value : Came(q, n, k, v)
           \/ \E k \in Key, v \in Value : Evicted(q, k, v)
           \/ \E j : Gone(q, j)
<1>1. ASSUME NEW k \in Key, Find(k) PROVE UNCHANGED vars \/ \E j : Hit(q, j)
  <2>1. CASE Found(c.node, FindByKey(c.node, k), k)
    <3>1. c' = ListToHead(c, FindByKey(c.node, k)) /\ UNCHANGED <<live, size>>
      BY <1>1, <2>1 DEF Find
    <3>2. QED
      BY <2>1, <3>1, HitStep
  <2>2. CASE ~Found(c.node, FindByKey(c.node, k), k)
    <3>1. UNCHANGED <<c, live, size>>
      BY <1>1, <2>2 DEF Find
    <3>2. QED
      BY <3>1 DEF vars
  <2>3. QED
    BY <2>1, <2>2
<1>2. ASSUME NEW k \in Key, InsertPresent(k) PROVE \E j : Hit(q, j)
  <2>1. /\ Found(c.node, FindByKey(c.node, k), k)
        /\ c' = ListToHead(c, FindByKey(c.node, k)) /\ UNCHANGED <<live, size>>
    BY <1>2 DEF InsertPresent
  <2>2. QED
    BY <2>1, HitStep
<1>3. ASSUME NEW k \in Key, NEW v \in Value, InsertNew(k, v)
      PROVE  \E n \in Node : Came(q, n, k, v)
  BY <1>3, NewStep
<1>4. ASSUME NEW k \in Key, NEW v \in Value, InsertEvict(k, v) PROVE Evicted(q, k, v)
  BY <1>4, EvictStep
<1>5. ASSUME NEW n \in Node, Erase(n) PROVE \E j : Gone(q, j)
  BY <1>5, EraseStep
<1>6. CASE Next
  BY <1>1, <1>2, <1>3, <1>4, <1>5, <1>6 DEF Next
<1>7. QED
  BY <1>6

-----------------------------------------------------------------------------
(* The invariant is inductive.                                             *)

\* It holds at first,
LEMMA InvInit ==
    ASSUME Init PROVE IInv
<1>1. Sound(c, live, [x \in Pointer |-> {}], [i \in 1..0 |-> Null], size)
  BY InitSound
<1>2. QED
  BY <1>1 DEF IInv

\* and after every step
LEMMA InvNext ==
    ASSUME ~EraseLast, IInv, [Next]_vars PROVE IInv'
<1>1. PICK S, q : Sound(c, live, S, q, size)
  BY DEF IInv
<1>2. \E R, r : Sound(c', live', R, r, size')
  <2>1. \/ UNCHANGED vars
        \/ \E j : Hit(q, j)
        \/ \E n \in Node, k \in Key, v \in Value : Came(q, n, k, v)
        \/ \E k \in Key, v \in Value : Evicted(q, k, v)
        \/ \E j : Gone(q, j)
    BY <1>1, Steps
  <2>2. CASE UNCHANGED vars
    BY <1>1, <2>2 DEF vars
  <2>3. CASE ~UNCHANGED vars
    BY <2>1, <2>3 DEF Hit, Came, Evicted, Gone
  <2>4. QED
    BY <2>2, <2>3
<1>3. QED
  BY <1>2 DEF IInv

\* The invariant holds, if users leave an element when they erase
THEOREM Invariance ==
    ASSUME ~EraseLast PROVE Spec => []IInv
<1>1. Init => IInv
  BY InvInit
<1>2. IInv /\ [Next]_vars => IInv'
  BY InvNext
<1>3. QED
  BY <1>1, <1>2, PTL DEF Spec

-----------------------------------------------------------------------------
(* Type correctness, and the list.                                         *)

\* What IInv implies of the types
LEMMA InvTypes ==
    ASSUME IInv PROVE TypeOK /\ HeadLive
<1>1. PICK S, q : Sound(c, live, S, q, size)
  BY DEF IInv
<1>2. /\ c.node \in Memory /\ c.head \in Pointer /\ live \subseteq Node /\ size \in 0..Capacity
      /\ size \in Nat /\ Ring(c.node, c.head, live, q, size)
  BY <1>1, SoundIs, CacheAssumption DEF Sound, Cache, TreeOf
<1>3. c.head \in live \cup {Null}
  <2>1. size = 0 \/ size > 0
    BY <1>2
  <2>2. QED
    BY <1>2, <2>1, RingNeighbours
<1>4. QED
  BY <1>2, <1>3 DEF TypeOK, HeadLive, Memory, NodeRecord

\* Cycle, of any cache
Walk(x, k) ==
    LET nth[i \in 1..k] == IF i = 1 THEN x.head ELSE x.node[nth[i - 1]].next
    IN  [i \in 1..k |-> nth[i]]

\* Following next from the head leads around the ring
LEMMA WalkIs ==
    ASSUME NEW x, NEW L, NEW q, NEW k \in Nat, Ring(x.node, x.head, L, q, k)
    PROVE  Walk(x, k) = q
<1> DEFINE Body(f) == [i \in 1..k |-> IF i = 1 THEN x.head ELSE x.node[f[i - 1]].next]
           nth == CHOOSE f : f = Body(f)
<1>1. Walk(x, k) = [i \in 1..k |-> nth[i]]
  BY DEF Walk
<1>2. /\ q \in [1..k -> L]
      /\ k > 0 => x.head = q[1]
      /\ \A i \in 1..k : x.node[q[i]].next = q[After(i, k)]
  BY DEF Ring
<1>3. \A i \in 2..k : i - 1 \in 1..k /\ After(i - 1, k) = i
  BY DEF After
<1>4. q = Body(q)
  <2>1. \A i \in 1..k : q[i] = IF i = 1 THEN x.head ELSE x.node[q[i - 1]].next
    BY <1>2, <1>3
  <2>2. QED
    BY <1>2, <2>1
<1>5. nth = Body(nth)
  <2>1. \E f : f = Body(f)
    BY <1>4
  <2> HIDE DEF Body
  <2>2. QED
    BY <2>1
<1> HIDE DEF nth
<1>6. \A i \in 1..k : nth[i] = IF i = 1 THEN x.head ELSE x.node[nth[i - 1]].next
  BY <1>5
<1>7. \A i \in 1..k : nth[i] = q[i]
  <2> DEFINE T == {i \in 1..k : nth[i] # q[i]}
             id == [i \in T |-> i]
  <2>1. SUFFICES ASSUME T # {} PROVE FALSE
    OBVIOUS
  <2>2. PICK i \in T : \A j \in T : ~(j < i)
    <3>1. \A i \in T : id[i] \in Nat /\ id[i] = i
      OBVIOUS
    <3> HIDE DEF T, id
    <3>2. PICK i \in T : \A j \in T : ~(id[j] < id[i])
      BY <2>1, <3>1, Smallest
    <3>3. QED
      BY <3>1, <3>2
  <2>3. i # 1
    BY <1>2, <1>6
  <2>4. i - 1 \in 1..k /\ i - 1 \notin T /\ i \in 2..k
    BY <2>2, <2>3
  <2>5. nth[i - 1] = q[i - 1] /\ nth[i] = x.node[nth[i - 1]].next
    BY <1>6, <2>3, <2>4
  <2>6. nth[i] = q[i]
    BY <1>2, <1>3, <2>4, <2>5
  <2>7. QED
    BY <2>6
<1>8. QED
  BY <1>1, <1>2, <1>7

\* What IInv implies of the list
LEMMA InvList ==
    ASSUME IInv PROVE ListSound
<1>1. PICK S, q : Sound(c, live, S, q, size)
  BY DEF IInv
<1>2. /\ size \in Nat /\ size = Cardinality(live) /\ Ring(c.node, c.head, live, q, size)
  BY <1>1, SoundIs
<1>3. Cycle = q
  <2>1. Cycle = Walk(c, size)
    BY DEF Cycle, Walk
  <2>2. QED
    BY <1>2, <2>1, WalkIs
<1>4. /\ q \in [1..size -> live] /\ \A x \in live : \E i \in 1..size : x = q[i]
      /\ size > 0 => c.head = q[1]
      /\ \A i \in 1..size : c.node[q[i]].next = q[After(i, size)] /\ c.node[q[i]].prev = q[Before(i, size)]
  BY <1>2 DEF Ring
<1>5. ASSUME size > 0 PROVE ToSet(q) = live /\ c.node[Last(q)].next = c.head
  <2>1. Len(q) = size /\ DOMAIN q = 1..size
    BY <1>2, <1>4
  <2>2. ToSet(q) = live
    BY <1>4, <2>1 DEF ToSet
  <2>3. size \in 1..size /\ After(size, size) = 1
    BY <1>2, <1>5 DEF After
  <2>4. QED
    BY <1>4, <1>5, <2>1, <2>2, <2>3 DEF Last
<1>6. ASSUME NEW n \in live PROVE c.node[c.node[n].next].prev = n
  <2>1. PICK i \in 1..size : n = q[i]
    BY <1>4
  <2>2. After(i, size) \in 1..size /\ Before(After(i, size), size) = i
    BY <1>2, <2>1 DEF After, Before
  <2>3. QED
    BY <1>4, <2>1, <2>2
<1>7. QED
  BY <1>2, <1>3, <1>5, <1>6 DEF ListSound

-----------------------------------------------------------------------------
(* The tree.                                                               *)

\* Below, of any memory
Under(h) ==
    CHOOSE f : f = [x \in Pointer |-> IF x = Null THEN {} ELSE {x} \cup f[h[x].left] \cup f[h[x].right]]

\* The recursion finds the subtrees
LEMMA UnderIs ==
    ASSUME NEW h, NEW L, NEW S, TreeOf(h, L, S), Grounded(h, L), NEW n \in L \cup {Null}
    PROVE  Under(h)[n] = S[n]
<1> DEFINE Body(f) == [x \in Pointer |->
                          IF x = Null THEN {} ELSE {x} \cup f[h[x].left] \cup f[h[x].right]]
           U == [x \in Pointer |-> IF x \in L \cup {Null} THEN S[x]
                                   ELSE {x} \cup S[h[x].left] \cup S[h[x].right]]
           under == CHOOSE f : f = Body(f)
<1>1. /\ \A x \in L : /\ x # Null /\ S[x] = {x} \cup S[h[x].left] \cup S[h[x].right]
                      /\ h[x].left \in L \cup {Null} /\ h[x].right \in L \cup {Null}
      /\ S[Null] = {} /\ L \cup {Null} \subseteq Pointer
      /\ \A x \in Pointer : x = Null \/ x \in Address
  <2>1. \A x \in L : S[x] = {x} \cup S[h[x].left] \cup S[h[x].right]
    BY DEF TreeOf, Tree
  <2>2. S[Null] = {} /\ L \cup {Null} \subseteq Pointer
        /\ \A x \in Pointer : x = Null \/ x \in Address
    BY DEF TreeOf, Tree, Pointer, Address
  <2>3. \A x \in L : x # Null /\ h[x].left \in L \cup {Null} /\ h[x].right \in L \cup {Null}
    BY Subtrees
  <2>4. QED
    BY <2>1, <2>2, <2>3
<1>2. U = Body(U)
  <2>1. \A x \in Pointer \ {Null} : h[x].left \in L \cup {Null} /\ h[x].right \in L \cup {Null}
    BY <1>1 DEF Grounded
  <2>2. \A y \in L \cup {Null} : U[y] = S[y]
    BY <1>1
  <2>3. \A x \in Pointer : U[x] = IF x = Null THEN {} ELSE {x} \cup U[h[x].left] \cup U[h[x].right]
    BY <1>1, <2>1, <2>2
  <2>4. U = [x \in Pointer |-> U[x]]
    OBVIOUS
  <2> HIDE DEF U
  <2>5. QED
    BY <2>3, <2>4
<1>3. under = Body(under)
  <2>1. \E f : f = Body(f)
    BY <1>2
  <2> HIDE DEF Body
  <2>2. QED
    BY <2>1
<1>4. Under(h) = under
  BY DEF Under
<1> HIDE DEF under
<1>5. \A x \in Pointer :
          under[x] = IF x = Null THEN {} ELSE {x} \cup under[h[x].left] \cup under[h[x].right]
  BY <1>3
<1>6. under[Null] = {}
  BY <1>1, <1>5
<1>7. \A x \in L : under[x] = S[x]
  <2> DEFINE T == {a \in L : under[a] # S[a]}
  <2>1. SUFFICES ASSUME T # {} PROVE FALSE
    OBVIOUS
  <2>2. PICK a \in T : h[a].left \notin T /\ h[a].right \notin T
    <3>1. T \in SUBSET L
      OBVIOUS
    <3> HIDE DEF T
    <3>2. QED
      BY <2>1, <3>1, Bottom
  <2>3. a \in L /\ a \in Pointer /\ a # Null /\ under[a] # S[a]
    BY <1>1
  <2>4. \A y \in (L \cup {Null}) \ T : under[y] = S[y]
    BY <1>1, <1>6
  <2>5. under[h[a].left] = S[h[a].left] /\ under[h[a].right] = S[h[a].right]
    BY <1>1, <2>2, <2>3, <2>4
  <2>6. under[a] = {a} \cup under[h[a].left] \cup under[h[a].right]
    BY <1>5, <2>3
  <2>7. S[a] = {a} \cup S[h[a].left] \cup S[h[a].right]
    BY <1>1, <2>3
  <2>8. QED
    BY <2>3, <2>5, <2>6, <2>7
<1>8. QED
  BY <1>1, <1>4, <1>6, <1>7

\* What IInv implies of the tree
LEMMA InvTree ==
    ASSUME IInv PROVE TreeSound
<1>1. PICK S, q : Sound(c, live, S, q, size)
  BY DEF IInv
<1> DEFINE h == c.node
<1>2. TreeOf(h, live, S) /\ Grounded(h, live)
  BY <1>1, SoundIs
<1>3. \A n : Below(n) = Under(h)[n]
  BY DEF Below, Under
<1> HIDE DEF h
<1>4. \A n \in live \cup {Null} : Below(n) = S[n]
  BY <1>2, <1>3, UnderIs
<1>5. /\ h[Root].parent = Null /\ h[Root].right = Null
      /\ S[h[Root].left] = live
      /\ \A n \in live \cup {Root} : Child(h, live, n, h[n].left) /\ Child(h, live, n, h[n].right)
      /\ \A n \in live : /\ \A x \in S[h[n].left] : h[x].key < h[n].key
                         /\ \A x \in S[h[n].right] : h[n].key < h[x].key
  BY <1>2 DEF TreeOf, Tree
<1>6. \A n \in live \cup {Root} : \A x \in {h[n].left, h[n].right} \ {Null} :
          x \in live /\ h[x].parent = n
  BY <1>5 DEF Child
<1>7. \A n \in live \cup {Root} : h[n].left \in live \cup {Null} /\ h[n].right \in live \cup {Null}
  BY <1>6
<1>8. Below(h[Root].left) = live
  BY <1>4, <1>5, <1>7
<1>9. ASSUME NEW n \in live
      PROVE  /\ \A x \in Below(h[n].left) : h[x].key < h[n].key
             /\ \A x \in Below(h[n].right) : h[x].key > h[n].key
  <2>1. Below(h[n].left) = S[h[n].left] /\ Below(h[n].right) = S[h[n].right]
    BY <1>4, <1>7
  <2>2. QED
    BY <1>5, <2>1
<1>10. \A k \in Key : Found(h, FindByKey(h, k), k) <=> \E n \in live : h[n].key = k
  BY <1>2, FoundIs, CacheAssumption
<1>11. QED
  BY <1>5, <1>6, <1>8, <1>9, <1>10 DEF TreeSound, h

-----------------------------------------------------------------------------
(* Iteration.                                                              *)

\* walk goes from begin() by operator++, n - 1 times
Walks(h, n, walk) == walk = [i \in 1..n |-> IF i = 1 THEN FindMin(h) ELSE Successor(h, walk[i - 1])]

\* There is such a walk
LEMMA WalkExists ==
    ASSUME NEW h, NEW n \in Nat
    PROVE  \E walk : Walks(h, n, walk)
<1> DEFINE T == {m \in Nat : ~ \E walk : Walks(h, m, walk)}
           id == [m \in Nat |-> m]
<1>1. SUFFICES ASSUME T # {} PROVE FALSE
  OBVIOUS
<1>2. PICK m \in T : \A i \in T : ~(i < m)
  <2>1. \A i \in T : id[i] \in Nat /\ id[i] = i
    OBVIOUS
  <2> HIDE DEF T, id
  <2>2. PICK m \in T : \A i \in T : ~(id[i] < id[m])
    BY <1>1, <2>1, Smallest
  <2>3. QED
    BY <2>1, <2>2
<1>3. m \in Nat /\ ~ \E walk : Walks(h, m, walk)
  OBVIOUS
<1>4. CASE m = 0
  <2> DEFINE w == [i \in {} |-> i]
  <2>1. 1..0 = {}
    OBVIOUS
  <2>2. w = [i \in {} |-> IF i = 1 THEN FindMin(h) ELSE Successor(h, w[i - 1])]
    OBVIOUS
  <2> HIDE DEF w
  <2>3. Walks(h, 0, w)
    BY <2>1, <2>2 DEF Walks
  <2>4. QED
    BY <1>3, <1>4, <2>3
<1>5. CASE m # 0
  <2>1. m - 1 \in Nat /\ m - 1 < m
    BY <1>3, <1>5
  <2>2. PICK w : Walks(h, m - 1, w)
    BY <1>2, <2>1
  <2>3. \A i \in 1..(m - 1) : w[i] = IF i = 1 THEN FindMin(h) ELSE Successor(h, w[i - 1])
    <3>1. w = [i \in 1..(m - 1) |-> IF i = 1 THEN FindMin(h) ELSE Successor(h, w[i - 1])]
      BY <2>2 DEF Walks
    <3>2. QED
      BY <3>1
  <2> DEFINE g == [i \in 1..m |-> IF i = 1 THEN FindMin(h) ELSE Successor(h, w[i - 1])]
  <2>4. \A i \in 1..m : g[i] = IF i = 1 THEN FindMin(h) ELSE Successor(h, w[i - 1])
    OBVIOUS
  <2>5. g = [i \in 1..m |-> g[i]]
    OBVIOUS
  <2> HIDE DEF g
  <2>6. \A i \in 1..m : i # 1 => g[i - 1] = w[i - 1]
    <3>1. \A i \in 1..m : i # 1 => i - 1 \in 1..(m - 1) /\ i - 1 \in 1..m
      BY <1>3
    <3>2. \A i \in 1..(m - 1) : i \in 1..m
      BY <1>3
    <3>3. \A i \in 1..(m - 1) : g[i] = w[i]
      BY <2>3, <2>4, <3>2
    <3>4. QED
      BY <3>1, <3>3
  <2>7. \A i \in 1..m : g[i] = IF i = 1 THEN FindMin(h) ELSE Successor(h, g[i - 1])
    BY <2>4, <2>6
  <2>8. Walks(h, m, g)
    BY <2>5, <2>7 DEF Walks
  <2>9. QED
    BY <1>3, <2>8
<1>6. QED
  BY <1>4, <1>5

\* The nodes with smaller keys
Smaller(h, L, x) == {z \in L : h[z].key < h[x].key}

\* One after another
LEMMA NextOne ==
    ASSUME NEW h, NEW L, NEW S, TreeOf(h, L, S), Idle(h, L), NEW x \in L
    PROVE  /\ Cardinality(Smaller(h, L, x)) \in Nat
           /\ Cardinality(Smaller(h, L, x)) + 1 <= Cardinality(L)
           /\ Cardinality(Smaller(h, L, x)) + 1 < Cardinality(L) =>
                  /\ Successor(h, x) \in L /\ Predecessor(h, Successor(h, x)) = x
                  /\ Cardinality(Smaller(h, L, Successor(h, x))) = Cardinality(Smaller(h, L, x)) + 1
           /\ Cardinality(Smaller(h, L, x)) + 1 = Cardinality(L) =>
                  Successor(h, x) = Root /\ Predecessor(h, Root) = x
<1> DEFINE B == Smaller(h, L, x)
           r == Successor(h, x)
<1>1. /\ IsFiniteSet(L) /\ B \subseteq L /\ x \notin B
      /\ \A z \in L : h[z].key \in Nat
  <2>1. \A z \in L : z \in Address
    BY DEF TreeOf, Address
  <2>2. \A z \in L : h[z].key \in Nat
    BY <2>1, Fields DEF TreeOf
  <2>3. QED
    BY <2>2 DEF TreeOf, Smaller
<1>2. /\ IsFiniteSet(B) /\ IsFiniteSet(B \cup {x}) /\ Cardinality(B \cup {x}) = Cardinality(B) + 1
      /\ Cardinality(B) \in Nat /\ B \cup {x} \subseteq L /\ Cardinality(L) \in Nat
  BY <1>1, FS_Subset, FS_AddElement, FS_CardinalityType
<1>3. /\ Cardinality(B) + 1 <= Cardinality(L)
      /\ Cardinality(B) + 1 = Cardinality(L) => B \cup {x} = L
  BY <1>1, <1>2, FS_Subset
<1>4. \/ r = Root /\ \A z \in L : ~(h[x].key < h[z].key)
      \/ /\ r \in L /\ h[x].key < h[r].key
         /\ \A z \in L : h[x].key < h[z].key => z = r \/ h[r].key < h[z].key
  BY SuccessorIs
<1>5. \A z \in L : z \in B \/ z = x \/ h[x].key < h[z].key
  <2>1. \A z \in L : z # x => h[z].key # h[x].key
    BY KeysDiffer
  <2>2. QED
    BY <1>1, <2>1 DEF Smaller
<1> HIDE DEF r
<1>6. ASSUME Cardinality(B) + 1 < Cardinality(L)
      PROVE  r \in L /\ Predecessor(h, r) = x /\ Cardinality(Smaller(h, L, r)) = Cardinality(B) + 1
  <2>1. B \cup {x} # L
    <3>1. SUFFICES ASSUME B \cup {x} = L PROVE FALSE
      OBVIOUS
    <3>2. Cardinality(B \cup {x}) = Cardinality(L)
      BY <3>1, Zenon
    <3> HIDE DEF B
    <3>3. QED
      BY <1>2, <1>6, <3>2
  <2>2. \E z \in L : h[x].key < h[z].key
    BY <1>2, <1>5, <2>1
  <2>3. /\ r \in L /\ h[x].key < h[r].key
        /\ \A z \in L : h[x].key < h[z].key => z = r \/ h[r].key < h[z].key
    BY <1>4, <2>2
  <2>4. Smaller(h, L, r) = B \cup {x}
    <3>1. \A z \in L : h[z].key < h[r].key <=> z \in B \/ z = x
      <4>1. \A z \in L : z = x => h[z].key < h[r].key
        BY <2>3
      <4>2. \A z \in L : z \in B => h[z].key < h[r].key
        BY <1>1, <2>3 DEF Smaller
      <4>3. \A z \in L : h[x].key < h[z].key => ~(h[z].key < h[r].key)
        BY <1>1, <2>3
      <4>4. QED
        BY <1>5, <4>1, <4>2, <4>3
    <3> HIDE DEF B
    <3>2. QED
      BY <1>2, <3>1 DEF Smaller
  <2>5. Predecessor(h, r) = x
    <3> DEFINE p == Predecessor(h, r)
    <3>1. \/ p = Null /\ \A z \in L : ~(h[z].key < h[r].key)
          \/ /\ p \in L /\ h[p].key < h[r].key
             /\ \A z \in L : h[z].key < h[r].key => z = p \/ h[z].key < h[p].key
      BY <2>3, PredecessorIs
    <3> HIDE DEF p
    <3>2. /\ p \in L /\ h[p].key < h[r].key
          /\ x = p \/ h[x].key < h[p].key
      BY <2>3, <3>1
    <3>3. ~(h[x].key < h[p].key)
      BY <1>1, <2>3, <3>2
    <3>4. QED
      BY <3>2, <3>3 DEF p
  <2>6. QED
    BY <1>2, <2>3, <2>4, <2>5
<1>7. ASSUME Cardinality(B) + 1 = Cardinality(L)
      PROVE  r = Root /\ Predecessor(h, Root) = x
  <2>1. \A z \in L : z = x \/ h[z].key < h[x].key
    BY <1>3, <1>7 DEF Smaller
  <2>2. r = Root
    BY <1>1, <1>4, <2>1
  <2>3. Predecessor(h, Root) = x
    <3> DEFINE p == Predecessor(h, Root)
    <3>1. p \in L /\ \A z \in L : ~(h[p].key < h[z].key)
      BY PredecessorOfEnd
    <3> HIDE DEF p
    <3>2. p = x
      BY <1>1, <2>1, <3>1
    <3>3. QED
      BY <3>2 DEF p
  <2>4. QED
    BY <2>2, <2>3
<1>8. QED
  BY <1>2, <1>3, <1>6, <1>7 DEF r

\* The i-th step of the walk is at the node with i - 1 smaller keys
LEMMA WalkAt ==
    ASSUME NEW h, NEW L, NEW S, TreeOf(h, L, S), Idle(h, L), NEW n, n = Cardinality(L),
           NEW walk, Walks(h, n + 1, walk)
    PROVE  /\ \A i \in 1..n : walk[i] \in L /\ Cardinality(Smaller(h, L, walk[i])) = i - 1
           /\ \A i \in 1..n : Predecessor(h, walk[i + 1]) = walk[i]
           /\ walk[n + 1] = Root
<1>1. n \in Nat /\ IsFiniteSet(L)
  BY FS_CardinalityType DEF TreeOf
<1>2. \A i \in 1..(n + 1) : walk[i] = IF i = 1 THEN FindMin(h) ELSE Successor(h, walk[i - 1])
  <2>1. walk = [i \in 1..(n + 1) |-> IF i = 1 THEN FindMin(h) ELSE Successor(h, walk[i - 1])]
    BY DEF Walks
  <2>2. QED
    BY <2>1
<1> DEFINE At(i) == walk[i] \in L /\ Cardinality(Smaller(h, L, walk[i])) = i - 1
<1>3. ASSUME n > 0 PROVE At(1)
  <2>1. L # {}
    BY <1>3, FS_EmptySet
  <2>2. 1 \in 1..(n + 1) /\ walk[1] = FindMin(h)
    BY <1>1, <1>2
  <2>3. walk[1] \in L /\ \A z \in L : ~(h[z].key < h[walk[1]].key)
    BY <2>1, <2>2, FindMinIs
  <2>4. Smaller(h, L, walk[1]) = {}
    BY <2>3 DEF Smaller
  <2>5. QED
    BY <2>3, <2>4, FS_EmptySet
<1>4. ASSUME NEW i \in 1..n, At(i)
      PROVE  /\ i < n => At(i + 1)
             /\ i = n => walk[n + 1] = Root
             /\ Predecessor(h, walk[i + 1]) = walk[i]
  <2> DEFINE x == walk[i]
             y == walk[i + 1]
             B == Smaller(h, L, x)
  <2>1. y = Successor(h, x)
    <3>1. i + 1 \in 1..(n + 1) /\ i + 1 # 1 /\ i + 1 - 1 = i
      BY <1>1
    <3>2. QED
      BY <1>2, <3>1
  <2>2. x \in L /\ Cardinality(B) = i - 1
    BY <1>4
  <2> HIDE DEF x
  <2>3. /\ Cardinality(B) + 1 < Cardinality(L) =>
               /\ Successor(h, x) \in L /\ Predecessor(h, Successor(h, x)) = x
               /\ Cardinality(Smaller(h, L, Successor(h, x))) = Cardinality(B) + 1
        /\ Cardinality(B) + 1 = Cardinality(L) =>
               Successor(h, x) = Root /\ Predecessor(h, Root) = x
    BY <2>2, NextOne
  <2> HIDE DEF y, B
  <2>4. CASE i < n
    <3>1. y \in L /\ Predecessor(h, y) = x /\ Cardinality(Smaller(h, L, y)) = i
      BY <1>1, <2>1, <2>2, <2>3, <2>4
    <3>2. i + 1 - 1 = i
      OBVIOUS
    <3>3. QED
      BY <2>4, <3>1, <3>2 DEF x, y
  <2>5. CASE i = n
    <3>1. y = Root /\ Predecessor(h, y) = x
      BY <1>1, <2>1, <2>2, <2>3, <2>5
    <3>2. QED
      BY <2>5, <3>1 DEF x, y
  <2>6. QED
    BY <1>1, <2>4, <2>5
<1>5. \A i \in 1..n : At(i)
  <2> DEFINE T == {i \in 1..n : ~At(i)}
             id == [i \in T |-> i]
  <2>1. SUFFICES ASSUME T # {} PROVE FALSE
    OBVIOUS
  <2>2. \A i \in T : id[i] \in Nat /\ id[i] = i /\ i \in 1..n /\ ~At(i)
    OBVIOUS
  <2>3. PICK i \in T : \A j \in T : ~(j < i)
    <3> HIDE DEF T, id, At
    <3>1. PICK i \in T : \A j \in T : ~(id[j] < id[i])
      BY <2>1, <2>2, Smallest
    <3>2. QED
      BY <2>2, <3>1
  <2>4. n > 0 /\ i # 1
    <3> HIDE DEF At
    <3>1. QED
      BY <1>1, <1>3, <2>2, <2>3
  <2>5. i - 1 \in 1..n /\ i - 1 < n /\ i - 1 + 1 = i /\ i - 1 \notin T
    BY <1>1, <2>3, <2>4
  <2>6. At(i - 1)
    BY <2>5
  <2> HIDE DEF At
  <2>7. At(i)
    BY <1>4, <2>5, <2>6
  <2>8. QED
    BY <2>2, <2>3, <2>7
<1>6. walk[n + 1] = Root
  <2>1. CASE n = 0
    <3>1. L = {}
      BY <1>1, <2>1, FS_EmptySet
    <3>2. walk[1] = FindMin(h)
      BY <1>2, <2>1
    <3>3. QED
      BY <2>1, <3>1, <3>2, FindMinIs
  <2>2. CASE n # 0
    <3>1. n \in 1..n
      BY <1>1, <2>2
    <3> HIDE DEF At
    <3>2. QED
      BY <1>4, <1>5, <3>1
  <2>3. QED
    BY <2>1, <2>2
<1>7. \A i \in 1..n : Predecessor(h, walk[i + 1]) = walk[i]
  <2> HIDE DEF At
  <2>1. QED
    BY <1>4, <1>5
<1>8. QED
  BY <1>5, <1>6, <1>7

\* What IInv implies of iteration
LEMMA InvIteration ==
    ASSUME IInv PROVE IterationSorted
<1>1. PICK S, q : Sound(c, live, S, q, size)
  BY DEF IInv
<1> DEFINE h == c.node
           Body(f) == [i \in 1..(size + 1) |-> IF i = 1 THEN FindMin(h) ELSE Successor(h, f[i - 1])]
           walk == CHOOSE f : f = Body(f)
<1>2. TreeOf(h, live, S) /\ Idle(h, live) /\ size \in Nat /\ size = Cardinality(live)
  BY <1>1, SoundIs
<1>3. Walks(h, size + 1, walk)
  <2>1. \E f : f = Body(f)
    <3> HIDE DEF h
    <3>1. size + 1 \in Nat
      BY <1>2
    <3>2. PICK f : Walks(h, size + 1, f)
      BY <3>1, WalkExists
    <3>3. f = Body(f)
      BY <3>2 DEF Walks
    <3>4. QED
      BY <3>3
  <2> HIDE DEF Body, h
  <2>2. walk = Body(walk)
    BY <2>1
  <2>3. QED
    BY <2>2 DEF Walks, Body
<1>4. IterationSorted <=>
          /\ walk[size + 1] = Root
          /\ \A i \in 1..size : walk[i] \in live /\ Predecessor(h, walk[i + 1]) = walk[i]
          /\ \A i, j \in 1..size : i < j => h[walk[i]].key < h[walk[j]].key
  BY DEF IterationSorted
<1> HIDE DEF walk, h, Body
<1>5. /\ \A i \in 1..size : walk[i] \in live /\ Cardinality(Smaller(h, live, walk[i])) = i - 1
      /\ \A i \in 1..size : Predecessor(h, walk[i + 1]) = walk[i]
      /\ walk[size + 1] = Root
  BY <1>2, <1>3, WalkAt
<1>6. ASSUME NEW i \in 1..size, NEW j \in 1..size, i < j
      PROVE  h[walk[i]].key < h[walk[j]].key
  <2>1. walk[i] \in live /\ walk[j] \in live
    BY <1>5
  <2>2. \A x \in live : h[x].key \in Nat
    <3>1. \A x \in live : x \in Address
      BY <1>2 DEF TreeOf, Address
    <3>2. QED
      BY <1>2, <3>1, Fields DEF TreeOf
  <2>3. SUFFICES ASSUME ~(h[walk[i]].key < h[walk[j]].key) PROVE FALSE
    OBVIOUS
  <2>4. Smaller(h, live, walk[j]) \subseteq Smaller(h, live, walk[i])
    BY <2>1, <2>2, <2>3 DEF Smaller
  <2>5. IsFiniteSet(Smaller(h, live, walk[i]))
    <3>1. Smaller(h, live, walk[i]) \subseteq live
      BY DEF Smaller
    <3>2. QED
      BY <1>2, <3>1, FS_Subset DEF TreeOf
  <2>6. Cardinality(Smaller(h, live, walk[j])) <= Cardinality(Smaller(h, live, walk[i]))
    BY <2>4, <2>5, FS_Subset
  <2>7. j - 1 <= i - 1
    BY <1>5, <2>6
  <2>8. QED
    BY <1>6, <2>7
<1>7. QED
  BY <1>4, <1>5, <1>6

-----------------------------------------------------------------------------
(* Iterators.                                                              *)

\* The body of IteratorsStable
Stay == \A k \in Key : Nodes(k) # {} /\ Nodes(k)' # {} => Nodes(k)' = Nodes(k)

\* A key is in one node
LEMMA OneNode ==
    ASSUME NEW x, NEW L, NEW S, NEW q, NEW k, Sound(x, L, S, q, k), NEW a \in L, NEW b \in L,
           x.node[a].key = x.node[b].key
    PROVE  a = b
<1>1. TreeOf(x.node, L, S)
  BY SoundIs
<1>2. QED
  BY <1>1, KeysDiffer

\* No step moves a key from node to node
LEMMA StayStep ==
    ASSUME ~EraseLast, IInv, [Next]_vars PROVE Stay
<1>1. PICK S, q : Sound(c, live, S, q, size)
  BY DEF IInv
<1>2. /\ live \subseteq Address /\ Ring(c.node, c.head, live, q, size) /\ size \in Nat
  BY <1>1, SoundIs DEF Address
<1>3. SUFFICES ASSUME NEW k \in Key, Nodes(k) # {}, Nodes(k)' # {} PROVE Nodes(k)' = Nodes(k)
  BY DEF Stay
<1>4. Nodes(k) = {n \in live : c.node[n].key = k} /\ Nodes(k)' = {n \in live' : c'.node[n].key = k}
  BY DEF Nodes
<1>5. CASE UNCHANGED vars
  BY <1>4, <1>5 DEF vars
<1>6. ASSUME NEW j, Hit(q, j) PROVE Nodes(k)' = Nodes(k)
  BY <1>2, <1>4, <1>6 DEF Hit, SameData
<1>7. ASSUME NEW n \in Node, NEW kk \in Key, NEW v \in Value, Came(q, n, kk, v)
      PROVE  Nodes(k)' = Nodes(k)
  <2>1. k # kk
    BY <1>3, <1>4, <1>7 DEF Came
  <2>2. live' = live \cup {n} /\ n \in Address
    BY <1>7 DEF Came, Address
  <2>3. \A y \in Address : c'.node[y].key = IF y = n THEN kk ELSE c.node[y].key
    BY <1>7 DEF Came, DataSet
  <2>4. n \notin live
    BY <1>7 DEF Came
  <2>5. QED
    BY <1>2, <1>4, <2>1, <2>2, <2>3, <2>4
<1>8. ASSUME NEW kk \in Key, NEW v \in Value, Evicted(q, kk, v)
      PROVE  Nodes(k)' = Nodes(k)
  <2> DEFINE d == q[size]
  <2>1. k # kk /\ live' = live
    BY <1>3, <1>4, <1>8 DEF Evicted
  <2>2. \A y \in Address : c'.node[y].key = IF y = d THEN kk ELSE c.node[y].key
    BY <1>8 DEF Evicted, DataSet
  <2>3. d \in live
    <3>1. size \in 1..size
      BY <1>2, <1>8, CacheAssumption DEF Evicted
    <3>2. QED
      BY <1>2, <3>1 DEF Ring
  <2> HIDE DEF d
  <2>4. c.node[d].key # k
    <3>1. SUFFICES ASSUME c.node[d].key = k PROVE FALSE
      OBVIOUS
    <3>2. PICK n \in live : c'.node[n].key = k
      BY <1>3, <1>4, <2>1
    <3>3. n # d /\ c.node[n].key = k
      BY <1>2, <2>1, <2>2, <2>3, <3>2
    <3>4. QED
      BY <1>1, <2>3, <3>1, <3>3, OneNode
  <2>5. QED
    BY <1>2, <1>4, <2>1, <2>2, <2>4
<1>9. ASSUME NEW j, Gone(q, j) PROVE Nodes(k)' = Nodes(k)
  <2> DEFINE d == q[j]
  <2>1. live' = live \ {d} /\ \A a \in live' : c'.node[a].key = c.node[a].key
    BY <1>9 DEF Gone, KeepsData
  <2>2. d \in live
    BY <1>2, <1>9 DEF Gone, Ring
  <2> HIDE DEF d
  <2>3. c.node[d].key # k
    <3>1. SUFFICES ASSUME c.node[d].key = k PROVE FALSE
      OBVIOUS
    <3>2. PICK n \in live' : c'.node[n].key = k
      BY <1>3, <1>4
    <3>3. n # d /\ n \in live /\ c.node[n].key = k
      BY <2>1, <3>2
    <3>4. QED
      BY <1>1, <2>2, <3>1, <3>3, OneNode
  <2>4. QED
    BY <1>4, <2>1, <2>2, <2>3
<1>10. QED
  BY <1>1, <1>5, <1>6, <1>7, <1>8, <1>9, Steps

-----------------------------------------------------------------------------
(* The list of elements by last use.                                       *)

\* The elements in the order q
Pair(x, n) == <<x.node[n].key, x.node[n].value>>
Listed(x, q, k) == [i \in 1..k |-> Pair(x, q[i])]

Element == Nat \X Value

\* Integers are discrete
LEMMA NoneBetween ==
    ASSUME NEW a \in Int, NEW b \in Int, a <= b, ~(a + 1 <= b) PROVE a = b
OBVIOUS

\* Dropped and Pushed, of sequences
LEMMA DroppedIs ==
    ASSUME NEW T, NEW s \in Seq(T), NEW j \in 1..Len(s)
    PROVE  RemoveAt(s, j) = Dropped(s, j, Len(s)) /\ RemoveAt(s, j) \in Seq(T)
<1> DEFINE a == SubSeq(s, 1, j - 1)
           b == SubSeq(s, j + 1, Len(s))
           d == Dropped(s, j, Len(s))
           n == Len(s)
<1>1. n \in Nat /\ s \in [1..n -> T] /\ j \in Int /\ 1 \in Int /\ j - 1 \in Int /\ j + 1 \in Int /\ n \in Int
  BY LenProperties
<1>2. /\ a \in Seq(T) /\ Len(a) = j - 1
      /\ \A i \in 1..(j - 1) : a[i] = s[i]
  <2>1. \A i \in 1..(j - 1) : s[i] \in T
    BY <1>1
  <2>2. /\ a \in Seq(T) /\ Len(a) = (IF 1 <= j - 1 THEN j - 1 - 1 + 1 ELSE 0)
        /\ \A i \in 1..(j - 1 - 1 + 1) : a[i] = s[1 + i - 1]
    BY <1>1, <2>1, SubSeqProperties
  <2> HIDE DEF a
  <2>3. QED
    BY <1>1, <2>2
<1>3. /\ b \in Seq(T) /\ Len(b) = n - j
      /\ \A i \in 1..(n - j) : b[i] = s[j + i]
  <2>1. \A i \in (j + 1)..n : s[i] \in T
    BY <1>1
  <2>2. /\ b \in Seq(T) /\ Len(b) = (IF j + 1 <= n THEN n - (j + 1) + 1 ELSE 0)
        /\ \A i \in 1..(n - (j + 1) + 1) : b[i] = s[j + 1 + i - 1]
    BY <1>1, <2>1, SubSeqProperties
  <2> HIDE DEF b
  <2>3. n - (j + 1) + 1 = n - j /\ \A i \in 1..(n - j) : j + 1 + i - 1 = j + i
    BY <1>1
  <2>4. Len(b) = n - j
    <3>0. j \in Int /\ n \in Int /\ j <= n
      BY <1>1
    <3>1. CASE j + 1 <= n
      BY <1>1, <2>2, <2>3, <3>1
    <3>2. CASE ~(j + 1 <= n)
      <4>1. Len(b) = 0
        BY <2>2, <3>2
      <4>2. j = n
        <5> HIDE DEF n
        <5>1. QED
          BY <3>0, <3>2, NoneBetween, Zenon
      <4>3. QED
        BY <1>1, <4>1, <4>2
    <3>3. QED
      BY <3>1, <3>2
  <2>5. \A i \in 1..(n - j) : b[i] = s[j + i]
    BY <2>2, <2>3, Zenon
  <2>6. QED
    BY <2>2, <2>4, <2>5
<1>4. RemoveAt(s, j) = a \o b
  BY DEF RemoveAt
<1> HIDE DEF a, b
<1>5. /\ a \o b \in Seq(T) /\ Len(a \o b) = n - 1
      /\ \A i \in 1..(n - 1) : (a \o b)[i] = IF i < j THEN s[i] ELSE s[i + 1]
  <2>1. /\ a \o b \in Seq(T) /\ Len(a \o b) = Len(a) + Len(b)
        /\ \A i \in 1..(Len(a) + Len(b)) : (a \o b)[i] = IF i <= Len(a) THEN a[i] ELSE b[i - Len(a)]
    BY <1>2, <1>3, ConcatProperties
  <2>2. Len(a) + Len(b) = n - 1
    BY <1>1, <1>2, <1>3
  <2>3. ASSUME NEW i \in 1..(n - 1) PROVE (a \o b)[i] = IF i < j THEN s[i] ELSE s[i + 1]
    <3>1. (a \o b)[i] = IF i <= Len(a) THEN a[i] ELSE b[i - Len(a)]
      BY <2>1, <2>2
    <3>2. CASE i < j
      <4>1. i \in 1..(j - 1) /\ i <= Len(a)
        BY <1>1, <1>2, <3>2
      <4>2. QED
        BY <1>2, <3>1, <3>2, <4>1
    <3>3. CASE ~(i < j)
      <4>1. i - (j - 1) \in 1..(n - j) /\ ~(i <= Len(a)) /\ j + (i - (j - 1)) = i + 1
        BY <1>1, <1>2, <3>3
      <4>2. QED
        BY <1>2, <1>3, <3>1, <3>3, <4>1
    <3>4. QED
      BY <3>2, <3>3
  <2>4. QED
    BY <2>1, <2>2, <2>3
<1>6. a \o b = [i \in 1..(n - 1) |-> (a \o b)[i]]
  <2>1. a \o b \in [1..(n - 1) -> T]
    BY <1>5, LenProperties
  <2>2. QED
    BY <2>1
<1>7. d = [i \in 1..(n - 1) |-> d[i]] /\ \A i \in 1..(n - 1) : d[i] = IF i < j THEN s[i] ELSE s[i + 1]
  BY DEF Dropped
<1> HIDE DEF d
<1>8. a \o b = d
  BY <1>5, <1>6, <1>7
<1>9. QED
  BY <1>4, <1>5, <1>8 DEF d

\* and of an element before a sequence
LEMMA PushedIs ==
    ASSUME NEW T, NEW s \in Seq(T), NEW e \in T
    PROVE  <<e>> \o s = Pushed(s, e, Len(s))
<1> DEFINE d == Pushed(s, e, Len(s))
           n == Len(s)
           w == <<e>>
<1>1. n \in Nat /\ w \in Seq(T) /\ Len(w) = 1 /\ w[1] = e
  BY LenProperties
<1> HIDE DEF w
<1>2. /\ w \o s \in Seq(T) /\ Len(w \o s) = 1 + n
      /\ \A i \in 1..(1 + n) : (w \o s)[i] = IF i <= 1 THEN w[i] ELSE s[i - 1]
  <2>1. /\ w \o s \in Seq(T) /\ Len(w \o s) = Len(w) + Len(s)
        /\ \A i \in 1..(Len(w) + Len(s)) : (w \o s)[i] = IF i <= Len(w) THEN w[i] ELSE s[i - Len(w)]
    BY <1>1, ConcatProperties
  <2>2. QED
    BY <1>1, <2>1
<1>3. \A i \in 1..(n + 1) : (w \o s)[i] = IF i = 1 THEN e ELSE s[i - 1]
  BY <1>1, <1>2
<1>4. w \o s = [i \in 1..(n + 1) |-> (w \o s)[i]]
  <2>1. 1 + n = n + 1
    BY <1>1
  <2>2. w \o s \in [1..(n + 1) -> T]
    BY <1>2, <2>1, LenProperties
  <2>3. QED
    BY <2>2
<1>5. d = [i \in 1..(n + 1) |-> d[i]] /\ \A i \in 1..(n + 1) : d[i] = IF i = 1 THEN e ELSE s[i - 1]
  BY DEF Pushed
<1> HIDE DEF d
<1>6. w \o s = d
  BY <1>3, <1>4, <1>5
<1>7. QED
  BY <1>6 DEF w, d

\* Front is the removal of the last one
LEMMA FrontIs ==
    ASSUME NEW T, NEW s \in Seq(T), Len(s) > 0
    PROVE  Front(s) = RemoveAt(s, Len(s))
<1> DEFINE n == Len(s)
           a == SubSeq(s, 1, n - 1)
<1>1. n \in Nat /\ s \in [1..n -> T] /\ n - 1 \in Int /\ n \in Int /\ n + 1 \in Int
  BY LenProperties
<1>2. SubSeq(s, n + 1, n) = << >>
  BY <1>1, SubSeqEmpty
<1>3. a \in Seq(T)
  <2>1. \A i \in 1..(n - 1) : s[i] \in T
    BY <1>1
  <2>2. QED
    BY <1>1, <2>1, SubSeqProperties
<1>4. RemoveAt(s, n) = a \o << >>
  BY <1>2 DEF RemoveAt
<1>5. QED
  BY <1>3, <1>4, ConcatEmptySeq DEF Front

\* The list is a sequence of elements
LEMMA ListedIs ==
    ASSUME NEW x, NEW L, NEW S, NEW q, NEW k, Sound(x, L, S, q, k)
    PROVE  /\ Listed(x, q, k) \in Seq(Element) /\ Len(Listed(x, q, k)) = k
           /\ \A i \in 1..k : q[i] \in L /\ q[i] \in Address /\ Listed(x, q, k)[i] = Pair(x, q[i])
<1>1. /\ k \in Nat /\ q \in [1..k -> L] /\ L \subseteq Address
      /\ \A n \in L : x.node[n].key \in Key /\ x.node[n].value \in Value
  <2>1. k \in Nat /\ Ring(x.node, x.head, L, q, k) /\ L \subseteq Node
    BY SoundIs
  <2>2. q \in [1..k -> L]
    BY <2>1 DEF Ring
  <2>3. \A n \in L : x.node[n].key \in Key /\ x.node[n].value \in Value
    BY DEF Sound
  <2>4. QED
    BY <2>1, <2>2, <2>3 DEF Address
<1>2. \A n \in L : Pair(x, n) \in Element
  BY <1>1, CacheAssumption DEF Pair, Element
<1>3. Listed(x, q, k) \in [1..k -> Element]
  BY <1>1, <1>2 DEF Listed
<1>4. Listed(x, q, k) \in Seq(Element) /\ Len(Listed(x, q, k)) = k
  BY <1>1, <1>3
<1>5. QED
  BY <1>1, <1>4 DEF Listed

\* recent lists the elements in the order of the ring
LEMMA RecentIs ==
    ASSUME NEW S, NEW q, Sound(c, live, S, q, size)
    PROVE  recent = Listed(c, q, size)
<1>1. size \in Nat /\ Ring(c.node, c.head, live, q, size)
  BY SoundIs
<1>2. Cycle = q
  <2>1. Cycle = Walk(c, size)
    BY DEF Cycle, Walk
  <2>2. QED
    BY <1>1, <2>1, WalkIs
<1>3. DOMAIN q = 1..size
  BY <1>1 DEF Ring
<1>4. recent = [i \in DOMAIN q |-> <<c.node[q[i]].key, c.node[q[i]].value>>]
  BY <1>2 DEF recent
<1>5. QED
  BY <1>3, <1>4 DEF Listed, Pair

\* and after a step
LEMMA RecentNext ==
    ASSUME NEW S, NEW q, Sound(c', live', S, q, size')
    PROVE  recent' = Listed(c', q, size')
<1>1. size' \in Nat /\ Ring(c'.node, c'.head, live', q, size')
  BY SoundIs
<1>2. Cycle' = q
  <2>1. Cycle' = Walk(c', size')
    BY DEF Cycle, Walk
  <2>2. QED
    BY <1>1, <2>1, WalkIs
<1>3. DOMAIN q = 1..size'
  BY <1>1 DEF Ring
<1>4. recent' = [i \in DOMAIN q |-> <<c'.node[q[i]].key, c'.node[q[i]].value>>]
  BY <1>2 DEF recent
<1>5. QED
  BY <1>3, <1>4 DEF Listed, Pair

\* y lists the node as x does
Kept(y, x, n) == Pair(y, n) = Pair(x, n)

\* The elements of a ring that lost a node
LEMMA ListDropped ==
    ASSUME NEW x, NEW y, NEW q, NEW k \in Nat, NEW j \in 1..k,
           \A i \in 1..k : i # j => Kept(y, x, q[i])
    PROVE  Listed(y, Dropped(q, j, k), k - 1) = Dropped(Listed(x, q, k), j, k)
<1> DEFINE s == Listed(x, q, k)
<1>1. \A i \in 1..k : s[i] = Pair(x, q[i])
  BY DEF Listed
<1>2. ASSUME NEW i \in 1..(k - 1)
      PROVE  Pair(y, IF i < j THEN q[i] ELSE q[i + 1]) = IF i < j THEN s[i] ELSE s[i + 1]
  <2>1. i \in 1..k /\ i + 1 \in 1..k
    OBVIOUS
  <2>2. CASE i < j
    BY <1>1, <2>1, <2>2 DEF Kept
  <2>3. CASE ~(i < j)
    <3>1. i + 1 # j
      BY <2>3
    <3>2. QED
      BY <1>1, <2>1, <2>3, <3>1 DEF Kept
  <2>4. QED
    BY <2>2, <2>3
<1> HIDE DEF s
<1>3. Listed(y, Dropped(q, j, k), k - 1) = [i \in 1..(k - 1) |-> Pair(y, IF i < j THEN q[i] ELSE q[i + 1])]
  BY DEF Listed, Dropped
<1>4. Dropped(s, j, k) = [i \in 1..(k - 1) |-> IF i < j THEN s[i] ELSE s[i + 1]]
  BY DEF Dropped
<1>5. QED
  BY <1>2, <1>3, <1>4 DEF s

\* The elements of a ring with a new first node
LEMMA ListPushed ==
    ASSUME NEW x, NEW y, NEW q, NEW k \in Nat, NEW n,
           \A i \in 1..k : Kept(y, x, q[i])
    PROVE  Listed(y, Pushed(q, n, k), k + 1) = Pushed(Listed(x, q, k), Pair(y, n), k)
<1> DEFINE s == Listed(x, q, k)
<1>1. \A i \in 1..k : s[i] = Pair(x, q[i])
  BY DEF Listed
<1>2. ASSUME NEW i \in 1..(k + 1)
      PROVE  Pair(y, IF i = 1 THEN n ELSE q[i - 1]) = IF i = 1 THEN Pair(y, n) ELSE s[i - 1]
  <2>1. CASE i = 1
    BY <2>1
  <2>2. CASE i # 1
    <3>1. i - 1 \in 1..k
      BY <2>2
    <3>2. QED
      BY <1>1, <2>2, <3>1 DEF Kept
  <2>3. QED
    BY <2>1, <2>2
<1> HIDE DEF s
<1>3. Listed(y, Pushed(q, n, k), k + 1) = [i \in 1..(k + 1) |-> Pair(y, IF i = 1 THEN n ELSE q[i - 1])]
  BY DEF Listed, Pushed
<1>4. Pushed(s, Pair(y, n), k) = [i \in 1..(k + 1) |-> IF i = 1 THEN Pair(y, n) ELSE s[i - 1]]
  BY DEF Pushed
<1>5. QED
  BY <1>2, <1>3, <1>4 DEF s

\* The elements of a ring whose j-th node moves to the front
LEMMA ListMoved ==
    ASSUME NEW x, NEW y, NEW q, NEW k \in Nat, NEW j \in 1..k,
           \A i \in 1..k : i # j => Kept(y, x, q[i])
    PROVE  Listed(y, Moved(q, j, k), k) = Pushed(Dropped(Listed(x, q, k), j, k), Pair(y, q[j]), k - 1)
<1> DEFINE r == Dropped(q, j, k)
           m == k - 1
           s == Listed(x, q, k)
<1>1. m \in Nat /\ m + 1 = k
  OBVIOUS
<1>2. Listed(y, r, m) = Dropped(s, j, k)
  BY ListDropped
<1>3. Moved(q, j, k) = Pushed(r, q[j], m)
  BY DEF Moved
<1> HIDE DEF r, m, s
<1>4. \A i \in 1..m : Kept(y, y, r[i])
  BY DEF Kept
<1>5. Listed(y, Pushed(r, q[j], m), m + 1) = Pushed(Listed(y, r, m), Pair(y, q[j]), m)
  BY <1>1, <1>4, ListPushed
<1>6. QED
  BY <1>1, <1>2, <1>3, <1>5 DEF m, s

\* A hit is a use of its element
LEMMA HitUses ==
    ASSUME NEW S, NEW q, Sound(c, live, S, q, size), NEW j, Hit(q, j)
    PROVE  [Recency!Next]_recent
<1> DEFINE s == Listed(c, q, size)
           r == Moved(q, j, size)
<1>1. /\ j \in 1..size /\ size \in Nat /\ size' = size /\ SameData(c'.node, c.node)
  BY SoundIs DEF Hit
<1>2. PICK R : Sound(c', live', R, r, size')
  BY DEF Hit
<1>3. /\ s \in Seq(Element) /\ Len(s) = size /\ recent = s
      /\ \A i \in 1..size : q[i] \in Address /\ s[i] = Pair(c, q[i])
  BY ListedIs, RecentIs
<1>4. \A i \in 1..size : Kept(c', c, q[i])
  BY <1>1, <1>3 DEF Kept, Pair, SameData
<1>5. Listed(c', r, size) = Pushed(Dropped(s, j, size), Pair(c', q[j]), size - 1)
  BY <1>1, <1>4, ListMoved
<1>6. Pair(c', q[j]) = s[j]
  BY <1>1, <1>3, <1>4 DEF Kept
<1>7. recent' = Listed(c', r, size)
  BY <1>1, <1>2, RecentNext
<1> HIDE DEF s, r
<1>8. recent' = <<s[j]>> \o RemoveAt(s, j)
  <2>1. /\ RemoveAt(s, j) = Dropped(s, j, size) /\ RemoveAt(s, j) \in Seq(Element)
    BY <1>1, <1>3, DroppedIs
  <2>2. s[j] \in Element
    BY <1>1, <1>3, ElementOfSeq
  <2>3. Len(RemoveAt(s, j)) = size - 1
    <3>1. RemoveAt(s, j) = [i \in 1..(size - 1) |-> IF i < j THEN s[i] ELSE s[i + 1]]
      BY <2>1 DEF Dropped
    <3>2. DOMAIN RemoveAt(s, j) = 1..(size - 1)
      BY <3>1
    <3>3. QED
      BY <1>1, <2>1, <3>2, LenProperties
  <2>4. <<s[j]>> \o RemoveAt(s, j) = Pushed(RemoveAt(s, j), s[j], Len(RemoveAt(s, j)))
    BY <2>1, <2>2, PushedIs
  <2>5. QED
    BY <1>5, <1>6, <1>7, <2>1, <2>3, <2>4
<1>9. j \in DOMAIN recent
  BY <1>1, <1>3, LenProperties
<1>10. recent' = <<recent[j]>> \o RemoveAt(recent, j)
  BY <1>3, <1>8
<1>11. Recency!Use(j)
  BY <1>10 DEF Recency!Use, RemoveAt, Recency!RemoveAt
<1>12. QED
  BY <1>9, <1>11 DEF Recency!Next

\* An erased node is an erased element
LEMMA GoneErases ==
    ASSUME NEW S, NEW q, Sound(c, live, S, q, size), NEW j, Gone(q, j)
    PROVE  [Recency!Next]_recent
<1> DEFINE s == Listed(c, q, size)
           r == Dropped(q, j, size)
<1>1. /\ j \in 1..size /\ size \in Nat /\ size' = size - 1 /\ live' = live \ {q[j]}
      /\ KeepsData(c', c, live')
  BY SoundIs DEF Gone
<1>2. PICK R : Sound(c', live', R, r, size')
  BY DEF Gone
<1>3. /\ s \in Seq(Element) /\ Len(s) = size /\ recent = s
      /\ \A i \in 1..size : q[i] \in live
  BY ListedIs, RecentIs
<1>4. \A i \in 1..size : i # j => q[i] # q[j]
  <2>1. Ring(c.node, c.head, live, q, size)
    BY SoundIs
  <2>2. QED
    BY <1>1, <2>1 DEF Ring
<1>5. \A i \in 1..size : i # j => Kept(c', c, q[i])
  BY <1>1, <1>3, <1>4 DEF Kept, Pair, KeepsData
<1>6. Listed(c', r, size - 1) = Dropped(s, j, size)
  BY <1>1, <1>5, ListDropped
<1>7. recent' = Listed(c', r, size - 1)
  BY <1>1, <1>2, RecentNext
<1> HIDE DEF s, r
<1>8. RemoveAt(s, j) = Dropped(s, j, size)
  BY <1>1, <1>3, DroppedIs
<1>9. j \in DOMAIN recent
  BY <1>1, <1>3, LenProperties
<1>10. recent' = RemoveAt(recent, j)
  BY <1>3, <1>6, <1>7, <1>8
<1>11. Recency!Erase(j)
  BY <1>10 DEF Recency!Erase, RemoveAt, Recency!RemoveAt
<1>12. QED
  BY <1>9, <1>11 DEF Recency!Next

\* The key of an insert is no key of the list
LEMMA NoSuchKey ==
    ASSUME NEW S, NEW q, Sound(c, live, S, q, size), NEW k, \A z \in live : c.node[z].key # k
    PROVE  \A i \in DOMAIN recent : recent[i][1] # k
<1> DEFINE s == Listed(c, q, size)
<1>1. /\ s \in Seq(Element) /\ Len(s) = size /\ recent = s
      /\ \A i \in 1..size : q[i] \in live /\ s[i] = Pair(c, q[i])
  BY ListedIs, RecentIs
<1> HIDE DEF s
<1>2. DOMAIN recent = 1..size
  BY <1>1, LenProperties
<1>3. QED
  BY <1>1, <1>2 DEF Pair

\* A new node is a new element
LEMMA CameInserts ==
    ASSUME NEW S, NEW q, Sound(c, live, S, q, size), NEW n \in Node, NEW k \in Key,
           NEW v \in Value, Came(q, n, k, v)
    PROVE  [Recency!Next]_recent
<1> DEFINE s == Listed(c, q, size)
           r == Pushed(q, n, size)
           e == <<k, v>>
<1>1. /\ size \in Nat /\ size < Capacity /\ size' = size + 1 /\ n \in Address /\ n \notin live
      /\ DataSet(c'.node, c.node, n, k, v) /\ \A z \in live : c.node[z].key # k
  BY SoundIs DEF Came, Address
<1>2. PICK R : Sound(c', live', R, r, size')
  BY DEF Came
<1>3. /\ s \in Seq(Element) /\ Len(s) = size /\ recent = s
      /\ \A i \in 1..size : q[i] \in live /\ q[i] \in Address
  BY ListedIs, RecentIs
<1>4. \A i \in 1..size : Kept(c', c, q[i])
  BY <1>1, <1>3 DEF Kept, Pair, DataSet
<1>5. Pair(c', n) = e
  BY <1>1 DEF Pair, DataSet
<1>6. Listed(c', r, size + 1) = Pushed(s, Pair(c', n), size)
  BY <1>1, <1>4, ListPushed
<1>7. recent' = Listed(c', r, size + 1)
  BY <1>1, <1>2, RecentNext
<1>8. e \in Element
  BY CacheAssumption DEF Element
<1> HIDE DEF s, r, e
<1>9. <<e>> \o s = Pushed(s, e, size)
  BY <1>3, <1>8, PushedIs
<1>10. recent' = <<e>> \o recent /\ Len(recent) < Capacity
  BY <1>1, <1>3, <1>5, <1>6, <1>7, <1>9
<1>11. \A i \in DOMAIN recent : recent[i][1] # k
  BY <1>1, NoSuchKey
<1>12. Recency!Insert(k, v)
  BY <1>10, <1>11 DEF Recency!Insert, e
<1>13. QED
  BY <1>12 DEF Recency!Next

\* A new element in the last node is an insert into a full list
LEMMA EvictedInserts ==
    ASSUME NEW S, NEW q, Sound(c, live, S, q, size), NEW k \in Key, NEW v \in Value, Evicted(q, k, v)
    PROVE  [Recency!Next]_recent
<1> DEFINE s == Listed(c, q, size)
           r == Moved(q, size, size)
           e == <<k, v>>
           f == Dropped(s, size, size)
<1>1. /\ size \in Nat /\ size = Capacity /\ size > 0 /\ size \in 1..size /\ size' = size
      /\ DataSet(c'.node, c.node, q[size], k, v) /\ \A z \in live : c.node[z].key # k
  <2>1. size \in Nat /\ size = Capacity /\ size > 0
    BY SoundIs, CacheAssumption DEF Evicted
  <2>2. QED
    BY <2>1 DEF Evicted
<1>2. PICK R : Sound(c', live', R, r, size')
  BY DEF Evicted
<1>3. /\ s \in Seq(Element) /\ Len(s) = size /\ recent = s
      /\ \A i \in 1..size : q[i] \in Address
  BY ListedIs, RecentIs
<1>4. \A i \in 1..size : i # size => q[i] # q[size]
  <2>1. Ring(c.node, c.head, live, q, size)
    BY SoundIs
  <2>2. QED
    BY <1>1, <2>1 DEF Ring
<1>5. \A i \in 1..size : i # size => Kept(c', c, q[i])
  BY <1>1, <1>3, <1>4 DEF Kept, Pair, DataSet
<1>6. Pair(c', q[size]) = e
  BY <1>1, <1>3 DEF Pair, DataSet
<1>7. Listed(c', r, size) = Pushed(f, Pair(c', q[size]), size - 1)
  BY <1>1, <1>5, ListMoved
<1>8. recent' = Listed(c', r, size)
  BY <1>1, <1>2, RecentNext
<1>9. e \in Element
  BY CacheAssumption DEF Element
<1> HIDE DEF s, r, e
<1>10. /\ RemoveAt(s, size) = f /\ f \in Seq(Element)
  BY <1>1, <1>3, DroppedIs
<1>11. Len(f) = size - 1
  <2>1. DOMAIN f = 1..(size - 1)
    BY DEF Dropped
  <2>2. QED
    BY <1>1, <1>10, <2>1, LenProperties
<1>12. Front(s) = f
  BY <1>1, <1>3, <1>10, FrontIs
<1> HIDE DEF f
<1>13. <<e>> \o f = Pushed(f, e, size - 1)
  BY <1>9, <1>10, <1>11, PushedIs
<1>14. recent' = <<e>> \o Front(recent) /\ ~(Len(recent) < Capacity)
  BY <1>1, <1>3, <1>6, <1>7, <1>8, <1>12, <1>13
<1>15. \A i \in DOMAIN recent : recent[i][1] # k
  BY <1>1, NoSuchKey
<1>16. Recency!Insert(k, v)
  <2>1. recent' = <<<<k, v>>>> \o (IF Len(recent) < Capacity THEN recent ELSE Front(recent))
    BY <1>14 DEF e
  <2>2. QED
    BY <1>15, <2>1 DEF Recency!Insert, Front, Recency!Front
<1>17. QED
  BY <1>16 DEF Recency!Next

\* The initial list is empty
LEMMA InitRecency ==
    ASSUME Init PROVE Recency!Init
<1> DEFINE q == [i \in 1..0 |-> Null]
           s == Listed(c, q, 0)
<1>1. Sound(c, live, [x \in Pointer |-> {}], q, size) /\ size = 0
  BY InitSound DEF Init
<1> HIDE DEF q
<1>2. s \in Seq(Element) /\ Len(s) = 0 /\ recent = s
  BY <1>1, ListedIs, RecentIs
<1>3. s = << >>
  BY <1>2, EmptySeq
<1>4. QED
  BY <1>2, <1>3 DEF Recency!Init

\* Every step is one of the list of elements
LEMMA NextRecency ==
    ASSUME ~EraseLast, IInv, [Next]_vars PROVE [Recency!Next]_recent
<1>1. PICK S, q : Sound(c, live, S, q, size)
  BY DEF IInv
<1>2. \/ UNCHANGED vars
      \/ \E j : Hit(q, j)
      \/ \E n \in Node, k \in Key, v \in Value : Came(q, n, k, v)
      \/ \E k \in Key, v \in Value : Evicted(q, k, v)
      \/ \E j : Gone(q, j)
  BY <1>1, Steps
<1>3. CASE UNCHANGED vars
  <2>1. c' = c /\ size' = size
    BY <1>3 DEF vars
  <2>2. recent' = recent
    BY <2>1 DEF recent, Cycle
  <2>3. QED
    BY <2>2
<1>4. CASE \E j : Hit(q, j)
  BY <1>1, <1>4, HitUses
<1>5. CASE \E n \in Node, k \in Key, v \in Value : Came(q, n, k, v)
  BY <1>1, <1>5, CameInserts
<1>6. CASE \E k \in Key, v \in Value : Evicted(q, k, v)
  BY <1>1, <1>6, EvictedInserts
<1>7. CASE \E j : Gone(q, j)
  BY <1>1, <1>7, GoneErases
<1>8. QED
  BY <1>2, <1>3, <1>4, <1>5, <1>6, <1>7

-----------------------------------------------------------------------------
(* The properties of the runs.                                             *)

\* The fields keep their types
THEOREM CacheTypes ==
    ASSUME ~EraseLast PROVE Spec => []TypeOK
<1>1. IInv => TypeOK
  BY InvTypes
<1>2. QED
  BY Invariance, <1>1, PTL

\* head never points to a node that was freed
THEOREM HeadIsLive ==
    ASSUME ~EraseLast PROVE Spec => []HeadLive
<1>1. IInv => HeadLive
  BY InvTypes
<1>2. QED
  BY Invariance, <1>1, PTL

\* The list stays one cycle through exactly the allocated nodes, both ways
THEOREM ListIsSound ==
    ASSUME ~EraseLast PROVE Spec => []ListSound
<1>1. IInv => ListSound
  BY InvList
<1>2. QED
  BY Invariance, <1>1, PTL

\* The tree stays a search tree of exactly the allocated nodes
THEOREM TreeIsSound ==
    ASSUME ~EraseLast PROVE Spec => []TreeSound
<1>1. IInv => TreeSound
  BY InvTree
<1>2. QED
  BY Invariance, <1>1, PTL

\* ++ leads through all the elements in the order of their keys, and -- back
THEOREM IterationIsSorted ==
    ASSUME ~EraseLast PROVE Spec => []IterationSorted
<1>1. IInv => IterationSorted
  BY InvIteration
<1>2. QED
  BY Invariance, <1>1, PTL

\* No call moves an element that stays to another node
THEOREM IteratorsAreStable ==
    ASSUME ~EraseLast PROVE Spec => IteratorsStable
<1>1. IInv /\ [Next]_vars => [Stay]_vars
  BY StayStep
<1>2. Spec => [][Stay]_vars
  BY Invariance, <1>1, PTL DEF Spec
<1>3. QED
  BY <1>2 DEF IteratorsStable, Stay

\* The cache implements the list of elements by last use
THEOREM CacheImplementsList ==
    ASSUME ~EraseLast PROVE Spec => ImplementsRecencyList
<1>1. Init => Recency!Init
  BY InitRecency
<1>2. IInv /\ [Next]_vars => [Recency!Next]_recent
  BY NextRecency
<1>3. QED
  BY Invariance, <1>1, <1>2, PTL DEF Spec, ImplementsRecencyList, Recency!Spec
=============================================================================
