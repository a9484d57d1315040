---------------------- MODULE DeadlineContainer_proofs ----------------------
(***************************************************************************)
(* What the operations of DeadlineContainer keep and change, for every     *)
(* container, every number of queues and every length of a queue.          *)
(***************************************************************************)
EXTENDS DeadlineContainer, SequenceTheorems, WellFoundedInduction, TLAPS

-----------------------------------------------------------------------------
(* Sequences with one element put in or taken out.                         *)

\* The elements of a sequence after an insertion at position p: those from p on
\* move by one (std::list and std::multimap keep the order of the others)
LEMMA InsertAtElements ==
    ASSUME NEW S, NEW s \in Seq(S), NEW p \in 1..(Len(s) + 1), NEW e \in S
    PROVE  /\ InsertAt(s, p, e) \in Seq(S)
           /\ Len(InsertAt(s, p, e)) = Len(s) + 1
           /\ \A i \in 1..(Len(s) + 1) :
                  InsertAt(s, p, e)[i] = IF i < p THEN s[i]
                                         ELSE IF i = p THEN e ELSE s[i - 1]
<1> DEFINE before == SubSeq(s, 1, p - 1)
           after  == SubSeq(s, p, Len(s))
<1>1. /\ before \in Seq(S)
      /\ Len(before) = p - 1
      /\ \A i \in 1..(p - 1) : before[i] = s[i]
  BY SubSeqProperties
<1>2. /\ after \in Seq(S)
      /\ Len(after) = Len(s) - p + 1
      /\ \A i \in 1..(Len(s) - p + 1) : after[i] = s[p + i - 1]
  BY SubSeqProperties
<1> HIDE DEF before, after
<1>3. /\ before \o <<e>> \in Seq(S)
      /\ Len(before \o <<e>>) = p
      /\ \A i \in 1..p : (before \o <<e>>)[i] = IF i < p THEN s[i] ELSE e
  <2>1. <<e>> \in Seq(S) /\ Len(<<e>>) = 1 /\ <<e>>[1] = e
    OBVIOUS
  <2>2. QED
    BY <1>1, <2>1, ConcatProperties
<1>4. InsertAt(s, p, e) = (before \o <<e>>) \o after
  BY DEF InsertAt, before, after
<1> DEFINE front == before \o <<e>>
<1> HIDE DEF front
<1>5. front \in Seq(S) /\ Len(front) = p /\ \A i \in 1..p : front[i] = IF i < p THEN s[i] ELSE e
  BY <1>3 DEF front
<1>6. /\ front \o after \in Seq(S)
      /\ Len(front \o after) = Len(s) + 1
      /\ \A i \in 1..(Len(s) + 1) :
             (front \o after)[i] = IF i <= p THEN front[i] ELSE after[i - p]
  BY <1>2, <1>5, ConcatProperties
<1>7. \A i \in 1..(Len(s) + 1) : i > p => after[i - p] = s[i - 1]
  BY <1>2
<1>8. QED
  BY <1>4, <1>5, <1>6, <1>7 DEF front

\* The elements of a sequence after the one at position p is taken out
LEMMA RemoveAtElements ==
    ASSUME NEW S, NEW s \in Seq(S), NEW p \in 1..Len(s)
    PROVE  /\ RemoveAt(s, p) \in Seq(S)
           /\ Len(RemoveAt(s, p)) = Len(s) - 1
           /\ \A i \in 1..(Len(s) - 1) :
                  RemoveAt(s, p)[i] = IF i < p THEN s[i] ELSE s[i + 1]
<1> DEFINE before == SubSeq(s, 1, p - 1)
           after  == SubSeq(s, p + 1, Len(s))
<1>1. /\ before \in Seq(S)
      /\ Len(before) = p - 1
      /\ \A i \in 1..(p - 1) : before[i] = s[i]
  BY SubSeqProperties
<1>2. /\ after \in Seq(S)
      /\ Len(after) = Len(s) - p
      /\ \A i \in 1..(Len(s) - p) : after[i] = s[p + i]
  BY SubSeqProperties
<1> HIDE DEF before, after
<1>3. RemoveAt(s, p) = before \o after
  BY DEF RemoveAt, before, after
<1>4. /\ before \o after \in Seq(S)
      /\ Len(before \o after) = Len(s) - 1
      /\ \A i \in 1..(Len(s) - 1) :
             (before \o after)[i] = IF i <= p - 1 THEN before[i] ELSE after[i - (p - 1)]
  <2>1. /\ before \o after \in Seq(S)
        /\ Len(before \o after) = Len(before) + Len(after)
        /\ \A i \in 1..(Len(before) + Len(after)) :
               (before \o after)[i] = IF i <= Len(before) THEN before[i]
                                      ELSE after[i - Len(before)]
    BY <1>1, <1>2, ConcatProperties
  <2>2. Len(before) = p - 1 /\ Len(before) + Len(after) = Len(s) - 1
    BY <1>1, <1>2
  <2>3. QED
    BY <2>1, <2>2
<1>5. \A i \in 1..(Len(s) - 1) : i >= p => after[i - (p - 1)] = s[i + 1]
  BY <1>2
<1>6. QED
  BY <1>1, <1>3, <1>4, <1>5

\* A set of natural numbers that is not empty has a least element
LEMMA LeastExists ==
    ASSUME NEW T \in SUBSET Nat, T # {}
    PROVE  \E x \in T : \A y \in T : x <= y
<1>1. PICK x \in T : \A y \in T : ~ (<<y, x>> \in OpToRel(<, Nat))
  BY NatLessThanWellFounded, WFMin
<1>2. \A y \in T : ~ (y < x)
  BY <1>1 DEF OpToRel
<1>3. QED
  BY <1>2

\* In a multimap in order there is a position for a key: all before it have a
\* key that is not greater, it and all after it a greater one
LEMMA UpperBoundPosition ==
    ASSUME NEW m \in Seq(Entry), NEW k \in Nat,
           \A i, j \in 1..Len(m) : i <= j => m[i].key <= m[j].key
    PROVE  /\ UpperBound(m, k) \in 1..(Len(m) + 1)
           /\ \A i \in 1..(UpperBound(m, k) - 1) : m[i].key <= k
           /\ \A i \in UpperBound(m, k)..Len(m) : m[i].key > k
<1> DEFINE Fits(p) == /\ \A i \in 1..(p - 1) : m[i].key <= k
                      /\ \A i \in p..Len(m) : m[i].key > k
           Greater == {i \in 1..Len(m) : m[i].key > k}
<1>0. ASSUME NEW i \in 1..Len(m) PROVE m[i].key \in Nat
  <2>1. m[i] \in Entry
    BY ElementOfSeq
  <2>2. QED
    BY <2>1 DEF Entry
<1>1. \E p \in 1..(Len(m) + 1) : Fits(p)
  <2>1. CASE Greater = {}
    <3>1. Len(m) + 1 \in 1..(Len(m) + 1) /\ Fits(Len(m) + 1)
      BY <2>1, <1>0
    <3>2. QED
      BY <3>1
  <2>2. CASE Greater # {}
    <3>0. Greater \in SUBSET Nat
      OBVIOUS
    <3> HIDE DEF Greater
    <3>1. PICK p \in Greater : \A y \in Greater : p <= y
      BY <2>2, <3>0, LeastExists
    <3> USE DEF Greater
    <3>2. p \in 1..(Len(m) + 1) /\ Fits(p)
      BY <3>1, <1>0
    <3>3. QED
      BY <3>2
  <2>3. QED
    BY <2>1, <2>2
<1>2. QED
  BY <1>1 DEF UpperBound

\* An insertion keeps a multimap in order and puts the entry at its position
LEMMA MultimapInsertElements ==
    ASSUME NEW m \in Seq(Entry), NEW e \in Entry,
           \A i, j \in 1..Len(m) : i <= j => m[i].key <= m[j].key
    PROVE  LET r == MultimapInsert(m, e)
               p == UpperBound(m, e.key)
           IN  /\ r \in Seq(Entry)
               /\ Len(r) = Len(m) + 1
               /\ p \in 1..(Len(m) + 1)
               /\ \A i \in 1..Len(r) : r[i] = IF i < p THEN m[i]
                                             ELSE IF i = p THEN e ELSE m[i - 1]
               /\ \A i, j \in 1..Len(r) : i <= j => r[i].key <= r[j].key
<1> DEFINE r == MultimapInsert(m, e)
           p == UpperBound(m, e.key)
<1>1. e.key \in Nat
  BY DEF Entry
<1>2. /\ p \in 1..(Len(m) + 1)
      /\ \A i \in 1..(p - 1) : m[i].key <= e.key
      /\ \A i \in p..Len(m) : m[i].key > e.key
  BY <1>1, UpperBoundPosition
<1>3. /\ r \in Seq(Entry)
      /\ Len(r) = Len(m) + 1
      /\ \A i \in 1..(Len(m) + 1) : r[i] = IF i < p THEN m[i]
                                          ELSE IF i = p THEN e ELSE m[i - 1]
  <2>1. r = InsertAt(m, p, e)
    BY DEF MultimapInsert
  <2> HIDE DEF r, p
  <2>2. p \in 1..(Len(m) + 1)
    BY <1>2
  <2>3. /\ InsertAt(m, p, e) \in Seq(Entry)
        /\ Len(InsertAt(m, p, e)) = Len(m) + 1
        /\ \A i \in 1..(Len(m) + 1) :
               InsertAt(m, p, e)[i] = IF i < p THEN m[i]
                                      ELSE IF i = p THEN e ELSE m[i - 1]
    BY <2>2, InsertAtElements, SMT
  <2>4. QED
    BY <2>1, <2>3, Zenon
<1>4. \A i \in 1..Len(m) : m[i].key \in Nat
  <2> TAKE i \in 1..Len(m)
  <2>1. m[i] \in Entry
    BY ElementOfSeq
  <2>2. QED
    BY <2>1 DEF Entry
<1> HIDE DEF r, p
<1>5. ASSUME NEW i \in 1..Len(r), NEW j \in 1..Len(r), i <= j
      PROVE  r[i].key <= r[j].key
  <2>0. /\ i \in Int /\ j \in Int /\ p \in Int /\ i <= j
        /\ i \in 1..(Len(m) + 1) /\ j \in 1..(Len(m) + 1)
    BY <1>2, <1>3, <1>5
  <2>1. CASE j < p
    <3>1. r[i] = m[i] /\ r[j] = m[j] /\ i \in 1..Len(m) /\ j \in 1..Len(m)
      BY <1>2, <1>3, <2>0, <2>1
    <3>2. QED
      BY <2>0, <3>1
  <2>2. CASE j = p
    <3>1. CASE i = p
      BY <1>1, <1>3, <2>0, <2>2, <3>1
    <3>2. CASE i < p
      <4>1. r[i] = m[i] /\ r[j] = e /\ i \in 1..(p - 1)
        BY <1>3, <2>0, <2>2, <3>2
      <4>2. QED
        BY <1>2, <4>1
    <3>3. QED
      BY <2>0, <2>2, <3>1, <3>2
  <2>3. CASE j > p
    <3>1. r[j] = m[j - 1] /\ j - 1 \in p..Len(m) /\ j - 1 \in 1..Len(m)
      BY <1>2, <1>3, <2>0, <2>3
    <3>2. CASE i < p
      <4>1. r[i] = m[i] /\ i \in 1..Len(m) /\ i <= j - 1
        BY <1>2, <1>3, <2>0, <2>3, <3>2
      <4>2. QED
        BY <3>1, <4>1
    <3>3. CASE i = p
      <4>1. r[i] = e
        BY <1>3, <2>0, <3>3
      <4>2. m[j - 1].key > e.key /\ m[j - 1].key \in Nat
        BY <1>2, <1>4, <3>1
      <4>3. QED
        BY <1>1, <3>1, <4>1, <4>2
    <3>4. CASE i > p
      <4>1. r[i] = m[i - 1] /\ i - 1 \in 1..Len(m) /\ i - 1 <= j - 1
        BY <1>2, <1>3, <2>0, <3>4
      <4>2. QED
        BY <3>1, <4>1
    <3>5. QED
      BY <2>0, <3>2, <3>3, <3>4
  <2>4. QED
    BY <2>0, <2>1, <2>2, <2>3
<1>6. QED
  BY <1>2, <1>3, <1>5 DEF r, p

\* Erasing by iterator takes out the element it points to and keeps the order of
\* the others
LEMMA ListEraseElements ==
    ASSUME NEW S, NEW s \in Seq(S), NEW e, \E i \in 1..Len(s) : s[i] = e
    PROVE  LET r == ListErase(s, e)
               p == IndexOf(s, e)
           IN  /\ r \in Seq(S)
               /\ Len(r) = Len(s) - 1
               /\ p \in 1..Len(s)
               /\ s[p] = e
               /\ \A i \in 1..Len(r) : r[i] = IF i < p THEN s[i] ELSE s[i + 1]
<1>1. IndexOf(s, e) \in 1..Len(s) /\ s[IndexOf(s, e)] = e
  BY DEF IndexOf
<1>2. QED
  BY <1>1, RemoveAtElements DEF ListErase
-----------------------------------------------------------------------------
(* One queue: the nodes of a timeout, by deadline, one per client.         *)

GoodQueue(q, t) ==
    /\ q \in Seq(Wrapper)
    /\ \A i \in 1..Len(q) : q[i].timeout = t
    /\ \A i, j \in 1..Len(q) : q[i].client = q[j].client => i = j
    /\ \A i, j \in 1..Len(q) : i <= j => q[i].deadline <= q[j].deadline

In(q, x) == \E i \in 1..Len(q) : q[i] = x

\* The fields of a node have their types
LEMMA WrapperFields ==
    ASSUME NEW n \in Wrapper
    PROVE  n.timeout \in Timeout /\ n.deadline \in Nat /\ n.client \in Client
BY DEF Wrapper

\* push_back of a node that is not before the others keeps a queue good
LEMMA QueueAppend ==
    ASSUME NEW t, NEW q, GoodQueue(q, t),
           NEW n \in Wrapper, n.timeout = t,
           \A i \in 1..Len(q) : q[i].deadline <= n.deadline,
           \A i \in 1..Len(q) : q[i].client # n.client
    PROVE  LET r == Append(q, n)
           IN  /\ GoodQueue(r, t)
               /\ Len(r) = Len(q) + 1
               /\ r[Len(r)] = n
               /\ \A x : In(r, x) <=> x = n \/ In(q, x)
               /\ Len(q) > 0 => r[1] = q[1]
               /\ Len(q) = 0 => r[1] = n
<1> DEFINE r == Append(q, n)
<1>0. q \in Seq(Wrapper) /\ Len(q) \in Nat
  BY LenProperties DEF GoodQueue
<1>1. /\ r \in Seq(Wrapper)
      /\ Len(r) = Len(q) + 1
      /\ \A i \in 1..Len(q) : r[i] = q[i]
      /\ r[Len(q) + 1] = n
  BY <1>0
<1> HIDE DEF r
<1>2. \A i \in 1..Len(r) : i \in 1..Len(q) \/ i = Len(q) + 1
  BY <1>0, <1>1
<1>3. \A i \in 1..Len(r) : r[i].timeout = t
  BY <1>1, <1>2 DEF GoodQueue
<1>4. \A i, j \in 1..Len(r) : r[i].client = r[j].client => i = j
  BY <1>1, <1>2 DEF GoodQueue
<1>5. ASSUME NEW i \in 1..Len(r), NEW j \in 1..Len(r), i <= j
      PROVE  r[i].deadline <= r[j].deadline
  <2>1. CASE j \in 1..Len(q)
    <3>1. i \in 1..Len(q)
      BY <1>0, <1>1, <1>5, <2>1
    <3>2. QED
      BY <1>1, <1>5, <2>1, <3>1 DEF GoodQueue
  <2>2. CASE j = Len(q) + 1
    <3>1. CASE i \in 1..Len(q)
      BY <1>1, <2>2, <3>1
    <3>2. CASE i = Len(q) + 1
      BY <1>1, <2>2, <3>2, WrapperFields
    <3>3. QED
      BY <1>2, <3>1, <3>2
  <2>3. QED
    BY <1>2, <2>1, <2>2
<1>6. \A x : In(r, x) <=> x = n \/ In(q, x)
  BY <1>0, <1>1, <1>2 DEF In
<1>7. GoodQueue(r, t)
  BY <1>1, <1>3, <1>4, <1>5 DEF GoodQueue
<1>8. (Len(q) > 0 => r[1] = q[1]) /\ (Len(q) = 0 => r[1] = n)
  BY <1>0, <1>1
<1>9. QED
  BY <1>1, <1>6, <1>7, <1>8 DEF r

\* Erasing a node keeps a queue good, and its head unless it was the head
LEMMA QueueErase ==
    ASSUME NEW t, NEW q, GoodQueue(q, t), NEW it, In(q, it)
    PROVE  LET r == ListErase(q, it)
           IN  /\ GoodQueue(r, t)
               /\ Len(r) = Len(q) - 1
               /\ \A x : In(r, x) <=> x # it /\ In(q, x)
               /\ q[1] # it => Len(r) > 0 /\ r[1] = q[1]
<1> DEFINE r == ListErase(q, it)
           p == IndexOf(q, it)
<1>0. q \in Seq(Wrapper) /\ Len(q) \in Nat
  BY LenProperties DEF GoodQueue
<1>1. /\ r \in Seq(Wrapper)
      /\ Len(r) = Len(q) - 1
      /\ p \in 1..Len(q)
      /\ q[p] = it
      /\ \A i \in 1..Len(r) : r[i] = IF i < p THEN q[i] ELSE q[i + 1]
  BY <1>0, ListEraseElements DEF In
<1> HIDE DEF r, p
<1> DEFINE old(i) == IF i < p THEN i ELSE i + 1
<1>2. ASSUME NEW i \in 1..Len(r)
      PROVE  /\ old(i) \in 1..Len(q) /\ old(i) # p /\ r[i] = q[old(i)]
             /\ \A j \in 1..Len(r) : i <= j => old(i) <= old(j)
             /\ \A j \in 1..Len(r) : old(i) = old(j) => i = j
  BY <1>0, <1>1
<1>3. ASSUME NEW i \in 1..Len(q), i # p
      PROVE  \E j \in 1..Len(r) : old(j) = i
  <2>1. CASE i < p
    BY <1>0, <1>1, <2>1
  <2>2. CASE i > p
    <3>1. i - 1 \in 1..Len(r) /\ old(i - 1) = i
      BY <1>0, <1>1, <2>2
    <3>2. QED
      BY <3>1
  <2>3. QED
    BY <1>0, <1>1, <1>3, <2>1, <2>2
<1> HIDE DEF old
<1>4. GoodQueue(r, t)
  <2>1. ASSUME NEW i \in 1..Len(r), NEW j \in 1..Len(r)
        PROVE  /\ r[i].timeout = t
               /\ r[i].client = r[j].client => i = j
               /\ i <= j => r[i].deadline <= r[j].deadline
    <3>1. /\ old(i) \in 1..Len(q) /\ r[i] = q[old(i)]
          /\ old(j) \in 1..Len(q) /\ r[j] = q[old(j)]
          /\ i <= j => old(i) <= old(j)
          /\ old(i) = old(j) => i = j
      BY <1>2
    <3>2. QED
      BY <3>1 DEF GoodQueue
  <2>2. QED
    BY <1>1, <2>1 DEF GoodQueue
<1>5. \A x : In(r, x) <=> x # it /\ In(q, x)
  <2>1. ASSUME NEW i \in 1..Len(q), i # p PROVE q[i] # it
    BY <1>1, <2>1 DEF GoodQueue
  <2>2. ASSUME NEW x, In(r, x) PROVE x # it /\ In(q, x)
    <3>1. PICK i \in 1..Len(r) : r[i] = x
      BY <2>2 DEF In
    <3>2. old(i) \in 1..Len(q) /\ old(i) # p /\ q[old(i)] = x
      BY <1>2, <3>1
    <3>3. QED
      BY <2>1, <3>2 DEF In
  <2>3. ASSUME NEW x, x # it, In(q, x) PROVE In(r, x)
    <3>1. PICK i \in 1..Len(q) : q[i] = x
      BY <2>3 DEF In
    <3>2. PICK j \in 1..Len(r) : old(j) = i
      BY <1>1, <1>3, <2>3, <3>1
    <3>3. r[j] = x
      BY <1>2, <3>1, <3>2
    <3>4. QED
      BY <3>3 DEF In
  <2>4. QED
    BY <2>2, <2>3
<1>6. q[1] # it => Len(r) > 0 /\ r[1] = q[1]
  BY <1>0, <1>1
<1>7. QED
  BY <1>1, <1>4, <1>5, <1>6 DEF r

\* What update does to a queue: the node leaves its place and a node with the
\* new deadline, not before the others, is at the tail
LEMMA QueueUpdate ==
    ASSUME NEW t, NEW q, GoodQueue(q, t), NEW it, In(q, it), NEW d \in Nat,
           \A i \in 1..Len(q) : q[i].deadline <= d
    PROVE  LET r == UpdateList(q, it, d)
           IN  /\ GoodQueue(r, t)
               /\ Len(r) = Len(q)
               /\ Len(r) > 0
               /\ r[Len(r)] = Renewed(it, d)
               /\ \A x : In(r, x) <=> x = Renewed(it, d) \/ (x # it /\ In(q, x))
               /\ q[1] # it => r[1] = q[1]
<1> DEFINE e == ListErase(q, it)
           n == Renewed(it, d)
           r == Append(e, n)
<1>0. q \in Seq(Wrapper) /\ Len(q) \in Nat
  BY LenProperties DEF GoodQueue
<1>1. /\ GoodQueue(e, t)
      /\ Len(e) = Len(q) - 1
      /\ \A x : In(e, x) <=> x # it /\ In(q, x)
      /\ q[1] # it => Len(e) > 0 /\ e[1] = q[1]
  BY QueueErase
<1>2. it \in Wrapper /\ it.timeout = t
  BY <1>0, ElementOfSeq DEF In, GoodQueue
<1>3. /\ n \in Wrapper /\ n.timeout = t /\ n.deadline = d /\ n.client = it.client
  BY <1>2 DEF Renewed, Wrapper
<1> HIDE DEF e, n
<1>4. ASSUME NEW i \in 1..Len(e)
      PROVE  e[i].deadline <= n.deadline /\ e[i].client # n.client
  <2>1. In(e, e[i])
    BY DEF In
  <2>2. PICK j \in 1..Len(q) : q[j] = e[i] /\ q[j] # it
    BY <1>1, <2>1 DEF In
  <2>3. PICK k \in 1..Len(q) : q[k] = it
    BY DEF In
  <2>4. QED
    BY <1>3, <2>2, <2>3 DEF GoodQueue
<1>5. /\ GoodQueue(r, t)
      /\ Len(r) = Len(e) + 1
      /\ r[Len(r)] = n
      /\ \A x : In(r, x) <=> x = n \/ In(e, x)
      /\ Len(e) > 0 => r[1] = e[1]
  <2> HIDE DEF r
  <2>1. r = Append(e, n)
    BY DEF r
  <2>2. QED
    BY <1>1, <1>3, <1>4, <2>1, QueueAppend
<1>6. r = UpdateList(q, it, d)
  BY DEF r, e, n, UpdateList
<1> HIDE DEF r
<1>7. Len(e) \in Nat
  BY <1>1, LenProperties DEF GoodQueue
<1>8. QED
  BY <1>0, <1>1, <1>5, <1>6, <1>7 DEF n

-----------------------------------------------------------------------------
(* The index: the two maps of iterators and the multimap, over the heads of *)
(* the queues.  head is a function from timeouts to deadlines.             *)

HeadOf(ts) == [t \in DOMAIN ts |-> ts[t][1].deadline]

GoodIndex(head, its, m) ==
    /\ DOMAIN head \subseteq Timeout
    /\ \A t \in DOMAIN head : head[t] \in Nat
    /\ its = [t \in DOMAIN head |-> [key |-> head[t], queue |-> t]]
    /\ m \in Seq(Entry)
    /\ \A t \in DOMAIN head : In(m, its[t])
    /\ \A i \in 1..Len(m) : m[i].queue \in DOMAIN head /\ m[i] = its[m[i].queue]
    /\ \A i, j \in 1..Len(m) : m[i].queue = m[j].queue => i = j
    /\ \A i, j \in 1..Len(m) : i <= j => m[i].key <= m[j].key

\* A new queue enters the index
LEMMA IndexInsert ==
    ASSUME NEW head, NEW its, NEW m, GoodIndex(head, its, m),
           NEW t \in Timeout, t \notin DOMAIN head, NEW k \in Nat
    PROVE  LET e == [key |-> k, queue |-> t]
           IN  GoodIndex(MapInsert(head, t, k), MapInsert(its, t, e), MultimapInsert(m, e))
<1> DEFINE e  == [key |-> k, queue |-> t]
           h1 == MapInsert(head, t, k)
           i1 == MapInsert(its, t, e)
           r  == MultimapInsert(m, e)
           p  == UpperBound(m, e.key)
           old(i) == IF i < p THEN i ELSE i - 1
<1>0. /\ m \in Seq(Entry) /\ Len(m) \in Nat
      /\ e \in Entry /\ e.key = k /\ e.queue = t
  BY LenProperties DEF GoodIndex, Entry
<1>1. /\ r \in Seq(Entry)
      /\ Len(r) = Len(m) + 1
      /\ p \in 1..(Len(m) + 1)
      /\ \A i \in 1..Len(r) : r[i] = IF i < p THEN m[i]
                                    ELSE IF i = p THEN e ELSE m[i - 1]
      /\ \A i, j \in 1..Len(r) : i <= j => r[i].key <= r[j].key
  <2> HIDE DEF e
  <2>1. \A i, j \in 1..Len(m) : i <= j => m[i].key <= m[j].key
    BY DEF GoodIndex
  <2>2. QED
    BY <1>0, <2>1, MultimapInsertElements
<1>2. /\ DOMAIN h1 = DOMAIN head \cup {t} /\ DOMAIN i1 = DOMAIN head \cup {t}
      /\ h1[t] = k /\ i1[t] = e
      /\ \A x \in DOMAIN head : h1[x] = head[x] /\ i1[x] = its[x] /\ x # t
  BY DEF MapInsert, GoodIndex
<1>3. i1 = [x \in DOMAIN h1 |-> [key |-> h1[x], queue |-> x]]
  BY DEF MapInsert, GoodIndex
<1> HIDE DEF e, h1, i1, r, p
<1>4. ASSUME NEW i \in 1..Len(r), i # p
      PROVE  old(i) \in 1..Len(m) /\ r[i] = m[old(i)]
  BY <1>0, <1>1, <1>4
<1>5. ASSUME NEW i \in 1..Len(r), NEW j \in 1..Len(r), i # p, j # p, old(i) = old(j)
      PROVE  i = j
  BY <1>0, <1>1, <1>5
<1>6. ASSUME NEW j \in 1..Len(m) PROVE In(r, m[j])
  <2>1. CASE j < p
    BY <1>0, <1>1, <2>1 DEF In
  <2>2. CASE j >= p
    <3>1. j + 1 \in 1..Len(r) /\ r[j + 1] = m[j]
      BY <1>0, <1>1, <2>2
    <3>2. QED
      BY <3>1 DEF In
  <2>3. QED
    BY <1>0, <1>1, <2>1, <2>2
<1> HIDE DEF old
<1>7. r[p] = e /\ p \in 1..Len(r)
  BY <1>0, <1>1
<1>8. ASSUME NEW i \in 1..Len(r), i # p
      PROVE  r[i].queue \in DOMAIN head /\ r[i] = its[r[i].queue]
  BY <1>4, <1>8 DEF GoodIndex
<1>9. \A i \in 1..Len(r) : r[i].queue \in DOMAIN h1 /\ r[i] = i1[r[i].queue]
  BY <1>0, <1>2, <1>7, <1>8
<1>10. ASSUME NEW i \in 1..Len(r), NEW j \in 1..Len(r), r[i].queue = r[j].queue
       PROVE  i = j
  <2>1. CASE i # p /\ j # p
    <3>1. old(i) = old(j)
      BY <1>4, <1>10, <2>1 DEF GoodIndex
    <3>2. QED
      BY <1>5, <2>1, <3>1
  <2>2. CASE i = p \/ j = p
    BY <1>0, <1>2, <1>7, <1>8, <1>10, <2>2
  <2>3. QED
    BY <2>1, <2>2
<1>11. ASSUME NEW x \in DOMAIN h1 PROVE In(r, i1[x])
  <2>1. CASE x = t
    BY <1>2, <1>7, <2>1 DEF In
  <2>2. CASE x \in DOMAIN head
    <3>1. PICK j \in 1..Len(m) : m[j] = its[x]
      BY <2>2 DEF GoodIndex, In
    <3>2. QED
      BY <1>2, <1>6, <2>2, <3>1
  <2>3. QED
    BY <1>2, <2>1, <2>2
<1>12. DOMAIN h1 \subseteq Timeout /\ \A x \in DOMAIN h1 : h1[x] \in Nat
  BY <1>2 DEF GoodIndex
<1>13. GoodIndex(h1, i1, r)
  BY <1>1, <1>3, <1>9, <1>10, <1>11, <1>12 DEF GoodIndex
<1>14. QED
  BY <1>13 DEF h1, i1, r, e

\* A queue leaves the index
LEMMA IndexErase ==
    ASSUME NEW head, NEW its, NEW m, GoodIndex(head, its, m), NEW t \in DOMAIN head
    PROVE  GoodIndex(MapErase(head, t), MapErase(its, t), ListErase(m, its[t]))
<1> DEFINE h1 == MapErase(head, t)
           i1 == MapErase(its, t)
           r  == ListErase(m, its[t])
           p  == IndexOf(m, its[t])
           old(i) == IF i < p THEN i ELSE i + 1
<1>0. m \in Seq(Entry) /\ Len(m) \in Nat /\ In(m, its[t])
  BY LenProperties DEF GoodIndex
<1>1. /\ r \in Seq(Entry)
      /\ Len(r) = Len(m) - 1
      /\ p \in 1..Len(m)
      /\ m[p] = its[t]
      /\ \A i \in 1..Len(r) : r[i] = IF i < p THEN m[i] ELSE m[i + 1]
  BY <1>0, ListEraseElements DEF In
<1>2. /\ DOMAIN h1 = DOMAIN head \ {t} /\ DOMAIN i1 = DOMAIN head \ {t}
      /\ \A x \in DOMAIN h1 : h1[x] = head[x] /\ i1[x] = its[x]
  BY DEF MapErase, GoodIndex
<1>3. i1 = [x \in DOMAIN h1 |-> [key |-> h1[x], queue |-> x]]
  BY DEF MapErase, GoodIndex
<1>4. its[t].queue = t
  BY DEF GoodIndex
<1> HIDE DEF h1, i1, r, p
<1>5. ASSUME NEW i \in 1..Len(r)
      PROVE  /\ old(i) \in 1..Len(m) /\ old(i) # p /\ r[i] = m[old(i)]
             /\ \A j \in 1..Len(r) : i <= j => old(i) <= old(j)
             /\ \A j \in 1..Len(r) : old(i) = old(j) => i = j
  BY <1>0, <1>1
<1>6. ASSUME NEW j \in 1..Len(m), j # p PROVE In(r, m[j])
  <2>1. CASE j < p
    BY <1>0, <1>1, <2>1 DEF In
  <2>2. CASE j > p
    <3>1. j - 1 \in 1..Len(r) /\ r[j - 1] = m[j]
      BY <1>0, <1>1, <2>2
    <3>2. QED
      BY <3>1 DEF In
  <2>3. QED
    BY <1>0, <1>1, <1>6, <2>1, <2>2
<1> HIDE DEF old
<1>7. ASSUME NEW i \in 1..Len(r)
      PROVE  r[i].queue \in DOMAIN h1 /\ r[i] = i1[r[i].queue]
  <2>1. m[old(i)].queue # t
    BY <1>1, <1>4, <1>5 DEF GoodIndex
  <2>2. /\ m[old(i)].queue \in DOMAIN head
        /\ m[old(i)] = its[m[old(i)].queue]
    BY <1>5 DEF GoodIndex
  <2>3. QED
    BY <1>2, <1>5, <2>1, <2>2
<1>8. ASSUME NEW i \in 1..Len(r), NEW j \in 1..Len(r)
      PROVE  /\ r[i].queue = r[j].queue => i = j
             /\ i <= j => r[i].key <= r[j].key
  <2>1. /\ old(i) \in 1..Len(m) /\ r[i] = m[old(i)]
        /\ old(j) \in 1..Len(m) /\ r[j] = m[old(j)]
        /\ i <= j => old(i) <= old(j)
        /\ old(i) = old(j) => i = j
    BY <1>5
  <2>2. QED
    BY <2>1 DEF GoodIndex
<1>9. ASSUME NEW x \in DOMAIN h1 PROVE In(r, i1[x])
  <2>1. PICK j \in 1..Len(m) : m[j] = its[x]
    BY <1>2 DEF GoodIndex, In
  <2>2. j # p
    BY <1>1, <1>2, <1>4, <2>1 DEF GoodIndex
  <2>3. QED
    BY <1>2, <1>6, <2>1, <2>2
<1>10. DOMAIN h1 \subseteq Timeout /\ \A x \in DOMAIN h1 : h1[x] \in Nat
  BY <1>2 DEF GoodIndex
<1>11. GoodIndex(h1, i1, r)
  BY <1>1, <1>3, <1>7, <1>8, <1>9, <1>10 DEF GoodIndex
<1>12. QED
  BY <1>11 DEF h1, i1, r
-----------------------------------------------------------------------------
(* The container: its queues and its index.                                *)

GoodQueues(ts) ==
    /\ ts = [t \in DOMAIN ts |-> ts[t]]
    /\ DOMAIN ts \subseteq Timeout
    /\ \A t \in DOMAIN ts : GoodQueue(ts[t], t) /\ Len(ts[t]) > 0

GoodContainer(dc) ==
    /\ dc = [timeouts           |-> dc.timeouts,
             multimap_iterators |-> dc.multimap_iterators,
             deadlines          |-> dc.deadlines]
    /\ GoodQueues(dc.timeouts)
    /\ GoodIndex(HeadOf(dc.timeouts), dc.multimap_iterators, dc.deadlines)

\* The head of a queue is a node: its deadline is a number
LEMMA HeadDeadline ==
    ASSUME NEW ts, GoodQueues(ts), NEW t \in DOMAIN ts
    PROVE  ts[t][1] \in Wrapper /\ ts[t][1].deadline \in Nat
<1>1. ts[t] \in Seq(Wrapper) /\ Len(ts[t]) > 0
  BY DEF GoodQueues, GoodQueue
<1>2. ts[t][1] \in Wrapper
  BY <1>1, ElementOfSeq, LenProperties
<1>3. QED
  BY <1>2, WrapperFields

\* The two ways to say that a container is as it should be
LEMMA GoodContainerSuffices ==
    ASSUME NEW dc, GoodContainer(dc)
    PROVE  ContainerType(dc) /\ Consistent(dc)
<1> DEFINE ts == dc.timeouts
           its == dc.multimap_iterators
           m == dc.deadlines
<1>1. GoodQueues(ts) /\ GoodIndex(HeadOf(ts), its, m)
  BY DEF GoodContainer
<1>2. DOMAIN HeadOf(ts) = DOMAIN ts /\ \A t \in DOMAIN ts : HeadOf(ts)[t] = ts[t][1].deadline
  BY DEF HeadOf
<1>3. its = [t \in DOMAIN ts |-> [key |-> ts[t][1].deadline, queue |-> t]]
  BY <1>1, <1>2 DEF GoodIndex
<1>4. ContainerType(dc)
  <2>1. \A t \in DOMAIN its : its[t] \in Entry
    <3> TAKE t \in DOMAIN its
    <3>1. t \in DOMAIN ts /\ t \in Timeout
      BY <1>1, <1>3 DEF GoodQueues
    <3>2. ts[t][1].deadline \in Nat
      BY <1>1, <3>1, HeadDeadline
    <3>3. QED
      BY <1>3, <3>1, <3>2 DEF Entry
  <2>2. its = [t \in DOMAIN its |-> its[t]] /\ DOMAIN its = DOMAIN ts
    BY <1>3
  <2>3. QED
    BY <1>1, <2>1, <2>2 DEF ContainerType, GoodContainer, GoodQueues, GoodQueue, GoodIndex
<1>5. QueuesWellFormed(dc) /\ QueuesSorted(dc)
  BY <1>1 DEF QueuesWellFormed, QueuesSorted, GoodQueues, GoodQueue
<1>6. IteratorsFresh(dc)
  BY <1>1, <1>2, <1>3 DEF IteratorsFresh, GoodIndex, In
<1>7. MultimapExact(dc)
  BY <1>1, <1>2 DEF MultimapExact, GoodIndex
<1>8. QED
  BY <1>4, <1>5, <1>6, <1>7 DEF Consistent

\* Conversely, a consistent container of the right type is good
LEMMA GoodContainerNecessary ==
    ASSUME NEW dc, ContainerType(dc), Consistent(dc)
    PROVE  GoodContainer(dc)
<1> DEFINE ts == dc.timeouts
           its == dc.multimap_iterators
           m == dc.deadlines
<1>1. GoodQueues(ts)
  BY DEF ContainerType, Consistent, QueuesWellFormed, QueuesSorted, GoodQueues, GoodQueue
<1>2. DOMAIN HeadOf(ts) = DOMAIN ts /\ \A t \in DOMAIN ts : HeadOf(ts)[t] = ts[t][1].deadline
  BY DEF HeadOf
<1>3. its = [t \in DOMAIN HeadOf(ts) |-> [key |-> HeadOf(ts)[t], queue |-> t]]
  <2>1. its = [t \in DOMAIN its |-> its[t]]
    BY DEF ContainerType
  <2>2. DOMAIN its = DOMAIN ts
    BY DEF Consistent, IteratorsFresh
  <2>3. \A t \in DOMAIN ts : its[t] = [key |-> HeadOf(ts)[t], queue |-> t]
    BY <1>2 DEF Consistent, IteratorsFresh
  <2>4. QED
    BY <1>2, <2>1, <2>2, <2>3
<1>4. \A t \in DOMAIN HeadOf(ts) : HeadOf(ts)[t] \in Nat
  BY <1>1, <1>2, HeadDeadline
<1>5. GoodIndex(HeadOf(ts), its, m)
  <2>1. DOMAIN HeadOf(ts) \subseteq Timeout /\ m \in Seq(Entry)
    BY <1>2 DEF ContainerType
  <2>2. \A t \in DOMAIN HeadOf(ts) : In(m, its[t])
    BY <1>2 DEF Consistent, IteratorsFresh, In
  <2>3. /\ \A i \in 1..Len(m) : m[i].queue \in DOMAIN HeadOf(ts) /\ m[i] = its[m[i].queue]
        /\ \A i, j \in 1..Len(m) : m[i].queue = m[j].queue => i = j
        /\ \A i, j \in 1..Len(m) : i <= j => m[i].key <= m[j].key
    BY <1>2 DEF Consistent, MultimapExact
  <2>4. QED
    BY <1>3, <1>4, <2>1, <2>2, <2>3 DEF GoodIndex
<1>6. QED
  BY <1>1, <1>5 DEF GoodContainer, ContainerType

\* Replacing one queue by a good one that has the same head leaves the index right
LEMMA ReplaceQueue ==
    ASSUME NEW dc, GoodContainer(dc), NEW t \in DOMAIN dc.timeouts,
           NEW q, GoodQueue(q, t), Len(q) > 0, q[1] = dc.timeouts[t][1]
    PROVE  LET d1 == [dc EXCEPT !.timeouts[t] = q]
           IN  /\ GoodContainer(d1)
               /\ DOMAIN d1.timeouts = DOMAIN dc.timeouts
               /\ d1.timeouts[t] = q
               /\ \A x \in DOMAIN dc.timeouts : x # t => d1.timeouts[x] = dc.timeouts[x]
<1> DEFINE ts == dc.timeouts
           ts1 == [ts EXCEPT ![t] = q]
           d1 == [timeouts           |-> ts1,
                  multimap_iterators |-> dc.multimap_iterators,
                  deadlines          |-> dc.deadlines]
<1>1. [dc EXCEPT !.timeouts[t] = q] = d1
  BY DEF GoodContainer
<1>2. ts = [x \in DOMAIN ts |-> ts[x]] /\ GoodQueues(ts)
  BY DEF GoodContainer, GoodQueues
<1>3. /\ DOMAIN ts1 = DOMAIN ts
      /\ ts1[t] = q
      /\ \A x \in DOMAIN ts : x # t => ts1[x] = ts[x]
  BY <1>2
<1>4. GoodQueues(ts1)
  BY <1>2, <1>3 DEF GoodQueues
<1>5. HeadOf(ts1) = HeadOf(ts)
  BY <1>3 DEF HeadOf
<1>6. GoodContainer(d1)
  BY <1>4, <1>5 DEF GoodContainer
<1>7. QED
  BY <1>1, <1>3, <1>6

\* A node that may be used is one of the queue of its timeout
LEMMA InQueueIn ==
    ASSUME NEW dc, NEW x
    PROVE  InQueue(dc, x) <=> /\ x.timeout \in DOMAIN dc.timeouts
                              /\ In(dc.timeouts[x.timeout], x)
BY DEF InQueue, In

\* An empty container is good
LEMMA NewContainerGood == GoodContainer(NewContainer)
<1>1. GoodQueues([t \in {} |-> <<>>])
  BY DEF GoodQueues
<1>2. <<>> \in Seq(Entry) /\ Len(<<>>) = 0
  OBVIOUS
<1>3. GoodIndex(HeadOf([t \in {} |-> <<>>]), [t \in {} |-> <<>>], <<>>)
  BY <1>2 DEF GoodIndex, HeadOf
<1>4. QED
  BY <1>1, <1>3 DEF GoodContainer, NewContainer

\* add keeps the container good and adds exactly the given node, whether its
\* queue exists or is made by the call (deadline_container.cpp:35-47)
LEMMA AddCorrect ==
    ASSUME NEW dc, GoodContainer(dc), NEW n \in Wrapper,
           NotBefore(dc, n.timeout, n.deadline),
           \A x : InQueue(dc, x) => x.client # n.client
    PROVE  /\ GoodContainer(Add(dc, n))
           /\ \A x : InQueue(Add(dc, n), x) <=> x = n \/ InQueue(dc, x)
<1> DEFINE t == n.timeout
           ts == dc.timeouts
<1>1. t \in Timeout /\ n.deadline \in Nat /\ GoodQueues(ts)
  BY WrapperFields DEF GoodContainer
<1>2. CASE t \in DOMAIN ts
  <2> DEFINE q == Append(ts[t], n)
             d1 == [dc EXCEPT !.timeouts[t] = q]
  <2>1. GoodQueue(ts[t], t) /\ Len(ts[t]) > 0
    BY <1>1, <1>2 DEF GoodQueues
  <2>2. ASSUME NEW i \in 1..Len(ts[t])
        PROVE  ts[t][i].deadline <= n.deadline /\ ts[t][i].client # n.client
    <3>1. ts[t][i].timeout = t
      BY <2>1 DEF GoodQueue
    <3>2. InQueue(dc, ts[t][i])
      BY <1>2, <3>1 DEF InQueue
    <3>3. QED
      BY <1>2, <3>2 DEF NotBefore
  <2>3. /\ GoodQueue(q, t) /\ Len(q) = Len(ts[t]) + 1
        /\ \A x : In(q, x) <=> x = n \/ In(ts[t], x)
        /\ q[1] = ts[t][1]
    <3> HIDE DEF t, ts
    <3>1. n.timeout = t
      BY DEF t
    <3>2. QED
      BY <2>1, <2>2, <3>1, QueueAppend
  <2>4. Len(q) > 0
    BY <2>1, <2>3, LenProperties DEF GoodQueue
  <2> HIDE DEF q
  <2>5. /\ GoodContainer(d1)
        /\ DOMAIN d1.timeouts = DOMAIN ts
        /\ d1.timeouts[t] = q
        /\ \A x \in DOMAIN ts : x # t => d1.timeouts[x] = ts[x]
    BY <1>2, <2>3, <2>4, ReplaceQueue
  <2>6. Add(dc, n) = d1
    BY <1>2 DEF Add, q
  <2> HIDE DEF d1
  <2>7. ASSUME NEW x PROVE InQueue(d1, x) <=> x = n \/ InQueue(dc, x)
    <3>1. CASE x.timeout = t
      <4>1. InQueue(d1, x) <=> In(q, x)
        BY <1>2, <2>5, <3>1, InQueueIn
      <4>2. InQueue(dc, x) <=> In(ts[t], x)
        BY <1>2, <3>1, InQueueIn
      <4>3. QED
        BY <2>3, <4>1, <4>2
    <3>2. CASE x.timeout # t
      <4>1. x # n
        BY <3>2
      <4>2. InQueue(d1, x) <=> InQueue(dc, x)
        BY <2>5, <3>2, InQueueIn
      <4>3. QED
        BY <4>1, <4>2
    <3>3. QED
      BY <3>1, <3>2
  <2>8. QED
    BY <2>5, <2>6, <2>7
<1>3. CASE t \notin DOMAIN ts
  <2> DEFINE e == [key |-> n.deadline, queue |-> t]
             ts1 == MapInsert(ts, t, <<n>>)
             its1 == MapInsert(dc.multimap_iterators, t, e)
             m1 == MultimapInsert(dc.deadlines, e)
             d1 == [timeouts |-> ts1, multimap_iterators |-> its1, deadlines |-> m1]
  <2>1. Add(dc, n) = d1
    BY <1>3 DEF Add
  <2>2. /\ DOMAIN ts1 = DOMAIN ts \cup {t}
        /\ ts1[t] = <<n>>
        /\ \A x \in DOMAIN ts : ts1[x] = ts[x] /\ x # t
        /\ ts1 = [x \in DOMAIN ts1 |-> ts1[x]]
    BY <1>3 DEF MapInsert
  <2>3. <<n>> \in Seq(Wrapper) /\ Len(<<n>>) = 1 /\ <<n>>[1] = n
    OBVIOUS
  <2>4. GoodQueue(<<n>>, t)
    BY <1>1, <2>3 DEF GoodQueue
  <2> HIDE DEF ts1
  <2>5. GoodQueues(ts1)
    <3>1. ASSUME NEW x \in DOMAIN ts1
          PROVE  x \in Timeout /\ GoodQueue(ts1[x], x) /\ Len(ts1[x]) > 0
      <4>1. CASE x = t
        <5>1. ts1[x] = <<n>> /\ Len(ts1[x]) = 1
          BY <2>2, <4>1
        <5>2. GoodQueue(ts1[x], x)
          BY <2>4, <4>1, <5>1
        <5>3. QED
          BY <1>1, <4>1, <5>1, <5>2
      <4>2. CASE x \in DOMAIN ts
        BY <1>1, <2>2, <4>2 DEF GoodQueues
      <4>3. QED
        BY <2>2, <4>1, <4>2
    <3>2. QED
      BY <2>2, <3>1 DEF GoodQueues
  <2>6. HeadOf(ts1) = MapInsert(HeadOf(ts), t, n.deadline)
    <3>1. DOMAIN HeadOf(ts) = DOMAIN ts /\ \A x \in DOMAIN ts : HeadOf(ts)[x] = ts[x][1].deadline
      BY DEF HeadOf
    <3>2. QED
      BY <1>3, <2>2, <2>3, <3>1 DEF HeadOf, MapInsert
  <2>7. GoodIndex(HeadOf(ts1), its1, m1)
    <3>1. GoodIndex(HeadOf(ts), dc.multimap_iterators, dc.deadlines)
      BY DEF GoodContainer
    <3>2. t \notin DOMAIN HeadOf(ts)
      BY <1>3 DEF HeadOf
    <3>3. QED
      BY <1>1, <2>6, <3>1, <3>2, IndexInsert
  <2>8. GoodContainer(d1)
    BY <2>5, <2>7 DEF GoodContainer
  <2>9. ASSUME NEW x PROVE InQueue(d1, x) <=> x = n \/ InQueue(dc, x)
    BY <1>3, <2>2, <2>3 DEF InQueue
  <2>10. QED
    BY <2>1, <2>8, <2>9
<1>4. QED
  BY <1>2, <1>3

\* update keeps the container good and replaces exactly the given node: the
\* multimap follows when the node was the head (deadline_container.cpp:50-74)
LEMMA UpdateCorrect ==
    ASSUME NEW dc, GoodContainer(dc), NEW it, InQueue(dc, it), NEW d \in Nat,
           NotBefore(dc, it.timeout, d)
    PROVE  /\ GoodContainer(Update(dc, it, d))
           /\ DOMAIN Update(dc, it, d).timeouts = DOMAIN dc.timeouts
           /\ LET q == Update(dc, it, d).timeouts[it.timeout]
              IN  Len(q) = Len(dc.timeouts[it.timeout]) /\ q[Len(q)] = Renewed(it, d)
           /\ \A x : InQueue(Update(dc, it, d), x) <=>
                      x = Renewed(it, d) \/ (x # it /\ InQueue(dc, x))
<1> DEFINE t == it.timeout
           ts == dc.timeouts
           q == ts[t]
           moved == UpdateList(q, it, d)
           n == Renewed(it, d)
<1>1. /\ t \in DOMAIN ts /\ t \in Timeout /\ GoodQueues(ts)
      /\ GoodQueue(q, t) /\ Len(q) > 0 /\ In(q, it)
      /\ ts = [x \in DOMAIN ts |-> ts[x]]
  BY DEF InQueue, In, GoodContainer, GoodQueues
<1>2. it \in Wrapper
  BY <1>1, ElementOfSeq DEF In, GoodQueue
<1>3. n.timeout = t
  BY <1>2 DEF Renewed, Wrapper
<1>4. /\ GoodQueue(moved, t) /\ Len(moved) = Len(q) /\ Len(moved) > 0
      /\ moved[Len(moved)] = n
      /\ \A x : In(moved, x) <=> x = n \/ (x # it /\ In(q, x))
      /\ q[1] # it => moved[1] = q[1]
  <2>1. \A i \in 1..Len(q) : q[i].deadline <= d
    BY <1>1 DEF NotBefore
  <2> HIDE DEF q, t
  <2>2. QED
    BY <1>1, <2>1, QueueUpdate
<1>5. GoodIndex(HeadOf(ts), dc.multimap_iterators, dc.deadlines)
  BY DEF GoodContainer
<1>6. dc.multimap_iterators[t].queue = t
  <2> DEFINE head == HeadOf(ts)
             its == dc.multimap_iterators
  <2>1. t \in DOMAIN head
    BY <1>1 DEF HeadOf
  <2>2. its = [x \in DOMAIN head |-> [key |-> head[x], queue |-> x]]
    BY <1>5 DEF GoodIndex
  <2> HIDE DEF head, its, t
  <2>3. its[t] = [key |-> head[t], queue |-> t]
    BY <2>1, <2>2
  <2>4. QED
    BY <2>3 DEF its
<1> HIDE DEF moved, n
<1>7. SUFFICES ASSUME NEW d1, d1 = Update(dc, it, d)
               PROVE  /\ GoodContainer(d1)
                      /\ DOMAIN d1.timeouts = DOMAIN ts
                      /\ d1.timeouts[t] = moved
                      /\ \A x \in DOMAIN ts : x # t => d1.timeouts[x] = ts[x]
  <2>1. /\ GoodContainer(Update(dc, it, d))
        /\ DOMAIN Update(dc, it, d).timeouts = DOMAIN ts
        /\ Update(dc, it, d).timeouts[t] = moved
        /\ \A x \in DOMAIN ts : x # t => Update(dc, it, d).timeouts[x] = ts[x]
    BY <1>7
  <2>2. ASSUME NEW x
        PROVE  InQueue(Update(dc, it, d), x) <=> x = n \/ (x # it /\ InQueue(dc, x))
    <3> DEFINE dc1 == Update(dc, it, d)
    <3> HIDE DEF dc1
    <3>0. /\ DOMAIN dc1.timeouts = DOMAIN ts /\ dc1.timeouts[t] = moved
          /\ \A y \in DOMAIN ts : y # t => dc1.timeouts[y] = ts[y]
      BY <2>1 DEF dc1
    <3>1. CASE x.timeout = t
      <4>1. InQueue(dc1, x) <=> In(moved, x)
        BY <1>1, <3>0, <3>1, InQueueIn
      <4>2. InQueue(dc, x) <=> In(q, x)
        BY <1>1, <3>1, InQueueIn
      <4>3. QED
        BY <1>4, <4>1, <4>2 DEF dc1
    <3>2. CASE x.timeout # t
      <4>1. x # n /\ x # it
        BY <1>3, <3>2
      <4>2. InQueue(dc1, x) <=> InQueue(dc, x)
        BY <3>0, <3>2, InQueueIn
      <4>3. QED
        BY <4>1, <4>2 DEF dc1
    <3>3. QED
      BY <3>1, <3>2
  <2>3. QED
    BY <1>4, <2>1, <2>2 DEF n
<1>8. CASE q[1] # it
  <2>1. d1 = [dc EXCEPT !.timeouts[t] = moved]
    BY <1>6, <1>7, <1>8 DEF Update, moved
  <2>2. moved[1] = dc.timeouts[t][1]
    BY <1>4, <1>8
  <2>3. QED
    BY <1>1, <1>4, <2>1, <2>2, ReplaceQueue
<1>9. CASE q[1] = it
  <2> DEFINE e == [key |-> moved[1].deadline, queue |-> t]
             ts1 == [ts EXCEPT ![t] = moved]
             its == dc.multimap_iterators
             its1 == MapInsert(MapErase(its, t), t, e)
             m1 == MultimapInsert(ListErase(dc.deadlines, its[t]), e)
  <2>1. d1 = [timeouts |-> ts1, multimap_iterators |-> its1, deadlines |-> m1]
    BY <1>6, <1>7, <1>9 DEF Update, Rekeyed, moved
  <2>2. /\ DOMAIN ts1 = DOMAIN ts
        /\ ts1[t] = moved
        /\ \A x \in DOMAIN ts : x # t => ts1[x] = ts[x]
        /\ ts1 = [x \in DOMAIN ts1 |-> ts1[x]]
    BY <1>1
  <2>3. GoodQueues(ts1)
    BY <1>1, <1>4, <2>2 DEF GoodQueues
  <2>4. moved[1].deadline \in Nat
    BY <1>1, <2>2, <2>3, HeadDeadline
  <2> HIDE DEF ts1
  <2>5. HeadOf(ts1) = MapInsert(MapErase(HeadOf(ts), t), t, moved[1].deadline)
    <3>1. DOMAIN HeadOf(ts) = DOMAIN ts /\ \A x \in DOMAIN ts : HeadOf(ts)[x] = ts[x][1].deadline
      BY DEF HeadOf
    <3>2. DOMAIN MapErase(HeadOf(ts), t) = DOMAIN ts \ {t}
      BY <3>1 DEF MapErase
    <3>3. QED
      BY <1>1, <2>2, <3>1, <3>2 DEF HeadOf, MapInsert, MapErase
  <2>6. GoodIndex(HeadOf(ts1), its1, m1)
    <3>1. t \in DOMAIN HeadOf(ts)
      BY <1>1 DEF HeadOf
    <3>2. GoodIndex(MapErase(HeadOf(ts), t), MapErase(its, t), ListErase(dc.deadlines, its[t]))
      BY <1>5, <3>1, IndexErase
    <3>3. t \notin DOMAIN MapErase(HeadOf(ts), t)
      BY DEF MapErase
    <3>4. QED
      BY <1>1, <2>4, <2>5, <3>2, <3>3, IndexInsert
  <2>7. QED
    BY <2>1, <2>2, <2>3, <2>6 DEF GoodContainer
<1>10. QED
  BY <1>8, <1>9

\* remove keeps the container good and takes out exactly the given node; a queue
\* that becomes empty leaves with its entry (deadline_container.cpp:87-102)
LEMMA RemoveCorrect ==
    ASSUME NEW dc, GoodContainer(dc), NEW it, InQueue(dc, it),
           NotBefore(dc, it.timeout, TimeMax)
    PROVE  /\ GoodContainer(RemoveNode(dc, it))
           /\ \A x : InQueue(RemoveNode(dc, it), x) <=> x # it /\ InQueue(dc, x)
<1> DEFINE t == it.timeout
           u == Update(dc, it, TimeMax)
           last == Renewed(it, TimeMax)
           ts == u.timeouts
           q == ts[t]
           d1 == RemoveNode(dc, it)
<1>0. TimeMax \in Nat
  BY TimeAssumption
<1>1. /\ GoodContainer(u)
      /\ q[Len(q)] = last
      /\ \A x : InQueue(u, x) <=> x = last \/ (x # it /\ InQueue(dc, x))
  BY <1>0, UpdateCorrect
<1>2. /\ t \in DOMAIN dc.timeouts /\ In(dc.timeouts[t], it)
      /\ GoodQueue(dc.timeouts[t], t)
  BY InQueueIn DEF GoodContainer, GoodQueues
<1>3. it \in Wrapper /\ last.timeout = t /\ last.client = it.client
  <2>1. it \in Wrapper
    BY <1>2, ElementOfSeq DEF In, GoodQueue
  <2>2. QED
    BY <2>1 DEF Renewed, Wrapper
<1> HIDE DEF u, last
<1>4. InQueue(u, last) /\ t \in DOMAIN ts /\ In(q, last)
  BY <1>1, <1>3, InQueueIn
<1>5. GoodQueues(ts) /\ GoodQueue(q, t) /\ Len(q) > 0 /\ Len(q) \in Nat
  <2>1. GoodQueues(ts) /\ GoodQueue(q, t) /\ Len(q) > 0
    BY <1>1, <1>4 DEF GoodContainer, GoodQueues
  <2> HIDE DEF q, ts
  <2>2. QED
    BY <2>1, LenProperties DEF GoodQueue
\* no other node of the queue is the client's: the renewed node is none of the old
<1>6. ASSUME NEW x, x # it, InQueue(dc, x) PROVE x # last
  <2>1. SUFFICES ASSUME x = last PROVE FALSE
    OBVIOUS
  <2>2. In(dc.timeouts[t], x) /\ x.client = it.client
    BY <1>3, <1>6, <2>1, InQueueIn
  <2>3. QED
    BY <1>2, <1>6, <2>2 DEF In, GoodQueue
<1>7. SUFFICES ASSUME NEW d2, d2 = d1
               PROVE  /\ GoodContainer(d2)
                      /\ \A x : InQueue(d2, x) <=> x # last /\ InQueue(u, x)
  <2>1. GoodContainer(d1) /\ \A x : InQueue(d1, x) <=> x # last /\ InQueue(u, x)
    BY <1>7
  <2>2. ASSUME NEW x PROVE InQueue(d1, x) <=> x # it /\ InQueue(dc, x)
    BY <1>1, <1>6, <2>1
  <2>3. QED
    BY <2>1, <2>2
<1>8. CASE Len(q) = 1
  <2> DEFINE its == u.multimap_iterators
             ts1 == MapErase(ts, t)
             m1 == ListErase(u.deadlines, its[t])
  <2>1. d2 = [timeouts |-> ts1, multimap_iterators |-> MapErase(its, t), deadlines |-> m1]
    BY <1>7, <1>8 DEF RemoveNode, u
  <2>2. /\ DOMAIN ts1 = DOMAIN ts \ {t}
        /\ \A x \in DOMAIN ts1 : ts1[x] = ts[x]
        /\ ts1 = [x \in DOMAIN ts1 |-> ts1[x]]
    BY DEF MapErase
  <2> HIDE DEF ts1
  <2>3. GoodQueues(ts1)
    BY <1>5, <2>2 DEF GoodQueues
  <2>4. HeadOf(ts1) = MapErase(HeadOf(ts), t)
    <3>1. DOMAIN HeadOf(ts) = DOMAIN ts /\ \A x \in DOMAIN ts : HeadOf(ts)[x] = ts[x][1].deadline
      BY DEF HeadOf
    <3>2. QED
      BY <2>2, <3>1 DEF HeadOf, MapErase
  <2>5. GoodIndex(HeadOf(ts1), MapErase(its, t), m1)
    <3>1. GoodIndex(HeadOf(ts), its, u.deadlines)
      BY <1>1 DEF GoodContainer
    <3>2. t \in DOMAIN HeadOf(ts)
      BY <1>4 DEF HeadOf
    <3>3. QED
      BY <2>4, <3>1, <3>2, IndexErase
  <2>6. GoodContainer(d2)
    BY <2>1, <2>3, <2>5 DEF GoodContainer
  <2>7. ASSUME NEW x PROVE InQueue(d2, x) <=> x # last /\ InQueue(u, x)
    <3>0. DOMAIN d2.timeouts = DOMAIN ts \ {t} /\ \A y \in DOMAIN d2.timeouts : d2.timeouts[y] = ts[y]
      BY <2>1, <2>2
    <3>1. CASE x.timeout = t
      <4>1. ~InQueue(d2, x)
        BY <3>0, <3>1, InQueueIn
      <4>2. In(q, x) => x = last
        BY <1>4, <1>8 DEF In
      <4>3. QED
        BY <3>1, <4>1, <4>2, InQueueIn
    <3>2. CASE x.timeout # t
      <4>1. InQueue(d2, x) <=> InQueue(u, x)
        BY <3>0, <3>2, InQueueIn
      <4>2. QED
        BY <1>3, <3>2, <4>1
    <3>3. QED
      BY <3>1, <3>2
  <2>8. QED
    BY <2>6, <2>7
<1>9. CASE Len(q) # 1
  <2> DEFINE r == ListErase(q, last)
  <2>1. /\ GoodQueue(r, t) /\ Len(r) = Len(q) - 1
        /\ \A x : In(r, x) <=> x # last /\ In(q, x)
        /\ q[1] # last => r[1] = q[1]
    <3> HIDE DEF q
    <3>1. QED
      BY <1>4, <1>5, QueueErase
  <2>2. Len(r) > 0
    <3> HIDE DEF q, r
    <3>1. QED
      BY <1>5, <1>9, <2>1
  \* the renewed node is the tail of a queue of two or more, not its head
  <2>3. q[1] # last
    <3> HIDE DEF q
    <3>1. 1 \in 1..Len(q) /\ Len(q) \in 1..Len(q) /\ Len(q) # 1 /\ q[Len(q)] = last
      BY <1>1, <1>5, <1>9
    <3>2. QED
      BY <1>5, <3>1 DEF GoodQueue
  <2>4. d2 = [u EXCEPT !.timeouts[t] = r]
    BY <1>7, <1>9 DEF RemoveNode, u, last
  <2>5. /\ GoodContainer(d2)
        /\ DOMAIN d2.timeouts = DOMAIN ts
        /\ d2.timeouts[t] = r
        /\ \A x \in DOMAIN ts : x # t => d2.timeouts[x] = ts[x]
    <3> HIDE DEF r
    <3>1. QED
      BY <1>1, <1>4, <2>1, <2>2, <2>3, <2>4, ReplaceQueue
  <2>6. ASSUME NEW x PROVE InQueue(d2, x) <=> x # last /\ InQueue(u, x)
    <3>1. CASE x.timeout = t
      BY <1>4, <2>1, <2>5, <3>1, InQueueIn
    <3>2. CASE x.timeout # t
      <4>1. InQueue(d2, x) <=> InQueue(u, x)
        BY <2>5, <3>2, InQueueIn
      <4>2. QED
        BY <1>3, <3>2, <4>1
    <3>3. QED
      BY <3>1, <3>2
  <2>7. QED
    BY <2>5, <2>6
<1>10. QED
  BY <1>8, <1>9

\* The head of a queue has the least deadline in it
LEMMA QueueHead ==
    ASSUME NEW t, NEW q, GoodQueue(q, t), Len(q) > 0
    PROVE  /\ In(q, q[1])
           /\ q[1].timeout = t
           /\ \A x : In(q, x) => x \in Wrapper /\ q[1].deadline <= x.deadline
<1>1. q \in Seq(Wrapper) /\ Len(q) \in Nat /\ 1 \in 1..Len(q)
  BY LenProperties DEF GoodQueue
<1>2. ASSUME NEW x, In(q, x) PROVE x \in Wrapper /\ q[1].deadline <= x.deadline
  <2>1. PICK i \in 1..Len(q) : q[i] = x
    BY <1>2 DEF In
  <2>2. 1 <= i
    BY <1>1
  <2>3. q[1].deadline <= q[i].deadline
    BY <1>1, <2>2 DEF GoodQueue
  <2>4. QED
    BY <1>1, <2>1, <2>3, ElementOfSeq
<1>3. QED
  BY <1>1, <1>2 DEF In, GoodQueue

\* The first entry of the multimap has the least deadline of all heads
LEMMA IndexFirst ==
    ASSUME NEW head, NEW its, NEW m, GoodIndex(head, its, m), DOMAIN head # {}
    PROVE  /\ m[1].queue \in DOMAIN head
           /\ m[1].key = head[m[1].queue]
           /\ \A t \in DOMAIN head : m[1].key <= head[t]
<1>1. m \in Seq(Entry) /\ Len(m) \in Nat
  BY LenProperties DEF GoodIndex
<1>2. \A t \in DOMAIN head : its[t].key = head[t] /\ its[t].queue = t /\ In(m, its[t])
  BY DEF GoodIndex
<1>3. ASSUME NEW t \in DOMAIN head
      PROVE  1 \in 1..Len(m) /\ m[1].key <= head[t]
  <2>1. PICK j \in 1..Len(m) : m[j] = its[t]
    BY <1>2 DEF In
  <2>2. 1 \in 1..Len(m) /\ 1 <= j
    BY <1>1, <2>1
  <2>3. m[1].key <= m[j].key
    BY <2>2 DEF GoodIndex
  <2>4. QED
    BY <1>2, <2>1, <2>2, <2>3
<1>4. 1 \in 1..Len(m)
  BY <1>3
<1>5. m[1].queue \in DOMAIN head /\ m[1] = its[m[1].queue]
  BY <1>4 DEF GoodIndex
<1>6. QED
  BY <1>2, <1>3, <1>5

\* get_min is the head of the first queue of the multimap, and no node of any
\* queue has a smaller deadline (deadline_container.cpp:77-85)
LEMMA GetMinCorrect ==
    ASSUME NEW dc, GoodContainer(dc), ~IsEmpty(dc)
    PROVE  /\ InQueue(dc, GetMin(dc))
           /\ \A x : InQueue(dc, x) => GetMin(dc).deadline <= x.deadline
<1> DEFINE ts == dc.timeouts
           t0 == dc.deadlines[1].queue
<1>1. GoodQueues(ts) /\ GoodIndex(HeadOf(ts), dc.multimap_iterators, dc.deadlines)
  BY DEF GoodContainer
<1>2. DOMAIN HeadOf(ts) = DOMAIN ts /\ \A t \in DOMAIN ts : HeadOf(ts)[t] = ts[t][1].deadline
  BY DEF HeadOf
<1>3. DOMAIN ts # {}
  BY DEF IsEmpty
<1>4. t0 \in DOMAIN ts /\ \A t \in DOMAIN ts : ts[t0][1].deadline <= ts[t][1].deadline
  BY <1>1, <1>2, <1>3, IndexFirst
<1>5. GetMin(dc) = ts[t0][1]
  BY DEF GetMin
<1> HIDE DEF t0
<1>6. \A t \in DOMAIN ts : GoodQueue(ts[t], t) /\ Len(ts[t]) > 0
  BY <1>1 DEF GoodQueues
<1>7. InQueue(dc, GetMin(dc))
  BY <1>4, <1>5, <1>6, QueueHead, InQueueIn
<1>8. ASSUME NEW x, InQueue(dc, x) PROVE GetMin(dc).deadline <= x.deadline
  <2>1. x.timeout \in DOMAIN ts /\ In(ts[x.timeout], x)
    BY <1>8, InQueueIn
  <2>2. x \in Wrapper /\ ts[x.timeout][1].deadline <= x.deadline
    BY <1>6, <2>1, QueueHead
  <2>3. ts[t0][1].deadline <= ts[x.timeout][1].deadline
    BY <1>4, <2>1
  <2>4. ts[t0][1].deadline \in Nat /\ ts[x.timeout][1].deadline \in Nat /\ x.deadline \in Nat
    BY <1>1, <1>4, <2>1, <2>2, HeadDeadline, WrapperFields
  <2>5. QED
    BY <1>5, <2>2, <2>3, <2>4
<1>9. QED
  BY <1>7, <1>8
=============================================================================
