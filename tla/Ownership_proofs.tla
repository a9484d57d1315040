---------------------------- MODULE Ownership_proofs ----------------------------
(***************************************************************************)
(* The three programs that own memory.  The trampolines and their free     *)
(* list first, then the eithers, then the vectors, for any number of       *)
(* slots, variables, functors, values, vectors and addresses; then the     *)
(* three together.                                                         *)
(***************************************************************************)
EXTENDS Ownership, TLAPS, FiniteSetTheorems, FunctionTheorems, WellFoundedInduction

-----------------------------------------------------------------------------
(* Trampolines: the inductive invariant.                                   *)

Had(s) == \E t \in Handle : trampoline[t].page = s

\* What follows the i-th of the k slots of q
Place(q, k, i) == IF i <= k THEN q[i] ELSE NullSlot

\* The free list is the k slots of q, each once: those that no trampoline has
FreeList(q, k) ==
    /\ \A i, j \in 1..k : q[i] = q[j] => i = j
    /\ \A s \in Slot : Had(s) <=> \A i \in 1..k : q[i] # s
    /\ head = Place(q, k, 1)
    /\ \A i \in 1..k : slot[q[i]] = Link(Place(q, k, i + 1))

Listed == \E k \in Nat : \E q \in [1..k -> Slot] : FreeList(q, k)

TInv ==
    /\ TrampolineTypeOK
    /\ FunctorsExact
    /\ Callable
    /\ ~aliased => Listed
    /\ ~aliased /\ status = "crashed" => \A s \in Slot : Had(s)

-----------------------------------------------------------------------------
(* Trampolines: lemmas.                                                    *)

\* The members of a trampoline
LEMMA Members ==
    ASSUME TrampolineTypeOK, NEW t \in Handle
    PROVE  /\ trampoline[t].page \in Slot \cup {NullSlot}
           /\ trampoline[t].func \in Functor \cup {NoFunc}
           /\ NullSlot \notin Slot /\ Wild \notin Slot
           /\ Alive(t) <=> trampoline[t].page \in Slot
           /\ ~Alive(t) => trampoline[t].func = NoFunc
           /\ trampoline \in [Handle -> [page : Slot \cup {NullSlot}, func : Functor \cup {NoFunc}]]
<1>1. /\ trampoline \in [Handle -> [page : Slot \cup {NullSlot}, func : Functor \cup {NoFunc}]]
      /\ Alive(t) => trampoline[t].page \in Slot
  BY DEF TrampolineTypeOK
<1>2. NullSlot \notin Slot /\ Wild \notin Slot
  BY TrampolineAssumption DEF NullSlot, Wild, Slot
<1>3. ~Alive(t) => trampoline[t].page = NullSlot /\ trampoline[t].func = NoFunc
  BY DEF Alive, Absent
<1>4. QED
  BY <1>1, <1>2, <1>3

\* A trampoline has a slot exactly if it is among the holders of it
LEMMA HadHolders ==
    ASSUME TrampolineTypeOK, NEW s \in Slot
    PROVE  /\ Had(s) <=> Holders(s) # {}
           /\ \A t \in Handle : t \in Holders(s) <=> trampoline[t].page = s
BY Members DEF Had, Holders

\* A new trampoline takes the first slot of the list
LEMMA MakeStep ==
    ASSUME TInv, NEW t \in Handle, Make(t), status = "running"
    PROVE  TInv'
<1>1. TrampolineTypeOK /\ FunctorsExact /\ Callable /\ ~Alive(t)
  BY DEF TInv, Make
<1>2. CASE /\ head \notin Slot /\ status' = "crashed"
           /\ UNCHANGED <<head, slot, trampoline, functors, aliased>>
  <2>1. ~aliased => \A s \in Slot : Had(s)
    BY <1>2 DEF TInv, Listed, FreeList, Place
  <2>2. TrampolineTypeOK' /\ FunctorsExact' /\ Callable'
    BY <1>1, <1>2 DEF TrampolineTypeOK, FunctorsExact, Callable, Alive
  <2>3. (Listed' <=> Listed) /\ \A s \in Slot : Had(s)' <=> Had(s)
    BY <1>2 DEF Listed, FreeList, Had
  <2>4. QED
    BY <1>2, <2>1, <2>2, <2>3 DEF TInv
<1>3. CASE head \in Slot /\ UNCHANGED <<status, aliased>>
  <2>1. PICK f \in Functor \ functors :
            /\ functors' = functors \cup {f}
            /\ slot' = [slot EXCEPT ![head] = Code(f)]
            /\ trampoline' = [trampoline EXCEPT ![t] = [page |-> head, func |-> f]]
            /\ head' = NextHead
    BY <1>3 DEF Make, Taken
  <2>2. /\ f # NoFunc /\ trampoline[t].func = NoFunc /\ trampoline[t].page = NullSlot
        /\ trampoline'[t].page = head /\ trampoline'[t].func = f
        /\ \A u \in Handle : u # t => trampoline'[u] = trampoline[u]
    BY <1>1, <2>1, TrampolineAssumption, Members
  <2>3. slot'[head] = Code(f) /\ \A s \in Slot : s # head => slot'[s] = slot[s]
    BY <1>1, <1>3, <2>1 DEF TrampolineTypeOK
  <2>4. TrampolineTypeOK'
    <3>1. head' \in Slot \cup {NullSlot, Wild}
      BY <1>1, <1>3, <2>1 DEF TrampolineTypeOK, NextHead, Link, Code
    <3>2. /\ slot' \in [Slot -> {Link(s) : s \in Slot \cup {NullSlot, Wild}}
                                \cup {Code(g) : g \in Functor}]
          /\ functors' \subseteq Functor
          /\ status' \in {"running", "crashed", "deleted twice"} /\ aliased' \in BOOLEAN
      BY <1>1, <1>3, <2>1 DEF TrampolineTypeOK
    <3>3. trampoline' \in [Handle -> [page : Slot \cup {NullSlot}, func : Functor \cup {NoFunc}]]
      BY <1>1, <1>3, <2>1 DEF TrampolineTypeOK
    <3>4. \A u \in Handle : trampoline'[u] # Absent => trampoline'[u].page \in Slot
      BY <1>1, <1>3, <2>2, Members DEF Alive
    <3>5. QED
      BY <3>1, <3>2, <3>3, <3>4 DEF TrampolineTypeOK, Alive
  <2>5. FunctorsExact'
    <3>1. \A u \in Handle : trampoline[u].func # NoFunc => trampoline[u].func \in functors
      BY <1>1 DEF FunctorsExact
    <3>2. functors' = {trampoline'[u].func : u \in Handle} \ {NoFunc}
      BY <1>1, <2>1, <2>2 DEF FunctorsExact
    <3>3. \A u, v \in Handle :
              trampoline'[u].func = trampoline'[v].func /\ trampoline'[u].func # NoFunc => u = v
      BY <1>1, <2>1, <2>2, <3>1 DEF FunctorsExact
    <3>4. QED
      BY <1>1, <1>3, <3>2, <3>3 DEF FunctorsExact
  <2>6. ASSUME ~aliased
        PROVE  Callable' /\ Listed'
    <3>0. PICK k \in Nat : \E q \in [1..k -> Slot] : FreeList(q, k)
      BY <2>6 DEF TInv, Listed
    <3>1. PICK q \in [1..k -> Slot] : FreeList(q, k)
      BY <3>0
    <3>2. 1 \in 1..k /\ head = q[1] /\ slot[head] = Link(Place(q, k, 2)) /\ ~Had(head)
      <4>1. k # 0
        BY <1>1, <1>3, <3>1, Members DEF FreeList, Place
      <4>2. 1 \in 1..k
        BY <4>1
      <4>3. QED
        BY <1>3, <3>1, <4>2 DEF FreeList, Place
    <3>3. head' = Place(q, k, 2)
      BY <2>1, <3>2 DEF NextHead, Link
    <3>4. Callable'
      <4>1. ASSUME NEW u \in Handle, trampoline'[u].func # NoFunc
            PROVE  slot'[trampoline'[u].page] = Code(trampoline'[u].func)
                   /\ trampoline'[u].func \in functors'
        <5>1. CASE u = t
          BY <2>1, <2>2, <2>3, <5>1
        <5>2. CASE u # t
          <6>1. /\ trampoline'[u] = trampoline[u] /\ trampoline[u].page \in Slot
                /\ trampoline[u].page # head
            BY <1>1, <2>2, <3>2, <4>1, <5>2, Members DEF Had
          <6>2. /\ slot[trampoline[u].page] = Code(trampoline[u].func)
                /\ trampoline[u].func \in functors
            BY <1>1, <2>6, <4>1, <6>1 DEF Callable
          <6>3. QED
            BY <2>1, <2>3, <6>1, <6>2
        <5>3. QED
          BY <5>1, <5>2
      <4>2. QED
        BY <4>1 DEF Callable
    <3>5. Listed'
      <4> DEFINE r == [i \in 1..(k - 1) |-> q[i + 1]]
      <4>1. k - 1 \in Nat /\ r \in [1..(k - 1) -> Slot]
        BY <3>2
      <4>2. \A i \in 1..(k - 1) : r[i] = q[i + 1] /\ i + 1 \in 1..k /\ r[i] # head
        BY <3>1, <3>2 DEF FreeList
      <4>3. \A i, j \in 1..(k - 1) : r[i] = r[j] => i = j
        BY <3>1, <4>2 DEF FreeList
      <4>4. ASSUME NEW s \in Slot
            PROVE  Had(s)' <=> \A i \in 1..(k - 1) : r[i] # s
        <5>1. Had(s)' <=> Had(s) \/ s = head
          BY <1>1, <2>2, Members DEF Had
        <5>2. (\A i \in 1..(k - 1) : r[i] # s) <=> (\A i \in 1..k : q[i] # s) \/ s = head
          <6>1. \A i \in 1..k : i = 1 \/ (i - 1 \in 1..(k - 1) /\ r[i - 1] = q[i])
            BY <3>2, <4>2
          <6>2. ASSUME \A i \in 1..(k - 1) : r[i] # s, s # head, NEW i \in 1..k
                PROVE  q[i] # s
            <7>1. CASE i = 1
              BY <3>2, <6>2, <7>1
            <7>2. CASE i - 1 \in 1..(k - 1) /\ r[i - 1] = q[i]
              BY <6>2, <7>2
            <7>3. QED
              BY <6>1, <7>1, <7>2
          <6>3. ASSUME \A i \in 1..k : q[i] # s, NEW i \in 1..(k - 1)
                PROVE  r[i] # s
            BY <4>2, <6>3
          <6>4. s = head => \A i \in 1..(k - 1) : r[i] # s
            BY <4>2
          <6>5. QED
            BY <6>2, <6>3, <6>4
        <5>3. QED
          BY <3>1, <5>1, <5>2 DEF FreeList
      <4>5. \A i \in 1..k : Place(r, k - 1, i) = Place(q, k, i + 1)
        BY <4>2 DEF Place
      <4> HIDE DEF r
      <4>6. head' = Place(r, k - 1, 1)
        BY <3>2, <3>3, <4>5
      <4>7. ASSUME NEW i \in 1..(k - 1)
            PROVE  slot'[r[i]] = Link(Place(r, k - 1, i + 1))
        <5>1. slot'[r[i]] = slot[q[i + 1]] /\ i + 1 \in 1..k
          BY <2>3, <4>1, <4>2
        <5>2. slot[q[i + 1]] = Link(Place(q, k, (i + 1) + 1))
          BY <3>1, <5>1 DEF FreeList
        <5>3. QED
          BY <4>5, <5>1, <5>2
      <4>8. FreeList(r, k - 1)'
        BY <4>3, <4>4, <4>6, <4>7 DEF FreeList
      <4>9. QED
        BY <4>1, <4>8 DEF Listed
    <3>6. QED
      BY <3>4, <3>5
  <2>7. Callable'
    BY <1>3, <2>6 DEF Callable
  <2>8. QED
    BY <1>3, <2>4, <2>5, <2>6, <2>7 DEF TInv
<1>4. QED
  BY <1>2, <1>3 DEF Make

\* A functor goes to another variable, with the slot; the old one keeps its page
LEMMA MoveStep ==
    ASSUME TInv, NEW t \in Handle, NEW other \in Handle, MoveFrom(t, other), status = "running"
    PROVE  TInv'
<1>1. /\ TrampolineTypeOK /\ FunctorsExact /\ Callable
      /\ ~Alive(t) /\ Alive(other) /\ t # other
      /\ trampoline' = [trampoline EXCEPT ![t] = trampoline[other], ![other].func = NoFunc]
      /\ UNCHANGED <<head, slot, functors, status, aliased>>
  BY DEF TInv, MoveFrom
<1>2. /\ trampoline[t].page = NullSlot /\ trampoline[t].func = NoFunc
      /\ trampoline[other].page \in Slot
  BY <1>1, Members
<1>3. /\ trampoline'[t] = trampoline[other]
      /\ trampoline'[other].page = trampoline[other].page /\ trampoline'[other].func = NoFunc
      /\ \A u \in Handle : u # t /\ u # other => trampoline'[u] = trampoline[u]
      /\ trampoline' \in [Handle -> [page : Slot \cup {NullSlot}, func : Functor \cup {NoFunc}]]
  BY <1>1 DEF TrampolineTypeOK
<1>4. TrampolineTypeOK'
  <2>1. \A u \in Handle : trampoline'[u] # Absent => trampoline'[u].page \in Slot
    BY <1>1, <1>2, <1>3, Members DEF Alive
  <2>2. QED
    BY <1>1, <1>3, <2>1 DEF TrampolineTypeOK, Alive
<1>5. FunctorsExact'
  <2>1. {trampoline'[u].func : u \in Handle} \ {NoFunc}
        = {trampoline[u].func : u \in Handle} \ {NoFunc}
    <3>1. ASSUME NEW u \in Handle, trampoline'[u].func # NoFunc
          PROVE  \E v \in Handle : trampoline[v].func = trampoline'[u].func
      BY <1>3, <3>1
    <3>2. ASSUME NEW u \in Handle, trampoline[u].func # NoFunc
          PROVE  \E v \in Handle : trampoline'[v].func = trampoline[u].func
      <4>1. CASE u = other
        BY <1>3, <4>1
      <4>2. CASE u # other
        BY <1>2, <1>3, <3>2, <4>2
      <4>3. QED
        BY <4>1, <4>2
    <3>3. QED
      BY <3>1, <3>2
  <2>2. ASSUME NEW u \in Handle, NEW v \in Handle,
               trampoline'[u].func = trampoline'[v].func, trampoline'[u].func # NoFunc
        PROVE  u = v
    <3>1. u # other /\ v # other
      BY <1>3, <2>2
    <3>2. \A x, y \in Handle : trampoline[x].func = trampoline[y].func
                               /\ trampoline[x].func # NoFunc => x = y
      BY <1>1 DEF FunctorsExact
    <3>3. QED
      BY <1>3, <2>2, <3>1, <3>2
  <2>3. QED
    BY <1>1, <2>1, <2>2 DEF FunctorsExact
<1>6. Callable'
  <2>1. ASSUME ~aliased, NEW u \in Handle, trampoline'[u].func # NoFunc
        PROVE  slot[trampoline'[u].page] = Code(trampoline'[u].func)
               /\ trampoline'[u].func \in functors
    BY <1>1, <1>3, <2>1 DEF Callable
  <2>2. QED
    BY <1>1, <2>1 DEF Callable
<1>7. ASSUME NEW s \in Slot
      PROVE  Had(s)' <=> Had(s)
  <2>1. NullSlot \notin Slot
    BY <1>1, Members
  <2>2. QED
    BY <1>2, <1>3, <2>1 DEF Had
<1>8. Listed' <=> Listed
  BY <1>1, <1>7 DEF Listed, FreeList
<1>9. QED
  BY <1>1, <1>4, <1>5, <1>6, <1>7, <1>8 DEF TInv

\* A functor is deleted and a slot put at the front of the list
LEMMA DeleteStep ==
    ASSUME TInv, NEW t \in Handle, Delete(t), status = "running"
    PROVE  TInv'
<1> DEFINE p == trampoline[t].page
           f == trampoline[t].func
<1>1. /\ TrampolineTypeOK /\ FunctorsExact /\ Callable /\ Alive(t)
      /\ status' = IF f = NoFunc \/ f \in functors THEN status ELSE "deleted twice"
      /\ functors' = functors \ {f}
      /\ slot' = [slot EXCEPT ![p] = Link(head)]
      /\ head' = p
      /\ trampoline' = [trampoline EXCEPT ![t] = Absent]
      /\ aliased' = (aliased \/ Holders(p) # {t})
  BY DEF TInv, Delete
<1>1a. functors' = functors \ {f} /\ head' = p
  BY <1>1
<1>2. p \in Slot /\ f \in Functor \cup {NoFunc} /\ NullSlot \notin Slot
  BY <1>1, Members
<1>3. /\ trampoline'[t].page = NullSlot /\ trampoline'[t].func = NoFunc
      /\ trampoline'[t] = Absent
      /\ \A u \in Handle : u # t => trampoline'[u] = trampoline[u]
      /\ trampoline' \in [Handle -> [page : Slot \cup {NullSlot}, func : Functor \cup {NoFunc}]]
  BY <1>1 DEF TrampolineTypeOK, Absent
<1>4. slot'[p] = Link(head) /\ \A s \in Slot : s # p => slot'[s] = slot[s]
  BY <1>1, <1>2 DEF TrampolineTypeOK
<1>5. f # NoFunc => f \in functors
  BY <1>1 DEF FunctorsExact
<1>6. status' = status
  BY <1>1, <1>5
<1>7. TrampolineTypeOK'
  <2>1. head' \in Slot
    BY <1>1, <1>2
  <2>2. slot' \in [Slot -> {Link(s) : s \in Slot \cup {NullSlot, Wild}}
                           \cup {Code(g) : g \in Functor}]
    BY <1>1, <1>2 DEF TrampolineTypeOK
  <2>3. \A u \in Handle : trampoline'[u] # Absent => trampoline'[u].page \in Slot
    BY <1>1, <1>3, Members DEF Alive
  <2>4. functors' \subseteq Functor /\ aliased' \in BOOLEAN
        /\ status' \in {"running", "crashed", "deleted twice"}
    BY <1>1, <1>6 DEF TrampolineTypeOK
  <2>5. QED
    BY <1>3, <2>1, <2>2, <2>3, <2>4 DEF TrampolineTypeOK, Alive
<1> HIDE DEF p, f
<1>8. FunctorsExact'
  <2>1. /\ functors = {trampoline[u].func : u \in Handle} \ {NoFunc}
        /\ \A u, v \in Handle : trampoline[u].func = trampoline[v].func
                                /\ trampoline[u].func # NoFunc => u = v
        /\ status # "deleted twice"
    BY <1>1 DEF FunctorsExact
  <2>2. functors' = {trampoline'[u].func : u \in Handle} \ {NoFunc}
    <3>1. ASSUME NEW u \in Handle, trampoline'[u].func # NoFunc
          PROVE  trampoline'[u].func \in functors'
      <4>1. u # t /\ trampoline'[u].func = trampoline[u].func
        BY <1>3, <3>1
      <4>2. trampoline[u].func \in functors /\ trampoline[u].func # f
        BY <2>1, <3>1, <4>1 DEF f
      <4>3. QED
        BY <1>1a, <4>1, <4>2
    <3>2. ASSUME NEW g \in functors'
          PROVE  g # NoFunc /\ \E u \in Handle : trampoline'[u].func = g
      <4>1. g \in functors /\ g # f
        BY <1>1, <3>2
      <4>2. PICK u \in Handle : trampoline[u].func = g
        BY <2>1, <4>1
      <4>3. u # t
        BY <4>1, <4>2 DEF f
      <4>4. QED
        BY <1>3, <2>1, <4>1, <4>2, <4>3
    <3>3. QED
      BY <3>1, <3>2
  <2>3. \A u, v \in Handle : trampoline'[u].func = trampoline'[v].func
                             /\ trampoline'[u].func # NoFunc => u = v
    BY <1>3, <2>1
  <2>4. QED
    BY <1>6, <2>1, <2>2, <2>3 DEF FunctorsExact
<1>9. ASSUME ~aliased'
      PROVE  Callable' /\ Listed'
  <2>1. ~aliased /\ \A u \in Handle : trampoline[u].page = p <=> u = t
    <3>1. ~aliased /\ Holders(p) = {t}
      BY <1>1, <1>9
    <3>2. QED
      BY <1>1, <1>2, <3>1, HadHolders
  <2>2. Callable'
    <3>1. ASSUME NEW u \in Handle, trampoline'[u].func # NoFunc
          PROVE  slot'[trampoline'[u].page] = Code(trampoline'[u].func)
                 /\ trampoline'[u].func \in functors'
      <4>1. u # t /\ trampoline'[u] = trampoline[u]
        BY <1>3, <3>1
      <4>2. trampoline[u].page \in Slot /\ trampoline[u].page # p
        BY <1>1, <2>1, <3>1, <4>1, Members
      <4>3. /\ slot[trampoline[u].page] = Code(trampoline[u].func)
            /\ trampoline[u].func \in functors
        BY <1>1, <2>1, <3>1, <4>1 DEF Callable
      <4>4. trampoline[u].func # f
        BY <1>1, <3>1, <4>1 DEF FunctorsExact, f
      <4>5. QED
        BY <1>1a, <1>4, <4>1, <4>2, <4>3, <4>4
    <3>2. QED
      BY <3>1 DEF Callable
  <2>3. PICK k \in Nat : \E q \in [1..k -> Slot] : FreeList(q, k)
    BY <2>1 DEF TInv, Listed
  <2>4. PICK q \in [1..k -> Slot] : FreeList(q, k)
    BY <2>3
  <2>5. Had(p) /\ \A i \in 1..k : q[i] # p
    BY <1>2, <2>1, <2>4 DEF Had, FreeList
  <2>6. PICK r \in [1..(k + 1) -> Slot] :
            r = [i \in 1..(k + 1) |-> IF i = 1 THEN p ELSE q[i - 1]]
    <3> DEFINE longer == [i \in 1..(k + 1) |-> IF i = 1 THEN p ELSE q[i - 1]]
    <3>1. longer \in [1..(k + 1) -> Slot]
      BY <1>2
    <3>2. QED
      BY <3>1
  <2>7. /\ 1 \in 1..(k + 1) /\ r[1] = p
        /\ \A i \in 1..k : i + 1 \in 1..(k + 1) /\ r[i + 1] = q[i]
        /\ \A i \in 1..(k + 1) : i = 1 \/ (i - 1 \in 1..k /\ r[i] = q[i - 1])
    BY <2>6
  <2>8. ASSUME NEW i \in 1..(k + 1), NEW j \in 1..(k + 1), r[i] = r[j]
        PROVE  i = j
    <3>1. CASE i = 1 \/ j = 1
      BY <2>5, <2>7, <2>8, <3>1
    <3>2. CASE i # 1 /\ j # 1
      <4>1. i - 1 \in 1..k /\ j - 1 \in 1..k /\ q[i - 1] = q[j - 1]
        BY <2>7, <2>8, <3>2
      <4>2. i - 1 = j - 1
        BY <2>4, <4>1 DEF FreeList
      <4>3. QED
        BY <4>2
    <3>3. QED
      BY <3>1, <3>2
  <2>9. ASSUME NEW s \in Slot
        PROVE  Had(s)' <=> \A i \in 1..(k + 1) : r[i] # s
    <3>1. Had(s)' <=> Had(s) /\ s # p
      BY <1>2, <1>3, <2>1 DEF Had
    <3>2. (\A i \in 1..(k + 1) : r[i] # s) <=> ((\A i \in 1..k : q[i] # s) /\ s # p)
      <4>1. ASSUME \A i \in 1..(k + 1) : r[i] # s
            PROVE  (\A i \in 1..k : q[i] # s) /\ s # p
        BY <2>7, <4>1
      <4>2. ASSUME \A i \in 1..k : q[i] # s, s # p, NEW i \in 1..(k + 1)
            PROVE  r[i] # s
        BY <2>7, <4>2
      <4>3. QED
        BY <4>1, <4>2
    <3>3. QED
      BY <2>4, <3>1, <3>2 DEF FreeList
  <2>10. \A i \in 1..(k + 1) : Place(r, k + 1, i + 1) = Place(q, k, i)
    <3>1. ASSUME NEW i \in 1..(k + 1)
          PROVE  Place(r, k + 1, i + 1) = Place(q, k, i)
      <4>1. CASE i \in 1..k
        BY <2>7, <4>1 DEF Place
      <4>2. CASE i = k + 1
        BY <4>2 DEF Place
      <4>3. QED
        BY <4>1, <4>2
    <3>2. QED
      BY <3>1
  <2>11. ASSUME NEW i \in 1..(k + 1)
         PROVE  slot'[r[i]] = Link(Place(r, k + 1, i + 1))
    <3>1. CASE i = 1
      <4>1. slot'[r[i]] = Link(Place(q, k, 1))
        BY <1>4, <2>4, <2>7, <3>1 DEF FreeList
      <4>2. QED
        BY <2>10, <3>1, <4>1
    <3>2. CASE i # 1
      <4>1. i - 1 \in 1..k /\ r[i] = q[i - 1] /\ (i - 1) + 1 = i
        BY <2>7, <3>2
      <4>2. slot'[r[i]] = slot[q[i - 1]]
        BY <1>4, <2>5, <4>1
      <4>3. slot[q[i - 1]] = Link(Place(q, k, i))
        BY <2>4, <4>1 DEF FreeList
      <4>4. QED
        BY <2>10, <4>2, <4>3
    <3>3. QED
      BY <3>1, <3>2
  <2>12. head' = Place(r, k + 1, 1)
    BY <1>1a, <2>7 DEF Place
  <2>13. FreeList(r, k + 1)'
    BY <2>8, <2>9, <2>11, <2>12 DEF FreeList
  <2>14. QED
    BY <2>2, <2>13 DEF Listed
<1>10. Callable'
  BY <1>9 DEF Callable
<1>11. QED
  BY <1>6, <1>7, <1>8, <1>9, <1>10 DEF TInv

\* The list allocator() builds
LEMMA InitList == TrampolineInit => TInv
<1>1. SUFFICES ASSUME TrampolineInit PROVE TInv
  OBVIOUS
<1>2. /\ head = 1 /\ functors = {} /\ status = "running" /\ aliased = FALSE
      /\ slot = [s \in Slot |-> Link(IF s = Slots THEN NullSlot ELSE s + 1)]
      /\ \A t \in Handle : trampoline[t] = Absent /\ trampoline[t].page = NullSlot
                           /\ trampoline[t].func = NoFunc
  BY <1>1 DEF TrampolineInit, Absent
<1>3. Slots \in Nat \ {0} /\ 1 \in Slot /\ NullSlot \notin Slot
  BY TrampolineAssumption DEF Slot, NullSlot
<1>4. TrampolineTypeOK
  <2>1. \A s \in Slot : (IF s = Slots THEN NullSlot ELSE s + 1) \in Slot \cup {NullSlot, Wild}
    BY <1>3 DEF Slot
  <2>2. slot \in [Slot -> {Link(s) : s \in Slot \cup {NullSlot, Wild}}
                          \cup {Code(g) : g \in Functor}]
    BY <1>2, <2>1
  <2>3. trampoline \in [Handle -> [page : Slot \cup {NullSlot}, func : Functor \cup {NoFunc}]]
    BY <1>1 DEF TrampolineInit, Absent
  <2>4. QED
    BY <1>2, <1>3, <2>2, <2>3 DEF TrampolineTypeOK, Alive
<1>5. FunctorsExact /\ Callable
  BY <1>2 DEF FunctorsExact, Callable
<1>6. Listed
  <2> DEFINE q == [i \in 1..Slots |-> i]
  <2>1. Slots \in Nat /\ q \in [1..Slots -> Slot]
    BY <1>3 DEF Slot
  <2>2. \A s \in Slot : ~Had(s)
    BY <1>2, <1>3 DEF Had
  <2>3. \A i \in 1..Slots : q[i] = i /\ i \in Slot
    BY DEF Slot
  <2> HIDE DEF q
  <2>4. \A s \in Slot : Had(s) <=> \A i \in 1..Slots : q[i] # s
    BY <2>2, <2>3 DEF Slot
  <2>5. \A i \in 1..Slots : slot[q[i]] = Link(Place(q, Slots, i + 1))
    <3>1. ASSUME NEW i \in 1..Slots
          PROVE  (IF i = Slots THEN NullSlot ELSE i + 1) = Place(q, Slots, i + 1)
      <4>1. CASE i = Slots
        BY <1>3, <4>1 DEF Place
      <4>2. CASE i # Slots
        <5>1. i + 1 \in 1..Slots
          BY <1>3, <4>2
        <5>2. QED
          BY <2>3, <4>2, <5>1 DEF Place
      <4>3. QED
        BY <4>1, <4>2
    <3>2. QED
      BY <1>2, <2>3, <3>1
  <2>6. head = Place(q, Slots, 1)
    BY <1>2, <1>3, <2>3 DEF Place
  <2>7. FreeList(q, Slots)
    BY <2>3, <2>4, <2>5, <2>6 DEF FreeList
  <2>8. QED
    BY <2>1, <2>7 DEF Listed
<1>7. QED
  BY <1>2, <1>4, <1>5, <1>6 DEF TInv

\* Every step keeps the invariant
LEMMA TrampolineStep == TInv /\ [TrampolineNext]_trampolineVars => TInv'
<1>1. CASE TInv /\ UNCHANGED trampolineVars
  <2>1. UNCHANGED <<head, slot, trampoline, functors, status, aliased>>
    BY <1>1 DEF trampolineVars
  <2>1a. TrampolineTypeOK /\ FunctorsExact /\ Callable
    BY <1>1 DEF TInv
  <2>2. TrampolineTypeOK'
    BY <2>1, <2>1a DEF TrampolineTypeOK, Alive
  <2>3. FunctorsExact'
    BY <2>1, <2>1a DEF FunctorsExact
  <2>4. Callable'
    BY <2>1, <2>1a DEF Callable
  <2>5. (Listed' <=> Listed) /\ \A s \in Slot : Had(s)' <=> Had(s)
    BY <2>1 DEF Listed, FreeList, Had
  <2>6. QED
    BY <1>1, <2>1, <2>2, <2>3, <2>4, <2>5 DEF TInv
<1>2. QED
  BY <1>1, MakeStep, MoveStep, DeleteStep DEF TrampolineNext

\* The invariant holds
THEOREM TrampolineInvariant == TrampolineSpec => []TInv
<1>1. QED
  BY InitList, TrampolineStep, PTL DEF TrampolineSpec

-----------------------------------------------------------------------------
(* Trampolines: what the invariant says of the list.                       *)

\* A set of numbers that has an element has a least one
LEMMA LeastWrong ==
    ASSUME NEW T \in SUBSET Nat, T # {}
    PROVE  \E n \in T : \A i \in T : n <= i
<1>1. PICK n \in T : \A y \in T : ~ (<<y, n>> \in OpToRel(<, Nat))
  BY NatLessThanWellFounded, WFMin
<1>2. \A y \in T : ~ (y < n)
  BY <1>1 DEF OpToRel
<1>3. QED
  BY <1>2

\* The recursive function that walks the list is q, then NullSlot
LEMMA Walk ==
    ASSUME NEW k \in Nat, NEW q \in [1..k -> Slot], k <= Slots, FreeList(q, k)
    PROVE  \A n \in 0..Slots : FreeAt[n] = Place(q, k, n + 1)
<1> DEFINE g == [n \in 0..Slots |-> Place(q, k, n + 1)]
           Step(h, n) == IF n = 0 THEN head
                         ELSE LET s == h[n - 1]
                              IN  IF s \in Slot /\ slot[s].kind = "link" THEN slot[s].next
                                  ELSE NullSlot
<1>0. Slots \in Nat /\ NullSlot \notin Slot
  BY TrampolineAssumption DEF Slot, NullSlot
<1>1. ASSUME NEW n \in 0..Slots
      PROVE  Place(q, k, n + 1) = Step(g, n)
  <2>1. CASE n = 0
    BY <2>1 DEF FreeList
  <2>2. CASE n # 0
    <3>1. n - 1 \in 0..Slots /\ n \in 1..Slots /\ g[n - 1] = Place(q, k, n)
      BY <1>0, <2>2
    <3>2. CASE n <= k
      <4>1. Place(q, k, n) = q[n] /\ q[n] \in Slot /\ slot[q[n]] = Link(Place(q, k, n + 1))
        BY <3>1, <3>2 DEF FreeList, Place
      <4>2. slot[q[n]].kind = "link" /\ slot[q[n]].next = Place(q, k, n + 1)
        BY <4>1 DEF Link
      <4>3. QED
        BY <2>2, <3>1, <4>1, <4>2
    <3>3. CASE ~(n <= k)
      <4>1. Place(q, k, n) = NullSlot /\ Place(q, k, n + 1) = NullSlot
        BY <3>1, <3>3 DEF Place
      <4>2. QED
        BY <1>0, <2>2, <3>1, <4>1
    <3>4. QED
      BY <3>2, <3>3
  <2>3. QED
    BY <2>1, <2>2
<1>2. g = [n \in 0..Slots |-> Step(g, n)]
  BY <1>1
<1>3. FreeAt = CHOOSE h : h = [n \in 0..Slots |-> Step(h, n)]
  BY DEF FreeAt
<1> HIDE DEF g
<1>4. FreeAt = [n \in 0..Slots |-> Step(FreeAt, n)]
  BY <1>2, <1>3
<1>5. FreeAt[0] = head /\ g[0] = head
  BY <1>0, <1>2, <1>4
<1>6. ASSUME NEW n \in 0..Slots, n # 0, FreeAt[n - 1] = g[n - 1]
      PROVE  FreeAt[n] = g[n]
  <2>1. FreeAt[n] = Step(FreeAt, n) /\ g[n] = Step(g, n)
    BY <1>2, <1>4
  <2>2. QED
    BY <1>6, <2>1
<1> HIDE DEF Step
<1>7. \A n \in 0..Slots : FreeAt[n] = g[n]
  <2> DEFINE Wrong == {n \in 0..Slots : FreeAt[n] # g[n]}
  <2>1. SUFFICES ASSUME Wrong # {} PROVE FALSE
    OBVIOUS
  <2>2. Wrong \in SUBSET Nat
    BY <1>0
  <2>3. PICK n \in Wrong : \A i \in Wrong : n <= i
    <3> HIDE DEF Wrong
    <3>1. QED
      BY <2>1, <2>2, LeastWrong
  <2>4. n # 0 /\ n \in 0..Slots /\ n - 1 \in 0..Slots
    BY <1>0, <1>5, <2>3
  <2>5. FreeAt[n - 1] = g[n - 1]
    BY <2>3, <2>4
  <2>6. QED
    BY <1>6, <2>3, <2>4, <2>5
<1>8. QED
  BY <1>7 DEF g

\* The free list has as many slots as no trampoline has
LEMMA Left ==
    ASSUME NEW k \in Nat, NEW q \in [1..k -> Slot], FreeList(q, k)
    PROVE  /\ Slot \ {s \in Slot : Had(s)} = {q[i] : i \in 1..k}
           /\ k = Slots - Cardinality({s \in Slot : Had(s)})
           /\ k <= Slots
<1> DEFINE had == {s \in Slot : Had(s)}
           free == {q[i] : i \in 1..k}
<1>1. IsFiniteSet(Slot) /\ Cardinality(Slot) = Slots /\ Slots \in Nat
  BY TrampolineAssumption, FS_Interval DEF Slot
<1>2. Slot \ had = free
  <2>1. \A i \in 1..k : q[i] \in Slot
    OBVIOUS
  <2>2. \A s \in Slot : s \in free <=> ~Had(s)
    BY DEF FreeList
  <2>3. QED
    BY <2>1, <2>2
<1>3. q \in Bijection(1..k, free)
  <2>1. \A i, j \in 1..k : q[i] = q[j] => i = j
    BY DEF FreeList
  <2>2. q \in [1..k -> free] /\ \A x \in free : \E i \in 1..k : q[i] = x
    OBVIOUS
  <2>3. QED
    BY <2>1, <2>2 DEF Bijection, Injection, Surjection, IsInjective
<1>4. IsFiniteSet(1..k) /\ Cardinality(1..k) = k
  BY FS_Interval
<1> HIDE DEF had, free
<1>5. Cardinality(free) = k
  BY <1>3, <1>4, FS_Bijection DEF ExistsBijection
<1>6. /\ Cardinality(free) = Slots - Cardinality(Slot \cap had)
      /\ Slot \cap had = had
  <2>1. Slot \cap had = had
    BY DEF had
  <2>2. Cardinality(Slot \ had) = Slots - Cardinality(Slot \cap had)
    BY <1>1, FS_Difference
  <2>3. QED
    BY <1>2, <2>1, <2>2
<1>7. Cardinality(had) \in Nat
  BY <1>1, <1>6, FS_Subset, FS_CardinalityType
<1>8. k = Slots - Cardinality(had) /\ k <= Slots
  <2>1. k = Slots - Cardinality(had)
    BY <1>5, <1>6, Zenon
  <2>2. \A n, c \in Nat : n - c <= n
    OBVIOUS
  <2>3. Slots - Cardinality(had) <= Slots
    BY <1>1, <1>7, <2>2, Zenon
  <2>4. QED
    BY <2>1, <2>3, Zenon
<1>9. QED
  BY <1>2, <1>8 DEF had, free

\* The invariant makes the free list exact
LEMMA ListedExact == TInv => SlotsExact
<1>1. SUFFICES ASSUME TInv, ~aliased
               PROVE  LET had  == {s \in Slot : Holders(s) # {}}
                          left == Slots - Cardinality(had)
                      IN  /\ {FreeAt[n] : n \in 0..(left - 1)} = Slot \ had
                          /\ FreeAt[left] = NullSlot
                          /\ status = "crashed" => had = Slot
  BY DEF SlotsExact
<1> DEFINE had  == {s \in Slot : Had(s)}
           left == Slots - Cardinality(had)
<1>2. {s \in Slot : Holders(s) # {}} = had
  BY <1>1, HadHolders DEF TInv
<1>3. PICK k \in Nat : \E q \in [1..k -> Slot] : FreeList(q, k)
  BY <1>1 DEF TInv, Listed
<1>4. PICK q \in [1..k -> Slot] : FreeList(q, k)
  BY <1>3
<1>5. Slot \ had = {q[i] : i \in 1..k} /\ k = left /\ k <= Slots /\ Slots \in Nat
  BY <1>4, Left, TrampolineAssumption
<1>6. \A n \in 0..Slots : FreeAt[n] = Place(q, k, n + 1)
  BY <1>4, <1>5, Walk
<1>7. {FreeAt[n] : n \in 0..(k - 1)} = {q[i] : i \in 1..k}
  <2>1. ASSUME NEW n \in 0..(k - 1)
        PROVE  n + 1 \in 1..k /\ FreeAt[n] = q[n + 1]
    <3>1. n \in 0..Slots /\ n + 1 \in 1..k
      BY <1>5
    <3>2. QED
      BY <1>6, <3>1 DEF Place
  <2>2. ASSUME NEW i \in 1..k
        PROVE  i - 1 \in 0..(k - 1) /\ FreeAt[i - 1] = q[i]
    <3>1. i - 1 \in 0..(k - 1) /\ (i - 1) + 1 = i
      OBVIOUS
    <3>2. QED
      BY <2>1, <3>1
  <2>3. QED
    BY <2>1, <2>2
<1>8. FreeAt[k] = NullSlot
  <2>1. k \in 0..Slots /\ ~(k + 1 <= k)
    BY <1>5
  <2>2. QED
    BY <1>6, <2>1 DEF Place
<1>9. status = "crashed" => had = Slot
  BY <1>1 DEF TInv
<1> HIDE DEF had
<1>10. QED
  BY <1>2, <1>5, <1>7, <1>8, <1>9

\* The members of the trampolines and the free list keep their types
THEOREM TrampolineTypes == TrampolineSpec => []TrampolineTypeOK
<1>1. TInv => TrampolineTypeOK
  BY DEF TInv
<1>2. QED
  BY <1>1, TrampolineInvariant, PTL

\* Functors and slots have one owner each, through construction, moves and destruction
\* in any order, for any number of slots, variables and functors
THEOREM TrampolineOwnership == TrampolineSpec => []TrampolineSound
<1>1. TInv => TrampolineSound
  BY ListedExact DEF TInv, TrampolineSound
<1>2. QED
  BY <1>1, TrampolineInvariant, PTL

-----------------------------------------------------------------------------
(* Eithers: the inductive invariants.                                      *)

Datum == {Inline(s, x) : s \in Side, x \in Object} \cup {Heap(s, x) : s \in Side, x \in Object}

Storage == [which : Tag, data : Datum]

Content == Storage \cup {None}

\* Whether e is a value of side s, as a number
Of(e, s) == IF e # None /\ e.data.side = s THEN 1 ELSE 0

\* The variables of f that have a value of side s
On(f, s) == {c \in Cell : Of(f[c], s) = 1}

Written(f, c, e) == [f EXCEPT ![c] = e]

\* What is alive is what the variables hold, and one object for each swap that failed
CountsHold ==
    /\ \A s \in Side : Cardinality(On(cell, s)) <= live[s]
    /\ live["LEFT"] + live["RIGHT"]
       = Cardinality(On(cell, "LEFT")) + Cardinality(On(cell, "RIGHT")) + swapThrows

EType ==
    /\ cell \in [Cell -> Content]
    /\ live \in [Side -> Nat]
    /\ outcome \in {"done", "threw", "undefined", "moved"}
    /\ swapThrows \in 0..MaxSwapThrows
    /\ crossed \subseteq Cell
    /\ CountsHold

AllDescribed == \A c \in Cell : Exists(c) => (Described(cell[c]) <=> c \notin crossed)

-----------------------------------------------------------------------------
(* Eithers: lemmas.                                                        *)

\* What is in a storage
LEMMA StorageFacts ==
    ASSUME NEW e \in Storage
    PROVE  /\ e # None /\ e.which \in Tag
           /\ e.data \in Datum /\ e.data.side \in Side /\ e.data.object \in Object
           /\ e.data.kind \in {"inline", "heap"}
<1>1. e.which \in Tag /\ e.data \in Datum
  BY DEF Storage
<1>2. e # None
  BY <1>1 DEF Tag, None
<1>3. PICK s \in Side, x \in Object : e.data = Inline(s, x) \/ e.data = Heap(s, x)
  BY <1>1 DEF Datum
<1>4. QED
  BY <1>1, <1>2, <1>3 DEF Inline, Heap

\* A tag with a value of either kind is a storage, and its members are those given
LEMMA StorageMade ==
    ASSUME NEW w \in Tag, NEW s \in Side, NEW x \in Object
    PROVE  /\ [which |-> w, data |-> Inline(s, x)] \in Storage
           /\ [which |-> w, data |-> Heap(s, x)] \in Storage
           /\ Inline(s, x).side = s /\ Inline(s, x).object = x /\ Inline(s, x).kind = "inline"
           /\ Heap(s, x).side = s /\ Heap(s, x).object = x /\ Heap(s, x).kind = "heap"
BY DEF Storage, Datum, Inline, Heap

\* One variable changes: what that does to the number of values of a side
LEMMA CountOne ==
    ASSUME NEW f \in [Cell -> Content], NEW c \in Cell,
           NEW e \in Content, NEW s \in Side
    PROVE  /\ Cardinality(On(f, s)) \in Nat /\ Cardinality(On(Written(f, c, e), s)) \in Nat
           /\ Cardinality(On(Written(f, c, e), s))
              = Cardinality(On(f, s)) - Of(f[c], s) + Of(e, s)
<1> DEFINE rest == On(f, s) \ {c}
           g == Written(f, c, e)
<1>1. IsFiniteSet(On(f, s)) /\ IsFiniteSet(rest) /\ Cardinality(On(f, s)) \in Nat
  <2>1. On(f, s) \in SUBSET Cell
    BY DEF On
  <2>2. QED
    BY <2>1, EitherAssumption, FS_Subset, FS_CardinalityType
<1>2. Cardinality(rest) = (IF c \in On(f, s) THEN Cardinality(On(f, s)) - 1
                           ELSE Cardinality(On(f, s))) /\ Cardinality(rest) \in Nat
  BY <1>1, FS_RemoveElement, FS_CardinalityType
<1>3. c \in On(f, s) <=> Of(f[c], s) = 1
  BY DEF On
<1>4. g[c] = e /\ \A d \in Cell : d # c => g[d] = f[d]
  BY DEF Written
<1>5. On(g, s) = IF Of(e, s) = 1 THEN rest \cup {c} ELSE rest
  BY <1>4 DEF On
<1>6. c \notin rest
  OBVIOUS
<1> HIDE DEF rest, g
<1>7. Cardinality(rest \cup {c}) = Cardinality(rest) + 1
  BY <1>1, <1>6, FS_AddElement
<1>8. Of(f[c], s) \in {0, 1} /\ Of(e, s) \in {0, 1}
  BY DEF Of
<1>9. Cardinality(On(g, s)) = Cardinality(rest) + Of(e, s)
  <2>1. CASE Of(e, s) = 1
    BY <1>5, <1>7, <2>1
  <2>2. CASE Of(e, s) = 0
    BY <1>2, <1>5, <2>2
  <2>3. QED
    BY <1>8, <2>1, <2>2
<1>10. Cardinality(On(f, s)) = Cardinality(rest) + Of(f[c], s)
  BY <1>1, <1>2, <1>3, <1>8
<1>11. QED
  BY <1>1, <1>2, <1>8, <1>9, <1>10 DEF g

\* The same of the variables themselves
LEMMA CountCell ==
    ASSUME cell \in [Cell -> Content], NEW c \in Cell, NEW e \in Content, NEW s \in Side,
           cell' = [cell EXCEPT ![c] = e]
    PROVE  /\ Cardinality(On(cell, s)) \in Nat /\ Cardinality(On(cell', s)) \in Nat
           /\ Cardinality(On(cell', s)) = Cardinality(On(cell, s)) - Of(cell[c], s) + Of(e, s)
BY CountOne DEF Written

-----------------------------------------------------------------------------
(* Eithers: types and counts, whatever throws.                             *)

\* One variable is written and what is alive follows
LEMMA PutType ==
    ASSUME EType, NEW c \in Cell, NEW e \in Content,
           cell' = [cell EXCEPT ![c] = e],
           live' \in [Side -> Int],
           \A s \in Side : live'[s] = live[s] - Of(cell[c], s) + Of(e, s),
           outcome' \in {"done", "threw"}, swapThrows' = swapThrows,
           crossed' \subseteq Cell
    PROVE  EType'
<1>1. /\ cell \in [Cell -> Content] /\ live \in [Side -> Nat]
      /\ swapThrows \in 0..MaxSwapThrows /\ CountsHold
  BY DEF EType
<1>2. ASSUME NEW s \in Side
      PROVE  /\ Cardinality(On(cell, s)) \in Nat /\ Cardinality(On(cell', s)) \in Nat
             /\ Cardinality(On(cell', s)) <= live'[s]
             /\ live'[s] \in Nat
             /\ live'[s] - Cardinality(On(cell', s)) = live[s] - Cardinality(On(cell, s))
  <2> DEFINE m == Cardinality(On(cell, s))
             n == Cardinality(On(cell', s))
  <2>1. m \in Nat /\ n \in Nat /\ n = m - Of(cell[c], s) + Of(e, s)
    <3>1. cell \in [Cell -> Content] /\ cell' = [cell EXCEPT ![c] = e]
      BY <1>1
    <3> HIDE DEF m, n
    <3>2. /\ Cardinality(On(cell, s)) \in Nat /\ Cardinality(On(cell', s)) \in Nat
          /\ Cardinality(On(cell', s)) = Cardinality(On(cell, s)) - Of(cell[c], s) + Of(e, s)
      BY <3>1, CountCell
    <3>3. QED
      BY <3>1, <3>2 DEF m, n
  <2>2. m <= live[s] /\ live[s] \in Nat
    BY <1>1 DEF CountsHold
  <2>3. Of(cell[c], s) \in {0, 1} /\ Of(e, s) \in {0, 1}
    BY DEF Of
  <2> HIDE DEF m, n
  <2>4. n <= live'[s] /\ live'[s] \in Nat /\ live'[s] - n = live[s] - m
    BY <2>1, <2>2, <2>3
  <2>5. QED
    BY <2>1, <2>4 DEF m, n
<1>3. CountsHold'
  <2>1. "LEFT" \in Side /\ "RIGHT" \in Side
    BY DEF Side
  <2>2. live["LEFT"] + live["RIGHT"]
        = Cardinality(On(cell, "LEFT")) + Cardinality(On(cell, "RIGHT")) + swapThrows
    BY <1>1 DEF CountsHold
  <2>3. /\ Cardinality(On(cell, "LEFT")) \in Nat /\ Cardinality(On(cell, "RIGHT")) \in Nat
        /\ Cardinality(On(cell', "LEFT")) \in Nat /\ Cardinality(On(cell', "RIGHT")) \in Nat
        /\ live["LEFT"] \in Nat /\ live["RIGHT"] \in Nat
        /\ live'["LEFT"] \in Nat /\ live'["RIGHT"] \in Nat /\ swapThrows \in Nat
        /\ live'["LEFT"] - Cardinality(On(cell', "LEFT")) = live["LEFT"] - Cardinality(On(cell, "LEFT"))
        /\ live'["RIGHT"] - Cardinality(On(cell', "RIGHT")) = live["RIGHT"] - Cardinality(On(cell, "RIGHT"))
    <3>1. MaxSwapThrows \in Nat /\ swapThrows \in 0..MaxSwapThrows /\ live \in [Side -> Nat]
      BY <1>1, EitherAssumption
    <3>2. swapThrows \in Nat /\ live["LEFT"] \in Nat /\ live["RIGHT"] \in Nat
      BY <2>1, <3>1
    <3>3. ASSUME NEW s \in Side
          PROVE  /\ Cardinality(On(cell, s)) \in Nat /\ Cardinality(On(cell', s)) \in Nat
                 /\ live'[s] \in Nat
                 /\ live'[s] - Cardinality(On(cell', s)) = live[s] - Cardinality(On(cell, s))
      BY <1>2
    <3>4. QED
      BY <2>1, <3>2, <3>3
  <2>4. live'["LEFT"] + live'["RIGHT"]
        = Cardinality(On(cell', "LEFT")) + Cardinality(On(cell', "RIGHT")) + swapThrows'
    BY <2>2, <2>3
  <2>5. QED
    BY <1>2, <2>4 DEF CountsHold
<1>4. live' \in [Side -> Nat]
  BY <1>2
<1>5. cell' \in [Cell -> Content]
  BY <1>1
<1>6. QED
  BY <1>1, <1>3, <1>4, <1>5 DEF EType

\* An operation that changes nothing but its outcome
LEMMA SameType ==
    ASSUME EType, UNCHANGED <<cell, live, swapThrows, crossed>>,
           outcome' \in {"done", "threw", "undefined", "moved"}
    PROVE  EType'
<1>1. CountsHold'
  BY DEF EType, CountsHold
<1>2. QED
  BY <1>1 DEF EType

\* What a variable that exists has
LEMMA CellFacts ==
    ASSUME EType, NEW c \in Cell, Exists(c)
    PROVE  cell[c] \in Storage
BY DEF EType, Exists, Content

\* A constructor counts its object
LEMMA ConstructType ==
    ASSUME EType, NEW c \in Cell, NEW side \in Side, NEW x \in Object, Construct(c, side, x)
    PROVE  EType'
<1> DEFINE e == [which |-> side, data |-> Inline(side, x)]
<1>1. side \in Tag
  BY DEF Side, Tag
<1>2. e \in Storage /\ e.data.side = side
  BY <1>1, StorageMade
<1>2a. e # None
  BY <1>2, StorageFacts
<1>3. cell' = [cell EXCEPT ![c] = e] /\ live' = [live EXCEPT ![side] = @ + 1]
      /\ outcome' = "done" /\ swapThrows' = swapThrows /\ cell[c] = None
      /\ crossed' \subseteq Cell
  BY DEF Construct, Counted, Exists, EType
<1>4. live \in [Side -> Nat]
  BY DEF EType
<1>5. \A s \in Side : Of(cell[c], s) = 0 /\ Of(e, s) = (IF s = side THEN 1 ELSE 0)
  BY <1>2, <1>2a, <1>3 DEF Of
<1> HIDE DEF e
<1>6. live' \in [Side -> Int] /\ \A s \in Side : live'[s] = live[s] - Of(cell[c], s) + Of(e, s)
  BY <1>3, <1>4, <1>5
<1>7. QED
  BY <1>2, <1>3, <1>6, PutType DEF Content

\* A destructor too
LEMMA DestroyType ==
    ASSUME EType, NEW c \in Cell, Destroy(c)
    PROVE  EType'
<1>1. CASE /\ cell' = [cell EXCEPT ![c] = None]
           /\ live' = Counted(cell[c].data.side, -1)
           /\ outcome' = "done" /\ UNCHANGED <<swapThrows, crossed>>
  <2>1. cell[c] \in Storage /\ cell[c] # None /\ cell[c].data.side \in Side
    BY CellFacts, StorageFacts DEF Destroy
  <2>2. live \in [Side -> Nat]
    BY DEF EType
  <2>3. \A s \in Side : Of(cell[c], s) = (IF s = cell[c].data.side THEN 1 ELSE 0) /\ Of(None, s) = 0
    BY <2>1 DEF Of
  <2>4. live' \in [Side -> Int]
        /\ \A s \in Side : live'[s] = live[s] - Of(cell[c], s) + Of(None, s)
    BY <1>1, <2>1, <2>2, <2>3 DEF Counted
  <2>5. crossed' \subseteq Cell
    BY <1>1 DEF EType
  <2>6. QED
    BY <1>1, <2>4, <2>5, PutType DEF Content
<1>2. CASE Undefined
  BY <1>2, SameType DEF Undefined, UndefinedBy
<1>3. QED
  BY <1>1, <1>2 DEF Destroy

\* An emplacement releases the old value and counts the new one, or moves the old one
LEMMA EmplaceType ==
    ASSUME EType, NEW c \in Cell, NEW side \in Side, NEW x \in Object, Emplace(c, side, x)
    PROVE  EType'
<1> DEFINE old == cell[c].data.side
<1>1. /\ cell[c] \in Storage /\ cell[c] # None /\ old \in Side /\ cell[c].data.object \in Object
  BY CellFacts, StorageFacts DEF Emplace
<1>2. live \in [Side -> Nat]
  BY DEF EType
<1>3. side \in Tag /\ ToPtr(side) \in Tag
  BY DEF Side, Tag, ToPtr
<1>4. \A s \in Side : Of(cell[c], s) = (IF s = old THEN 1 ELSE 0)
  BY <1>1 DEF Of
<1>5. CASE UNCHANGED swapThrows /\ Emplaced(c, side, x)
  <2> DEFINE e == [which |-> side, data |-> Inline(side, x)]
  <2>1. e \in Storage /\ e.data.side = side
    BY <1>3, StorageMade, Zenon
  <2>1a. e # None
    BY <2>1, StorageFacts
  <2>2. \A s \in Side : Of(e, s) = (IF s = side THEN 1 ELSE 0)
    BY <2>1, <2>1a DEF Of
  <2>3. cell' = [cell EXCEPT ![c] = e] /\ outcome' = "done" /\ crossed' \subseteq Cell
        /\ live' = [[live EXCEPT ![old] = @ + (-1)] EXCEPT ![side] = @ + 1]
    BY <1>5 DEF Emplaced, Counted, EType
  <2> HIDE DEF e, old
  <2>4. live' \in [Side -> Int] /\ \A s \in Side : live'[s] = live[s] - Of(cell[c], s) + Of(e, s)
    BY <1>1, <1>2, <1>4, <2>2, <2>3
  <2>5. QED
    BY <1>5, <2>1, <2>3, <2>4, PutType DEF Content
<1>6. CASE UNCHANGED swapThrows /\ EmplaceFailed(c, side)
  <2> DEFINE e == [which |-> ToPtr(side), data |-> Heap(old, cell[c].data.object)]
  <2> HIDE DEF old
  <2>0. /\ e.data = Heap(old, cell[c].data.object)
        /\ e = [which |-> ToPtr(side), data |-> Heap(old, cell[c].data.object)]
        /\ old \in Side /\ cell[c].data.object \in Object
    BY <1>1
  <2> HIDE DEF e
  <2>1. e \in Storage /\ e.data.side = old
    BY <1>3, <2>0, StorageMade
  <2>1a. e # None
    BY <2>1, StorageFacts
  <2>2. \A s \in Side : Of(e, s) = (IF s = old THEN 1 ELSE 0)
    BY <2>1, <2>1a DEF Of
  <2>3. cell' = [cell EXCEPT ![c] = e] /\ outcome' = "threw" /\ live' = live
        /\ crossed' \subseteq Cell
    BY <1>6, <2>0 DEF EmplaceFailed, old, Crossing, EType
  <2>4. live' \in [Side -> Int] /\ \A s \in Side : live'[s] = live[s] - Of(cell[c], s) + Of(e, s)
    BY <1>1, <1>2, <1>4, <2>2, <2>3
  <2>5. QED
    BY <1>6, <2>1, <2>3, <2>4, PutType DEF Content
<1>7. CASE Undefined \/ ThrowsEarly
  BY <1>7, SameType DEF Undefined, UndefinedBy, ThrowsEarly
<1>8. QED
  BY <1>5, <1>6, <1>7 DEF Emplace

\* The object of a variable may be emplaced in another
LEMMA ObjectOf ==
    ASSUME EType, NEW d \in Cell, Exists(d)
    PROVE  SideOf(cell[d].which) \in Side /\ cell[d].data.object \in Object
<1>1. cell[d].data.object \in Object
  BY CellFacts, StorageFacts
<1>2. QED
  BY <1>1 DEF SideOf, Side

\* Two variables change
LEMMA CountTwo ==
    ASSUME NEW f \in [Cell -> Content], NEW c \in Cell, NEW d \in Cell, c # d,
           NEW e \in Content, NEW h \in Content, NEW s \in Side,
           NEW p, p = Written(Written(f, c, e), d, h)
    PROVE  /\ Cardinality(On(f, s)) \in Nat /\ Cardinality(On(p, s)) \in Nat
           /\ Cardinality(On(p, s))
              = Cardinality(On(f, s)) - Of(f[c], s) - Of(f[d], s) + Of(e, s) + Of(h, s)
<1> DEFINE g == Written(f, c, e)
<1>1. g \in [Cell -> Content] /\ g[d] = f[d] /\ p = Written(g, d, h)
  BY DEF Written
<1>2. /\ Cardinality(On(f, s)) \in Nat /\ Cardinality(On(g, s)) \in Nat
      /\ Cardinality(On(g, s)) = Cardinality(On(f, s)) - Of(f[c], s) + Of(e, s)
  BY CountOne
<1> HIDE DEF g
<1>3. /\ Cardinality(On(Written(g, d, h), s)) \in Nat
      /\ Cardinality(On(Written(g, d, h), s)) = Cardinality(On(g, s)) - Of(g[d], s) + Of(h, s)
  BY <1>1, CountOne
<1>4. \A x : Of(x, s) \in {0, 1}
  BY DEF Of
<1>5. Of(f[c], s) \in Int /\ Of(f[d], s) \in Int /\ Of(e, s) \in Int /\ Of(h, s) \in Int
  BY <1>4
<1>6. QED
  BY <1>1, <1>2, <1>3, <1>5

\* The same of the variables themselves
LEMMA PutTwo ==
    ASSUME cell \in [Cell -> Content], NEW c \in Cell, NEW d \in Cell, c # d,
           NEW e \in Content, NEW h \in Content, NEW s \in Side,
           cell' = Written(Written(cell, c, e), d, h)
    PROVE  /\ Cardinality(On(cell, s)) \in Nat /\ Cardinality(On(cell', s)) \in Nat
           /\ Cardinality(On(cell', s))
              = Cardinality(On(cell, s)) - Of(cell[c], s) - Of(cell[d], s) + Of(e, s) + Of(h, s)
BY CountTwo

\* A swap counts nothing, one that failed at most adds what is lost
LEMMA SwapType ==
    ASSUME EType, NEW c \in Cell, NEW d \in Cell, Swap(c, d)
    PROVE  EType'
<1> DEFINE l == cell[c].data
           r == cell[d].data
<1>1. /\ c # d /\ cell[c] \in Storage /\ cell[d] \in Storage
      /\ cell[c] # None /\ cell[d] # None
      /\ l.side \in Side /\ r.side \in Side /\ l.object \in Object /\ r.object \in Object
      /\ cell[c].which \in Tag /\ cell[d].which \in Tag
  <2>1. c # d /\ Exists(c) /\ Exists(d)
    BY DEF Swap
  <2>2. QED
    BY <2>1, CellFacts, StorageFacts
<1>2. /\ live \in [Side -> Nat] /\ CountsHold /\ cell \in [Cell -> Content]
      /\ swapThrows \in 0..MaxSwapThrows
  BY DEF EType, Content
<1>3. \A s \in Side : /\ Of(cell[c], s) = (IF s = l.side THEN 1 ELSE 0)
                      /\ Of(cell[d], s) = (IF s = r.side THEN 1 ELSE 0)
  BY <1>1 DEF Of
<1>4. \A w \in Tag : ToPtr(w) \in Tag
  BY DEF ToPtr, Tag
<1>5. \A s \in Side : s \in Tag
  BY DEF Side, Tag
<1>6. ASSUME NEW e \in Storage, NEW h \in Storage, cell' = [cell EXCEPT ![c] = e, ![d] = h],
             \/ e.data.side = l.side /\ h.data.side = r.side
             \/ e.data.side = r.side /\ h.data.side = l.side,
             live' \in [Side -> Nat], \A s \in Side : live[s] <= live'[s],
             swapThrows' \in 0..MaxSwapThrows, outcome' \in {"done", "threw"},
             crossed' \subseteq Cell,
             live'["LEFT"] + live'["RIGHT"] - swapThrows' = live["LEFT"] + live["RIGHT"] - swapThrows
      PROVE  EType'
  <2>1. e # None /\ h # None /\ e \in Content /\ h \in Content
    BY <1>6, StorageFacts DEF Content
  <2>2. \A s \in Side : /\ Of(e, s) = (IF s = e.data.side THEN 1 ELSE 0)
                        /\ Of(h, s) = (IF s = h.data.side THEN 1 ELSE 0)
    BY <2>1 DEF Of
  <2>3. ASSUME NEW s \in Side
        PROVE  Cardinality(On(cell', s)) = Cardinality(On(cell, s))
               /\ Cardinality(On(cell, s)) \in Nat
    <3>1. cell' = Written(Written(cell, c, e), d, h) /\ e \in Content /\ h \in Content /\ c # d
      BY <1>1, <1>6, <2>1 DEF Written
    <3>2. /\ Cardinality(On(cell, s)) \in Nat /\ Cardinality(On(cell', s)) \in Nat
          /\ Cardinality(On(cell', s))
             = Cardinality(On(cell, s)) - Of(cell[c], s) - Of(cell[d], s) + Of(e, s) + Of(h, s)
      BY <1>2, <3>1, PutTwo
    <3>3. /\ Of(cell[c], s) = (IF s = l.side THEN 1 ELSE 0)
          /\ Of(cell[d], s) = (IF s = r.side THEN 1 ELSE 0)
          /\ Of(e, s) = (IF s = e.data.side THEN 1 ELSE 0)
          /\ Of(h, s) = (IF s = h.data.side THEN 1 ELSE 0)
      BY <1>3, <2>2
    <3>4. QED
      BY <1>6, <3>2, <3>3
  <2>4. CountsHold'
    <3>1. ASSUME NEW s \in Side
          PROVE  Cardinality(On(cell', s)) <= live'[s]
      <4>1. Cardinality(On(cell, s)) <= live[s]
        BY <1>2 DEF CountsHold
      <4>2. live[s] <= live'[s] /\ live[s] \in Nat /\ live'[s] \in Nat
        BY <1>2, <1>6
      <4>3. QED
        BY <2>3, <4>1, <4>2
    <3>2. "LEFT" \in Side /\ "RIGHT" \in Side
      BY DEF Side
    <3>3. /\ Cardinality(On(cell', "LEFT")) = Cardinality(On(cell, "LEFT"))
          /\ Cardinality(On(cell', "RIGHT")) = Cardinality(On(cell, "RIGHT"))
          /\ Cardinality(On(cell, "LEFT")) \in Nat /\ Cardinality(On(cell, "RIGHT")) \in Nat
      BY <2>3, <3>2
    <3>4. /\ live["LEFT"] \in Nat /\ live["RIGHT"] \in Nat /\ live'["LEFT"] \in Nat
          /\ live'["RIGHT"] \in Nat /\ swapThrows \in Nat /\ swapThrows' \in Nat
      BY <1>2, <1>6, <3>2, EitherAssumption
    <3>5. live["LEFT"] + live["RIGHT"]
          = Cardinality(On(cell, "LEFT")) + Cardinality(On(cell, "RIGHT")) + swapThrows
      BY <1>2 DEF CountsHold
    <3>6. live'["LEFT"] + live'["RIGHT"]
          = Cardinality(On(cell', "LEFT")) + Cardinality(On(cell', "RIGHT")) + swapThrows'
      BY <1>6, <3>3, <3>4, <3>5
    <3>7. QED
      BY <3>1, <3>6 DEF CountsHold
  <2>5. cell' \in [Cell -> Content]
    BY <1>2, <1>6, <2>1 DEF Content
  <2>6. /\ live' \in [Side -> Nat] /\ swapThrows' \in 0..MaxSwapThrows
        /\ outcome' \in {"done", "threw", "undefined", "moved"} /\ crossed' \subseteq Cell
    BY <1>6
  <2>7. QED
    BY <2>4, <2>5, <2>6 DEF EType
<1>7. CASE Swapped(c, d)
  <2>1. /\ [which |-> r.side, data |-> Inline(r.side, r.object)] \in Storage
        /\ [which |-> l.side, data |-> Inline(l.side, l.object)] \in Storage
        /\ Inline(r.side, r.object).side = r.side /\ Inline(l.side, l.object).side = l.side
    <3> HIDE DEF l, r
    <3>1. ASSUME NEW side \in Side, NEW x \in Object
          PROVE  /\ [which |-> side, data |-> Inline(side, x)] \in Storage
                 /\ Inline(side, x).side = side
      BY <1>5, StorageMade, Zenon
    <3>2. QED
      BY <1>1, <3>1
  <2>2. /\ cell' = [cell EXCEPT ![c] = [which |-> r.side, data |-> Inline(r.side, r.object)],
                                ![d] = [which |-> l.side, data |-> Inline(l.side, l.object)]]
        /\ outcome' = "done" /\ live' = live /\ swapThrows' = swapThrows /\ crossed' = crossed
    BY <1>7 DEF Swapped
  <2>3. (\A s \in Side : live[s] <= live'[s]) /\ crossed' \subseteq Cell
    BY <1>2, <2>2 DEF EType
  <2> HIDE DEF l, r
  <2>4. QED
    BY <1>2, <1>6, <2>1, <2>2, <2>3
<1>8. ASSUME NEW first \in BOOLEAN, SwapFailed(c, d, first)
      PROVE  EType'
  <2> DEFINE v == ToPtr(IF first THEN cell[c].which ELSE r.side)
             w == ToPtr(cell[d].which)
  <2>1. v \in Tag /\ w \in Tag
    BY <1>1, <1>4, <1>5
  <2>2. /\ cell' = [cell EXCEPT ![c] = [which |-> v, data |-> Heap(l.side, l.object)],
                                ![d] = [which |-> w, data |-> Heap(r.side, r.object)]]
        /\ live' = [live EXCEPT ![r.side] = @ + 1]
        /\ outcome' = "threw" /\ swapThrows' = swapThrows + 1 /\ swapThrows < MaxSwapThrows
        /\ crossed' \subseteq Cell
    BY <1>8 DEF SwapFailed, Counted, Crossing, EType
  <2>3. /\ [which |-> v, data |-> Heap(l.side, l.object)] \in Storage
        /\ [which |-> w, data |-> Heap(r.side, r.object)] \in Storage
        /\ Heap(r.side, r.object).side = r.side /\ Heap(l.side, l.object).side = l.side
    <3> HIDE DEF v, w, l, r
    <3>1. ASSUME NEW u \in Tag, NEW side \in Side, NEW x \in Object
          PROVE  /\ [which |-> u, data |-> Heap(side, x)] \in Storage
                 /\ Heap(side, x).side = side
      BY StorageMade
    <3>2. QED
      BY <1>1, <2>1, <3>1
  <2>4. swapThrows' \in 0..MaxSwapThrows /\ swapThrows \in Nat
    BY <1>2, <2>2, EitherAssumption
  <2>5. /\ live' \in [Side -> Nat] /\ \A s \in Side : live[s] <= live'[s]
        /\ live'["LEFT"] + live'["RIGHT"] - swapThrows' = live["LEFT"] + live["RIGHT"] - swapThrows
    <3> HIDE DEF l, r, v, w
    <3>1. r.side \in {"LEFT", "RIGHT"} /\ live \in [{"LEFT", "RIGHT"} -> Nat]
      BY <1>1, <1>2 DEF Side
    <3>2. live' = [live EXCEPT ![r.side] = @ + 1] /\ swapThrows' = swapThrows + 1
      BY <2>2
    <3>3. live' \in [{"LEFT", "RIGHT"} -> Nat] /\ \A s \in {"LEFT", "RIGHT"} : live[s] <= live'[s]
      BY <3>1, <3>2
    <3>4. live'["LEFT"] + live'["RIGHT"] = live["LEFT"] + live["RIGHT"] + 1
      <4>1. CASE r.side = "LEFT"
        BY <3>1, <3>2, <4>1
      <4>2. CASE r.side = "RIGHT"
        BY <3>1, <3>2, <4>2
      <4>3. QED
        BY <3>1, <4>1, <4>2
    <3>5. live["LEFT"] \in Nat /\ live["RIGHT"] \in Nat /\ live'["LEFT"] \in Nat /\ live'["RIGHT"] \in Nat
      BY <3>1, <3>3
    <3>6. QED
      BY <2>4, <3>2, <3>3, <3>4, <3>5 DEF Side
  <2> HIDE DEF l, r, v, w
  <2>6. QED
    BY <1>6, <2>2, <2>3, <2>4, <2>5
<1>9. CASE Undefined \/ ThrowsEarly
  BY <1>9, SameType DEF Undefined, UndefinedBy, ThrowsEarly
<1>10. QED
  BY <1>7, <1>8, <1>9 DEF Swap

\* Every step keeps the types and counts
LEMMA ETypeStep == EType /\ [EitherNext]_eitherVars => EType'
<1>1. SUFFICES ASSUME EType, EitherNext
               PROVE  EType'
  <2>1. ASSUME EType, UNCHANGED eitherVars
        PROVE  EType'
    <3>1. UNCHANGED <<cell, live, swapThrows, crossed>> /\ outcome' = outcome
      BY <2>1 DEF eitherVars
    <3>2. QED
      BY <2>1, <3>1, SameType DEF EType
  <2>2. QED
    BY <2>1
<1>2. PICK c \in Cell :
          \/ \E s \in Side, x \in Object : Construct(c, s, x) \/ Emplace(c, s, x)
          \/ \E d \in Cell : Copy(c, d) \/ Move(c, d) \/ AssignEither(c, d) \/ Swap(c, d)
          \/ Destroy(c)
  BY <1>1 DEF EitherNext
<1>3. ASSUME NEW s \in Side, NEW x \in Object, Construct(c, s, x) \/ Emplace(c, s, x)
      PROVE  EType'
  BY <1>1, <1>3, ConstructType, EmplaceType
<1>4. ASSUME NEW d \in Cell, Copy(c, d)
      PROVE  EType'
  <2>1. CASE Construct(c, SideOf(cell[d].which), cell[d].data.object)
    <3>1. SideOf(cell[d].which) \in Side /\ cell[d].data.object \in Object
      BY <1>1, <1>4, ObjectOf DEF Copy
    <3>2. QED
      BY <1>1, <2>1, <3>1, ConstructType
  <2>2. CASE Undefined \/ ThrowsEarly
    BY <1>1, <2>2, SameType DEF Undefined, UndefinedBy, ThrowsEarly
  <2>3. QED
    BY <1>4, <2>1, <2>2 DEF Copy
<1>5. ASSUME NEW d \in Cell, Move(c, d)
      PROVE  EType'
  BY <1>1, <1>5, SameType DEF Move, UndefinedBy
<1>6. ASSUME NEW d \in Cell, AssignEither(c, d)
      PROVE  EType'
  <2>1. CASE Emplace(c, SideOf(cell[d].which), cell[d].data.object)
    <3>1. SideOf(cell[d].which) \in Side /\ cell[d].data.object \in Object
      BY <1>1, <1>6, ObjectOf DEF AssignEither
    <3>2. QED
      BY <1>1, <2>1, <3>1, EmplaceType
  <2>2. CASE Undefined
    BY <1>1, <2>2, SameType DEF Undefined, UndefinedBy
  <2>3. QED
    BY <1>6, <2>1, <2>2 DEF AssignEither
<1>7. ASSUME NEW d \in Cell, Swap(c, d)
      PROVE  EType'
  BY <1>1, <1>7, SwapType
<1>8. CASE Destroy(c)
  BY <1>1, <1>8, DestroyType
<1>9. QED
  BY <1>2, <1>3, <1>4, <1>5, <1>6, <1>7, <1>8

-----------------------------------------------------------------------------
(* Eithers: tags and values.                                               *)

\* A variable that exists is described unless a constructor of the other side failed in it
AllDescribedOr == AllDescribed /\ \A c \in crossed : Exists(c)

\* What makes an operation on c undefined
Cause(c) == Exists(c) /\ (cell[c].which = "LEFT_PTR" \/ c \in crossed)

SoundInv == EType /\ AllDescribedOr /\ UndefinedHasCause

\* What a step that throws does to the values
Kept ==
    outcome' = "threw" =>
        \A c \in Cell : cell'[c] # cell[c] =>
            /\ Exists(c) /\ cell'[c] # None
            /\ Described(cell'[c]) <=> c \notin crossed'
            /\ Contents(c)' = Contents(c)

SoundStep == AllDescribedOr' /\ UndefinedHasCause' /\ Kept

\* A storage just constructed; one moved to the heap is described if its tag names its side
LEMMA MadeDescribed ==
    ASSUME NEW side \in Side, NEW x \in Object
    PROVE  /\ Described([which |-> side, data |-> Inline(side, x)])
           /\ \A w \in Tag : Described([which |-> ToPtr(w), data |-> Heap(side, x)]) <=> SideOf(w) = side
BY DEF Described, Inline, Heap, SideOf, ToPtr, Side, Tag

\* A value in a variable that was not crossed can be read and, unless its tag is
\* LEFT_PTR, destroyed; one in a variable that was can not
LEMMA ReadableFacts ==
    ASSUME SoundInv, NEW c \in Cell, Exists(c)
    PROVE  /\ Described(cell[c]) <=> c \notin crossed
           /\ c \notin crossed => /\ Readable(c, SideOf(cell[c].which))
                                  /\ SideOf(cell[c].which) = cell[c].data.side
           /\ \A side : Readable(c, side) => c \notin crossed
           /\ Destroyable(c) => c \notin crossed
           /\ ~Cause(c) => Destroyable(c) /\ c \notin crossed
           /\ cell[c].which \in Tag
<1>1. Described(cell[c]) <=> c \notin crossed
  BY DEF SoundInv, AllDescribedOr, AllDescribed
<1>2. cell[c].which \in Tag
  BY CellFacts, StorageFacts DEF SoundInv
<1>3. QED
  BY <1>1, <1>2 DEF Readable, Destroyable, Described, Cause

\* A step that changes no variable
LEMMA StillSound ==
    ASSUME SoundInv, cell' = cell, crossed' = crossed,
           outcome' = "undefined" => \E c \in Cell : Cause(c)
    PROVE  SoundStep
<1>1. AllDescribedOr'
  BY DEF SoundInv, AllDescribedOr, AllDescribed, Exists
<1>2. UndefinedHasCause' /\ Kept
  BY DEF UndefinedHasCause, Kept, Cause, Exists
<1>3. QED
  BY <1>1, <1>2 DEF SoundStep

\* A step that writes one variable, which was not crossed, and does not throw
LEMMA WriteSound ==
    ASSUME SoundInv, NEW c \in Cell, NEW e, cell' = [cell EXCEPT ![c] = e],
           e # None => Described(e), outcome' = "done", crossed' = crossed, c \notin crossed
    PROVE  SoundStep
<1>1. cell \in [Cell -> Content]
  BY DEF SoundInv, EType
<1>2. \A d \in Cell : cell'[d] = IF d = c THEN e ELSE cell[d]
  BY <1>1
<1>3. AllDescribedOr'
  <2>1. crossed \subseteq Cell
    BY DEF SoundInv, EType
  <2>2. QED
    BY <1>2, <2>1 DEF SoundInv, AllDescribedOr, AllDescribed, Exists
<1>4. UndefinedHasCause' /\ Kept
  BY DEF UndefinedHasCause, Kept
<1>5. QED
  BY <1>3, <1>4 DEF SoundStep

\* A constructor
LEMMA ConstructSound ==
    ASSUME SoundInv, NEW c \in Cell, NEW side \in Side, NEW x \in Object, Construct(c, side, x)
    PROVE  SoundStep
<1> DEFINE e == [which |-> side, data |-> Inline(side, x)]
<1>1. Described(e) /\ cell' = [cell EXCEPT ![c] = e] /\ outcome' = "done" /\ crossed' = crossed
  BY MadeDescribed DEF Construct
<1>2. c \notin crossed
  BY DEF Construct, SoundInv, AllDescribedOr
<1> HIDE DEF e
<1>3. QED
  BY <1>1, <1>2, WriteSound

\* A destructor: what cannot be destroyed is tagged LEFT_PTR or crossed
LEMMA DestroySound ==
    ASSUME SoundInv, NEW c \in Cell, Destroy(c)
    PROVE  SoundStep
<1>1. CASE Destroyable(c) /\ cell' = [cell EXCEPT ![c] = None] /\ outcome' = "done" /\ crossed' = crossed
  <2>1. c \notin crossed
    BY <1>1, ReadableFacts DEF Destroy
  <2>2. QED
    BY <1>1, <2>1, WriteSound
<1>2. CASE ~Destroyable(c) /\ Undefined
  <2>1. Cause(c)
    BY <1>2, ReadableFacts DEF Destroy
  <2>2. QED
    BY <1>2, <2>1, StillSound DEF Undefined, UndefinedBy
<1>3. QED
  BY <1>1, <1>2 DEF Destroy

\* An emplacement: what cannot be read is tagged LEFT_PTR or crossed, and one that throws
\* leaves the old value, on the heap
LEMMA EmplaceSound ==
    ASSUME SoundInv, NEW c \in Cell, NEW side \in Side, NEW x \in Object, Emplace(c, side, x)
    PROVE  SoundStep
<1> DEFINE old == IF cell[c].which = "LEFT" THEN "LEFT" ELSE "RIGHT"
<1>1. Exists(c)
  BY DEF Emplace
<1>2. /\ cell[c] \in Storage /\ cell[c] # None /\ cell[c].data.side \in Side
      /\ cell[c].data.object \in Object /\ cell \in [Cell -> Content]
  BY <1>1, CellFacts, StorageFacts DEF SoundInv, EType
<1>3. CASE ~Readable(c, old) /\ Undefined
  <2>1. Cause(c)
    <3>1. CASE c \in crossed
      BY <1>1, <3>1 DEF Cause
    <3>2. CASE c \notin crossed
      <4>1. Readable(c, SideOf(cell[c].which)) /\ cell[c].which \in Tag
        BY <1>1, <3>2, ReadableFacts
      <4>2. cell[c].which = "LEFT_PTR"
        BY <1>3, <4>1 DEF Readable, SideOf, Tag
      <4>3. QED
        BY <1>1, <4>2 DEF Cause
    <3>3. QED
      BY <3>1, <3>2
  <2>2. QED
    BY <1>3, <2>1, StillSound DEF Undefined, UndefinedBy
<1>4. CASE ThrowsEarly
  BY <1>4, StillSound DEF ThrowsEarly
<1>5. CASE Readable(c, old) /\ Emplaced(c, side, x)
  <2> DEFINE e == [which |-> side, data |-> Inline(side, x)]
  <2>1. Described(e) /\ cell' = [cell EXCEPT ![c] = e] /\ outcome' = "done" /\ crossed' = crossed
    BY <1>5, MadeDescribed DEF Emplaced
  <2>2. c \notin crossed
    BY <1>1, <1>5, ReadableFacts
  <2> HIDE DEF e
  <2>3. QED
    BY <2>1, <2>2, WriteSound
<1>6. CASE Readable(c, old) /\ EmplaceFailed(c, side)
  <2> DEFINE e == [which |-> ToPtr(side), data |-> Heap(cell[c].data.side, cell[c].data.object)]
  <2>1. side \in Tag /\ SideOf(side) = side
    BY DEF Side, Tag, SideOf
  <2>2. Described(e) <=> cell[c].data.side = side
    <3>1. ASSUME NEW s \in Side, NEW y \in Object
          PROVE  Described([which |-> ToPtr(side), data |-> Heap(s, y)]) <=> s = side
      BY <2>1, MadeDescribed
    <3>2. QED
      BY <1>2, <3>1
  <2>2a. e # None
    BY DEF None
  <2>3. /\ cell' = [cell EXCEPT ![c] = e] /\ outcome' = "threw"
        /\ crossed' = crossed \cup Crossing(c, side)
    BY <1>6 DEF EmplaceFailed
  <2>4. e.data.side = cell[c].data.side /\ e.data.object = cell[c].data.object
    BY DEF Heap
  <2>5. c \notin crossed
    BY <1>1, <1>6, ReadableFacts
  <2> HIDE DEF e
  <2>6. cell'[c] = e /\ \A d \in Cell : d # c => cell'[d] = cell[d]
    BY <1>2, <2>3
  <2>7. /\ Described(cell'[c]) <=> c \notin crossed'
        /\ \A d \in Cell : d # c => (d \in crossed' <=> d \in crossed)
        /\ crossed' \subseteq crossed \cup {c} /\ crossed \subseteq Cell
    BY <2>2, <2>3, <2>5, <2>6 DEF Crossing, SoundInv, EType
  <2>8. AllDescribedOr'
    BY <2>2a, <2>6, <2>7 DEF SoundInv, AllDescribedOr, AllDescribed, Exists
  <2>9. UndefinedHasCause'
    BY <2>3 DEF UndefinedHasCause
  <2>10. Kept
    BY <1>1, <2>2a, <2>4, <2>6, <2>7 DEF Kept, Contents
  <2>11. QED
    BY <2>8, <2>9, <2>10 DEF SoundStep
<1>7. QED
  BY <1>3, <1>4, <1>5, <1>6 DEF Emplace

\* A swap: what cannot be destroyed is tagged LEFT_PTR; one that throws leaves both old
\* values, on the heap, and crosses at most the left one
LEMMA SwapSound ==
    ASSUME SoundInv, NEW c \in Cell, NEW d \in Cell, Swap(c, d)
    PROVE  SoundStep
<1> DEFINE l == cell[c].data
           r == cell[d].data
           readable == \A b \in {c, d} : Readable(b, SideOf(cell[b].which))
<1>1. c # d /\ Exists(c) /\ Exists(d)
  BY DEF Swap
<1>2. /\ l.side \in Side /\ r.side \in Side /\ l.object \in Object /\ r.object \in Object
      /\ cell \in [Cell -> Content]
  BY <1>1, CellFacts, StorageFacts DEF SoundInv, EType
<1>3. /\ cell[c].which \in Tag /\ cell[d].which \in Tag
      /\ (~Cause(c) => Destroyable(c) /\ Readable(c, SideOf(cell[c].which)))
      /\ (~Cause(d) => Destroyable(d) /\ Readable(d, SideOf(cell[d].which)))
      /\ readable => /\ c \notin crossed /\ d \notin crossed
                     /\ SideOf(cell[c].which) = l.side /\ SideOf(cell[d].which) = r.side
  BY <1>1, ReadableFacts
<1>4. ASSUME NEW e, NEW h, cell' = [cell EXCEPT ![c] = e, ![d] = h],
             readable, e # None, h # None,
             crossed' \in {crossed, crossed \cup {c}},
             Described(e) <=> c \notin crossed', Described(h),
             outcome' = "done"
             \/ (/\ outcome' = "threw"
                 /\ e.data.side = l.side /\ e.data.object = l.object
                 /\ h.data.side = r.side /\ h.data.object = r.object)
      PROVE  SoundStep
  <2>1. cell'[c] = e /\ cell'[d] = h /\ \A b \in Cell : b # c /\ b # d => cell'[b] = cell[b]
    BY <1>1, <1>2, <1>4
  <2>2. /\ d \notin crossed' /\ crossed \subseteq Cell
        /\ \A b \in Cell : b # c => (b \in crossed' <=> b \in crossed)
    BY <1>1, <1>3, <1>4 DEF SoundInv, EType
  <2>3. AllDescribedOr'
    BY <1>4, <2>1, <2>2 DEF SoundInv, AllDescribedOr, AllDescribed, Exists
  <2>4. UndefinedHasCause'
    BY <1>4 DEF UndefinedHasCause
  <2>5. Kept
    BY <1>1, <1>4, <2>1, <2>2 DEF Kept, Contents
  <2>6. QED
    BY <2>3, <2>4, <2>5 DEF SoundStep
<1>5. CASE readable /\ Swapped(c, d)
  <2> DEFINE e == [which |-> r.side, data |-> Inline(r.side, r.object)]
             h == [which |-> l.side, data |-> Inline(l.side, l.object)]
  <2>1. cell' = [cell EXCEPT ![c] = e, ![d] = h] /\ outcome' = "done" /\ crossed' = crossed
    BY <1>5 DEF Swapped
  <2>2. Described(e) /\ Described(h)
    BY <1>2, MadeDescribed
  <2>3. e # None /\ h # None
    BY <1>2 DEF None
  <2>4. c \notin crossed
    BY <1>3, <1>5
  <2> HIDE DEF e, h, readable
  <2>5. QED
    BY <1>4, <1>5, <2>1, <2>2, <2>3, <2>4
<1>6. ASSUME readable, NEW first \in BOOLEAN, SwapFailed(c, d, first)
      PROVE  SoundStep
  <2> DEFINE v == IF first THEN cell[c].which ELSE r.side
             e == [which |-> ToPtr(v), data |-> Heap(l.side, l.object)]
             h == [which |-> ToPtr(cell[d].which), data |-> Heap(r.side, r.object)]
  <2>1. /\ cell' = [cell EXCEPT ![c] = e, ![d] = h] /\ outcome' = "threw"
        /\ crossed' = crossed \cup (IF first THEN {} ELSE Crossing(c, r.side))
    BY <1>6 DEF SwapFailed
  <2>2. v \in Tag /\ SideOf(v) = (IF first THEN l.side ELSE r.side)
    BY <1>2, <1>3, <1>6 DEF Tag, Side, SideOf
  <2>3. Described(e) <=> SideOf(v) = l.side
    <3> HIDE DEF v, l
    <3>1. QED
      BY <1>2, <2>2, MadeDescribed
  <2>4. Described(h)
    <3>1. SideOf(cell[d].which) = r.side
      BY <1>3, <1>6
    <3> HIDE DEF r, readable
    <3>2. QED
      BY <1>2, <1>3, <3>1, MadeDescribed
  <2>5. e # None /\ h # None
    BY DEF None
  <2>6. /\ e.data.side = l.side /\ e.data.object = l.object
        /\ h.data.side = r.side /\ h.data.object = r.object
    BY DEF Heap
  <2>7. c \notin crossed
    BY <1>3, <1>6
  <2> HIDE DEF v, e, h
  <2>8. /\ crossed' \in {crossed, crossed \cup {c}}
        /\ Described(e) <=> c \notin crossed'
    BY <2>1, <2>2, <2>3, <2>7 DEF Crossing
  <2> HIDE DEF readable
  <2>9. QED
    BY <1>4, <1>6, <2>1, <2>4, <2>5, <2>6, <2>8
<1>7. CASE ThrowsEarly
  BY <1>7, StillSound DEF ThrowsEarly
<1>8. CASE ~(readable /\ Destroyable(c) /\ Destroyable(d)) /\ Undefined
  <2>1. \E b \in Cell : Cause(b)
    BY <1>3, <1>8
  <2>2. QED
    BY <1>8, <2>1, StillSound DEF Undefined, UndefinedBy
<1>9. QED
  BY <1>5, <1>6, <1>7, <1>8 DEF Swap

\* Every step keeps tags right and values readable
LEMMA SoundNext ==
    SoundInv /\ [EitherNext]_eitherVars => SoundInv' /\ (EitherNext => Kept)
<1>1. SUFFICES ASSUME SoundInv, [EitherNext]_eitherVars
               PROVE  SoundInv' /\ Kept
  OBVIOUS
<1>1a. EType'
  BY <1>1, ETypeStep DEF SoundInv
<1>2. ASSUME UNCHANGED eitherVars
      PROVE  SoundStep
  BY <1>1, <1>2, StillSound DEF eitherVars, SoundInv, UndefinedHasCause, Cause
<1>3. ASSUME EitherNext
      PROVE  SoundStep
  <2>1. PICK c \in Cell :
            \/ \E s \in Side, x \in Object : Construct(c, s, x) \/ Emplace(c, s, x)
            \/ \E d \in Cell : Copy(c, d) \/ Move(c, d) \/ AssignEither(c, d) \/ Swap(c, d)
            \/ Destroy(c)
    BY <1>3 DEF EitherNext
  <2>2. ASSUME NEW s \in Side, NEW x \in Object, Construct(c, s, x) \/ Emplace(c, s, x)
        PROVE  SoundStep
    BY <1>1, <2>2, ConstructSound, EmplaceSound
  <2>3. ASSUME NEW d \in Cell, Exists(d)
        PROVE  /\ SideOf(cell[d].which) \in Side /\ cell[d].data.object \in Object
               /\ ~Readable(d, SideOf(cell[d].which)) => Cause(d)
    BY <1>1, <2>3, ObjectOf, ReadableFacts DEF SoundInv
  <2>4. ASSUME NEW d \in Cell, Copy(c, d)
        PROVE  SoundStep
    <3>1. CASE Construct(c, SideOf(cell[d].which), cell[d].data.object)
      BY <1>1, <2>3, <2>4, <3>1, ConstructSound DEF Copy
    <3>2. CASE ThrowsEarly
      BY <1>1, <3>2, StillSound DEF ThrowsEarly
    <3>3. CASE ~Readable(d, SideOf(cell[d].which)) /\ Undefined
      BY <1>1, <2>3, <2>4, <3>3, StillSound DEF Copy, Undefined, UndefinedBy
    <3>4. QED
      BY <2>4, <3>1, <3>2, <3>3 DEF Copy
  <2>5. ASSUME NEW d \in Cell, Move(c, d)
        PROVE  SoundStep
    BY <1>1, <2>5, StillSound DEF Move, UndefinedBy
  <2>6. ASSUME NEW d \in Cell, AssignEither(c, d)
        PROVE  SoundStep
    <3>1. CASE Emplace(c, SideOf(cell[d].which), cell[d].data.object)
      BY <1>1, <2>3, <2>6, <3>1, EmplaceSound DEF AssignEither
    <3>2. CASE ~Readable(d, SideOf(cell[d].which)) /\ Undefined
      BY <1>1, <2>3, <2>6, <3>2, StillSound DEF AssignEither, Undefined, UndefinedBy
    <3>3. QED
      BY <2>6, <3>1, <3>2 DEF AssignEither
  <2>7. ASSUME NEW d \in Cell, Swap(c, d)
        PROVE  SoundStep
    BY <1>1, <2>7, SwapSound
  <2>8. CASE Destroy(c)
    BY <1>1, <2>8, DestroySound
  <2>9. QED
    BY <2>1, <2>2, <2>4, <2>5, <2>6, <2>7, <2>8
<1>4. QED
  BY <1>1, <1>1a, <1>2, <1>3 DEF SoundInv, SoundStep

\* No variable and no object at first
LEMMA SoundInit == EitherInit => SoundInv
<1>1. SUFFICES ASSUME EitherInit PROVE SoundInv
  OBVIOUS
<1>2. /\ cell \in [Cell -> Content] /\ live = [s \in Side |-> 0] /\ outcome = "done"
      /\ swapThrows = 0 /\ crossed = {} /\ \A c \in Cell : cell[c] = None
  BY <1>1 DEF EitherInit, Content
<1>3. \A s \in Side : On(cell, s) = {}
  BY <1>2 DEF On, Of
<1>4. CountsHold
  <2>1. \A s \in Side : Cardinality(On(cell, s)) = 0 /\ live[s] = 0
    BY <1>2, <1>3, FS_EmptySet
  <2>2. QED
    BY <1>2, <2>1 DEF CountsHold, Side
<1>5. EType
  BY <1>2, <1>4, EitherAssumption DEF EType
<1>6. QED
  BY <1>2, <1>5 DEF SoundInv, AllDescribedOr, AllDescribed, UndefinedHasCause, Exists

\* The types of either.h, in the words of the run
LEMMA ETypeImplies == EType => EitherTypeOK
<1>1. SUFFICES ASSUME EType PROVE EitherTypeOK
  OBVIOUS
<1>2. \A c \in Cell : Exists(c) => cell[c].which \in Tag /\ cell[c].data \in Datum
  BY <1>1, CellFacts, StorageFacts
<1>3. QED
  BY <1>1, <1>2 DEF EType, EitherTypeOK, Datum

\* The counts, in the words of the run
LEMMA CountsImply == EType => NoObjectLost
<1>1. ASSUME NEW s \in Side
      PROVE  Holding(s) = Cardinality(On(cell, s))
  <2>1. On(cell, s) = {c \in Cell : Exists(c) /\ cell[c].data.side = s}
    BY DEF On, Of, Exists
  <2>2. QED
    BY <2>1 DEF Holding
<1>2. "LEFT" \in Side /\ "RIGHT" \in Side
  BY DEF Side
<1>3. SUFFICES ASSUME EType
               PROVE  /\ \A s \in Side : live[s] >= Holding(s)
                      /\ live["LEFT"] + live["RIGHT"] = Holding("LEFT") + Holding("RIGHT") + swapThrows
  BY DEF NoObjectLost
<1>4. live \in [Side -> Nat] /\ cell \in [Cell -> Content] /\ CountsHold
  BY <1>3 DEF EType
<1>5. \A s \in Side : Cardinality(On(cell, s)) \in Nat
  <2>1. \A s \in Side : On(cell, s) \in SUBSET Cell
    BY DEF On
  <2>2. QED
    BY <2>1, EitherAssumption, FS_Subset, FS_CardinalityType
<1>6. \A s \in Side : Cardinality(On(cell, s)) <= live[s] /\ live[s] \in Nat
  BY <1>4 DEF CountsHold
<1>7. \A s \in Side : live[s] >= Holding(s)
  BY <1>1, <1>5, <1>6
<1>8. QED
  BY <1>1, <1>2, <1>4, <1>7 DEF CountsHold

\* The members of the eithers have the types of either.h, whatever throws
THEOREM EitherTypes == EitherSpec => []EitherTypeOK
<1>1. EitherInit => EType
  BY SoundInit DEF SoundInv
<1>2. QED
  BY <1>1, ETypeStep, ETypeImplies, PTL DEF EitherSpec

\* Whichever constructors throw, the tag describes the storage exactly of the variables in
\* which none of the other side failed, every failed swap loses one object and nothing else
\* any, and what is undefined comes from LEFT_PTR or a tag on the wrong side
\* (either.h:34-65, 242, 264-270, 349-360)
THEOREM EitherCorrect == EitherSpec => []EitherSound
<1>1. SoundInv => EitherSound
  BY CountsImply DEF SoundInv, EitherSound, TagDescribesStorage, AllDescribedOr, AllDescribed
<1>2. SoundInv /\ [EitherNext]_eitherVars => SoundInv'
  BY SoundNext
<1>3. QED
  BY <1>1, <1>2, SoundInit, PTL DEF EitherSpec

\* An operation that throws leaves every variable it changed the value it had, and one that
\* is read by the same tests unless a constructor of the other side failed in it
\* (either.h:56, 65)
THEOREM EitherKeepsValues == EitherSpec => ValuesKept
<1>1. SoundInv /\ [EitherNext]_eitherVars => SoundInv'
  BY SoundNext
<1>2. SoundInv /\ [EitherNext]_eitherVars
      => [outcome' = "threw" =>
              \A c \in Cell : cell'[c] # cell[c] =>
                  /\ Exists(c) /\ cell'[c] # None
                  /\ Described(cell'[c]) <=> c \notin crossed'
                  /\ Contents(c)' = Contents(c)]_eitherVars
  BY SoundNext DEF Kept
<1>3. QED
  BY <1>1, <1>2, SoundInit, PTL DEF EitherSpec, ValuesKept

-----------------------------------------------------------------------------
(* Vectors: copy-on-write cannot be seen.                                  *)

USE VectorAssumption DEF vectorVars

Record == [is_small : BOOLEAN, number : Element, data_ptr : Address \cup {Null}]

\* v has the digits s after the step, every other vector those it had
Becomes(v, s) ==
    /\ Digits(v)' = s
    /\ \A w \in Vector \ {v} : Digits(w)' = Digits(w)

\* The digits of a vector are a sequence of digits
LEMMA DigitsType ==
    ASSUME VectorTypeOK, NEW v \in Vector
    PROVE  Digits(v) \in Seq(Element)
<1>1. CASE vec[v].is_small
  <2>1. vec[v].number \in Element
    BY DEF VectorTypeOK
  <2>2. QED
    BY <1>1, <2>1 DEF Digits
<1>2. CASE ~vec[v].is_small
  <2>1. vec[v].data_ptr \in DOMAIN heap
    BY <1>2 DEF VectorTypeOK
  <2>2. QED
    BY <1>2, <2>1 DEF Digits, VectorTypeOK
<1>3. QED
  BY <1>1, <1>2

\* v becomes x and the memory h: enough that h has x's digits and those of the others
LEMMA ReplaceCorrect ==
    ASSUME VectorTypeOK, NEW v \in Vector, NEW x \in Record, NEW h,
           DOMAIN h \subseteq Address, DOMAIN heap \subseteq DOMAIN h,
           \A p \in DOMAIN h : h[p] \in Seq(Element),
           x.data_ptr \in DOMAIN h \cup {Null},
           ~x.is_small => x.data_ptr # Null,
           \A w \in Vector \ {v} : ~vec[w].is_small => h[vec[w].data_ptr] = heap[vec[w].data_ptr],
           Replace(v, x, h)
    PROVE  /\ VectorTypeOK'
           /\ Becomes(v, IF x.is_small THEN <<x.number>> ELSE h[x.data_ptr])
<1> DEFINE Used == { p \in DOMAIN h : \E w \in Vector : vec'[w].data_ptr = p }
<1>1. vec' = [vec EXCEPT ![v] = x] /\ heap' = [p \in Used |-> h[p]]
  BY DEF Replace
<1>2. vec \in [Vector -> Record] /\ vec' \in [Vector -> Record]
  BY <1>1 DEF VectorTypeOK, Record
<1>3. vec'[v] = x /\ \A w \in Vector \ {v} : vec'[w] = vec[w]
  BY <1>1, <1>2
<1>4. \A w \in Vector : vec'[w].data_ptr \in DOMAIN h \cup {Null}
  <2>1. \A w \in Vector : vec[w].data_ptr \in DOMAIN heap \cup {Null}
    BY DEF VectorTypeOK
  <2>2. QED
    BY <1>3, <2>1
<1>5. Null \notin DOMAIN h
  OBVIOUS
<1>6. DOMAIN heap' = Used /\ \A p \in Used : heap'[p] = h[p]
  BY <1>1
<1>7. Used = { vec'[w].data_ptr : w \in Vector } \ {Null}
  BY <1>4, <1>5
<1>8. \A w \in Vector : ~vec'[w].is_small => vec'[w].data_ptr # Null
  BY <1>3 DEF VectorTypeOK
<1>9. VectorTypeOK'
  BY <1>2, <1>6, <1>7, <1>8 DEF VectorTypeOK, Record
<1>10. \A w \in Vector : ~vec'[w].is_small => heap'[vec'[w].data_ptr] = h[vec'[w].data_ptr]
  BY <1>6, <1>7, <1>8
<1>11. Becomes(v, IF x.is_small THEN <<x.number>> ELSE h[x.data_ptr])
  BY <1>3, <1>10 DEF Becomes, Digits
<1>12. QED
  BY <1>9, <1>11

\* A std::vector at a new address does not concern the others
LEMMA FreshCorrect ==
    ASSUME VectorTypeOK, NEW v \in Vector, NEW s \in Seq(Element),
           NEW p \in Address \ DOMAIN heap,
           Replace(v, Large(vec[v].number, p), With(heap, p, s))
    PROVE  VectorTypeOK' /\ Becomes(v, s)
<1> DEFINE h == With(heap, p, s)
           x == Large(vec[v].number, p)
<1>1. x \in Record /\ ~x.is_small /\ x.data_ptr = p
  BY DEF VectorTypeOK, Record, Large
<1>2. /\ DOMAIN h = DOMAIN heap \cup {p} /\ DOMAIN h \subseteq Address
      /\ h[p] = s
      /\ \A q \in DOMAIN heap \ {p} : h[q] = heap[q]
      /\ \A q \in DOMAIN h : h[q] \in Seq(Element)
  BY DEF With, VectorTypeOK
<1>3. \A w \in Vector \ {v} : ~vec[w].is_small => h[vec[w].data_ptr] = heap[vec[w].data_ptr]
  <2>1. \A w \in Vector : ~vec[w].is_small => vec[w].data_ptr \in DOMAIN heap
    BY DEF VectorTypeOK
  <2>2. QED
    BY <1>2, <2>1
<1>4. Replace(v, x, h)
  OBVIOUS
<1> HIDE DEF h, x
<1>5. QED
  BY <1>1, <1>2, <1>3, <1>4, ReplaceCorrect

\* A small vector gets a std::vector of its own (optimized_vector.cpp:52-55)
LEMMA GrowCorrect ==
    ASSUME VectorTypeOK, NEW v \in Vector, NEW s \in Seq(Element), Grow(v, s)
    PROVE  VectorTypeOK' /\ Becomes(v, s)
BY FreshCorrect DEF Grow

\* copy_if_not_unique before every change (optimized_vector.cpp:29-40)
LEMMA ModifyCorrect ==
    ASSUME VectorTypeOK, NEW v \in Vector, NEW s \in Seq(Element),
           ~vec[v].is_small, Modify(v, s)
    PROVE  VectorTypeOK' /\ Becomes(v, s)
<1>1. CASE Unique(v) /\ Replace(v, vec[v], With(heap, vec[v].data_ptr, s))
  <2> DEFINE x == vec[v]
             p == x.data_ptr
             h == With(heap, p, s)
  <2>1. p \in DOMAIN heap /\ p \in Address /\ x \in Record
    BY DEF VectorTypeOK, Record
  <2>2. /\ DOMAIN h = DOMAIN heap \cup {p} /\ DOMAIN h \subseteq Address
        /\ h[p] = s
        /\ \A q \in DOMAIN heap \ {p} : h[q] = heap[q]
        /\ \A q \in DOMAIN h : h[q] \in Seq(Element)
    BY <2>1 DEF With, VectorTypeOK
  <2>3. \A w \in Vector \ {v} : vec[w].data_ptr # p
    BY <1>1 DEF Unique, Users
  <2>4. \A w \in Vector \ {v} : ~vec[w].is_small => h[vec[w].data_ptr] = heap[vec[w].data_ptr]
    <3>1. \A w \in Vector : ~vec[w].is_small => vec[w].data_ptr \in DOMAIN heap
      BY DEF VectorTypeOK
    <3>2. QED
      BY <2>2, <2>3, <3>1
  <2>5. x.data_ptr \in DOMAIN h /\ x.data_ptr # Null /\ ~x.is_small /\ Replace(v, x, h)
    BY <1>1, <2>1, <2>2
  <2>6. h[x.data_ptr] = s /\ DOMAIN heap \subseteq DOMAIN h
    BY <2>2
  <2> HIDE DEF h, p, x
  <2>7. VectorTypeOK' /\ Becomes(v, IF x.is_small THEN <<x.number>> ELSE h[x.data_ptr])
    BY <2>1, <2>2, <2>4, <2>5, <2>6, ReplaceCorrect
  <2>8. QED
    BY <2>5, <2>6, <2>7
<1>2. CASE \E p \in Address \ DOMAIN heap :
               Replace(v, Large(vec[v].number, p), With(heap, p, s))
  BY <1>2, FreshCorrect
<1>3. QED
  BY <1>1, <1>2 DEF Modify

\* No std::vector changes: v only gets other members
LEMMA MembersCorrect ==
    ASSUME VectorTypeOK, NEW v \in Vector, NEW x \in Record,
           x.data_ptr \in DOMAIN heap \cup {Null},
           ~x.is_small => x.data_ptr # Null,
           Replace(v, x, heap)
    PROVE  VectorTypeOK' /\ Becomes(v, IF x.is_small THEN <<x.number>> ELSE heap[x.data_ptr])
<1>1. DOMAIN heap \subseteq Address /\ \A p \in DOMAIN heap : heap[p] \in Seq(Element)
  BY DEF VectorTypeOK
<1>2. QED
  BY <1>1, ReplaceCorrect

\* The members of a vector are of their types, and its data_ptr leads to a std::vector
LEMMA RecordFacts ==
    ASSUME VectorTypeOK, NEW v \in Vector
    PROVE  /\ vec[v] \in Record /\ vec[v].number \in Element /\ vec[v].is_small \in BOOLEAN
           /\ vec[v].data_ptr \in DOMAIN heap \cup {Null}
           /\ ~vec[v].is_small => vec[v].data_ptr # Null
BY DEF VectorTypeOK, Record

-----------------------------------------------------------------------------
(* Vectors: the operations, each as what becomes of the digits.            *)

\* copy_optimized_vector, operator=
LEMMA AssignStep ==
    ASSUME VectorTypeOK, NEW v \in Vector, NEW w \in Vector, AssignVector(v, w)
    PROVE  VectorTypeOK' /\ Becomes(v, Digits(w))
<1>1. CASE vec[w].is_small
  <2> DEFINE x == Small(vec[w].number, vec[v].data_ptr)
  <2>1. x \in Record /\ x.is_small /\ x.number = vec[w].number /\ x.data_ptr = vec[v].data_ptr
    BY RecordFacts DEF Small, Record
  <2>2. x.data_ptr \in DOMAIN heap \cup {Null}
    BY <2>1, RecordFacts
  <2>3. Replace(v, x, heap)
    BY <1>1 DEF AssignVector
  <2>4. Digits(w) = <<x.number>>
    BY <1>1, <2>1 DEF Digits
  <2> HIDE DEF x
  <2>5. VectorTypeOK' /\ Becomes(v, IF x.is_small THEN <<x.number>> ELSE heap[x.data_ptr])
    BY <2>1, <2>2, <2>3, MembersCorrect
  <2>6. QED
    BY <2>1, <2>4, <2>5
<1>2. CASE ~vec[w].is_small
  <2> DEFINE x == Large(vec[v].number, vec[w].data_ptr)
  <2>1. x \in Record /\ ~x.is_small /\ x.data_ptr = vec[w].data_ptr
    BY RecordFacts DEF Large, Record
  <2>2. x.data_ptr \in DOMAIN heap \cup {Null} /\ x.data_ptr # Null
    BY <1>2, <2>1, RecordFacts
  <2>3. Replace(v, x, heap)
    BY <1>2 DEF AssignVector
  <2>4. Digits(w) = heap[x.data_ptr]
    BY <1>2, <2>1 DEF Digits
  <2> HIDE DEF x
  <2>5. VectorTypeOK' /\ Becomes(v, IF x.is_small THEN <<x.number>> ELSE heap[x.data_ptr])
    BY <2>1, <2>2, <2>3, MembersCorrect
  <2>6. QED
    BY <2>1, <2>4, <2>5
<1>3. QED
  BY <1>1, <1>2

\* A small vector with another number, or a new one
LEMMA SmallStep ==
    ASSUME VectorTypeOK, NEW v \in Vector, NEW n \in Element, NEW p,
           p \in DOMAIN heap \cup {Null}, Replace(v, Small(n, p), heap)
    PROVE  VectorTypeOK' /\ Becomes(v, <<n>>)
<1> DEFINE x == Small(n, p)
<1>1. DOMAIN heap \subseteq Address
  BY DEF VectorTypeOK
<1>2. x \in Record /\ x.is_small /\ x.number = n /\ x.data_ptr = p /\ Replace(v, x, heap)
  BY <1>1 DEF Small, Record
<1> HIDE DEF x
<1>3. VectorTypeOK' /\ Becomes(v, IF x.is_small THEN <<x.number>> ELSE heap[x.data_ptr])
  BY <1>2, MembersCorrect
<1>4. QED
  BY <1>2, <1>3

\* The destructor, and a new vector
LEMMA RenewStep ==
    ASSUME VectorTypeOK, NEW v \in Vector, Renew(v)
    PROVE  VectorTypeOK' /\ Becomes(v, <<0>>)
BY SmallStep DEF Renew

\* A small vector whose number changes
LEMMA NumberStep ==
    ASSUME VectorTypeOK, NEW v \in Vector, NEW n \in Element, vec[v].is_small,
           Replace(v, [vec[v] EXCEPT !.number = n], heap)
    PROVE  VectorTypeOK' /\ Becomes(v, <<n>>)
<1> DEFINE x == [vec[v] EXCEPT !.number = n]
<1>1. vec[v] \in Record
  BY RecordFacts
<1>2. x \in Record /\ x.is_small /\ x.number = n /\ x.data_ptr = vec[v].data_ptr
  BY <1>1 DEF Record
<1>3. x.data_ptr \in DOMAIN heap \cup {Null} /\ Replace(v, x, heap)
  BY <1>2, RecordFacts
<1> HIDE DEF x
<1>4. VectorTypeOK' /\ Becomes(v, IF x.is_small THEN <<x.number>> ELSE heap[x.data_ptr])
  BY <1>2, <1>3, MembersCorrect
<1>5. QED
  BY <1>2, <1>4

\* operator[], and a write through what it returns
LEMMA WriteStep ==
    ASSUME VectorTypeOK, NEW v \in Vector, NEW i \in 1..MaxLength, NEW d \in Element,
           Write(v, i, d)
    PROVE  /\ i \in DOMAIN Digits(v)
           /\ VectorTypeOK' /\ Becomes(v, [Digits(v) EXCEPT ![i] = d])
<1>1. Digits(v) \in Seq(Element) /\ i \in 1..Len(Digits(v))
  BY DigitsType DEF Write
<1>2. i \in DOMAIN Digits(v) /\ [Digits(v) EXCEPT ![i] = d] \in Seq(Element)
  BY <1>1
<1>3. CASE vec[v].is_small
  <2>1. Digits(v) = <<vec[v].number>>
    BY <1>3 DEF Digits
  <2>2. i = 1
    BY <1>1, <2>1
  <2>3. [Digits(v) EXCEPT ![i] = d] = <<d>>
    BY <2>1, <2>2
  <2>4. QED
    BY <1>2, <1>3, <2>3, NumberStep DEF Write
<1>4. CASE ~vec[v].is_small
  BY <1>2, <1>4, ModifyCorrect DEF Write
<1>5. QED
  BY <1>3, <1>4

\* A vector that is resized has digits
LEMMA FillType ==
    ASSUME NEW s \in Seq(Element), NEW n \in Nat
    PROVE  Fill(s, n) \in Seq(Element)
<1>1. \A i \in 1..n : (IF i <= Len(s) THEN s[i] ELSE 0) \in Element
  OBVIOUS
<1>2. QED
  BY <1>1 DEF Fill

\* resize
LEMMA ResizeStep ==
    ASSUME VectorTypeOK, NEW v \in Vector, NEW n \in 1..MaxLength, Resize(v, n)
    PROVE  \/ UNCHANGED vectorVars
           \/ VectorTypeOK' /\ Becomes(v, Fill(Digits(v), n))
<1>1. Fill(Digits(v), n) \in Seq(Element)
  BY DigitsType, FillType
<1>2. CASE vec[v].is_small /\ n > 1 /\ Grow(v, Fill(Digits(v), n))
  BY <1>1, <1>2, GrowCorrect
<1>3. CASE ~vec[v].is_small /\ Modify(v, Fill(Digits(v), n))
  BY <1>1, <1>3, ModifyCorrect
<1>4. QED
  BY <1>2, <1>3 DEF Resize

\* Only a vector that is small keeps a digit
LEMMA ClearStep ==
    ASSUME VectorTypeOK, NEW v \in Vector, Clear(v)
    PROVE  /\ VectorTypeOK'
           /\ Becomes(v, <<>>) \/ (Len(Digits(v)) = 1 /\ Becomes(v, <<0>>))
<1>1. CASE vec[v].is_small /\ Replace(v, [vec[v] EXCEPT !.number = 0], heap)
  <2>1. Len(Digits(v)) = 1
    BY <1>1 DEF Digits
  <2>2. QED
    BY <1>1, <2>1, NumberStep
<1>2. CASE ~vec[v].is_small /\ Modify(v, <<>>)
  <2>1. <<>> \in Seq(Element)
    OBVIOUS
  <2>2. QED
    BY <1>2, <2>1, ModifyCorrect
<1>3. QED
  BY <1>1, <1>2 DEF Clear

\* push_back
LEMMA PushBackStep ==
    ASSUME VectorTypeOK, NEW v \in Vector, NEW d \in Element, PushBack(v, d)
    PROVE  VectorTypeOK' /\ Becomes(v, Append(Digits(v), d))
<1>1. Append(Digits(v), d) \in Seq(Element)
  BY DigitsType
<1>2. QED
  BY <1>1, GrowCorrect, ModifyCorrect DEF PushBack

\* pop_back
LEMMA PopBackStep ==
    ASSUME VectorTypeOK, NEW v \in Vector, PopBack(v)
    PROVE  /\ Digits(v) # <<>>
           /\ VectorTypeOK' /\ Becomes(v, SubSeq(Digits(v), 1, Len(Digits(v)) - 1))
<1> DEFINE s == Digits(v)
<1>1. s \in Seq(Element) /\ s # <<>>
  BY DigitsType DEF PopBack
<1>2. SubSeq(s, 1, Len(s) - 1) \in Seq(Element)
  <2> HIDE DEF s
  <2>1. QED
    BY <1>1
<1>3. QED
  BY <1>1, <1>2, ModifyCorrect DEF PopBack

-----------------------------------------------------------------------------
(* Vectors: the theorems.                                                  *)

\* New vectors have the types
LEMMA VectorInitType == VectorInit => VectorTypeOK
BY DEF VectorInit, VectorTypeOK, Small

\* A step leaves the types as they are and is a step of vectors that are values
LEMMA VectorStep ==
    ASSUME VectorTypeOK, [VectorNext]_vectorVars
    PROVE  VectorTypeOK' /\ [Values!Next]_[v \in Vector |-> Digits(v)]
<1> DEFINE value == [v \in Vector |-> Digits(v)]
<1>1. ASSUME NEW v \in Vector, NEW s, Becomes(v, s)
      PROVE  value' = [value EXCEPT ![v] = s]
  <2>1. \A w \in Vector : Digits(w)' = IF w = v THEN s ELSE Digits(w)
    BY <1>1 DEF Becomes
  <2>2. value' = [w \in Vector |-> Digits(w)']
    OBVIOUS
  <2>3. QED
    BY <2>1, <2>2
<1>2. ASSUME NEW v \in Vector, NEW w \in Vector, AssignVector(v, w)
      PROVE  VectorTypeOK' /\ Values!Assign(v, w)
  BY <1>1, <1>2, AssignStep DEF Values!Assign, Values!Become
<1>3. ASSUME NEW v \in Vector, Renew(v)
      PROVE  VectorTypeOK' /\ Values!Renew(v)
  BY <1>1, <1>3, RenewStep DEF Values!Renew, Values!Become
<1>4. ASSUME NEW v \in Vector, NEW n \in 1..MaxLength, Resize(v, n)
      PROVE  \/ UNCHANGED vectorVars
             \/ VectorTypeOK' /\ Values!Resize(v, n)
  BY <1>1, <1>4, ResizeStep DEF Values!Resize, Values!Resized, Values!Become, Fill
<1>5. ASSUME NEW v \in Vector, Clear(v)
      PROVE  VectorTypeOK' /\ Values!Clear(v)
  BY <1>1, <1>5, ClearStep DEF Values!Clear, Values!Become
<1>6. ASSUME NEW v \in Vector, NEW i \in 1..MaxLength, NEW d \in Element, Write(v, i, d)
      PROVE  VectorTypeOK' /\ i \in DOMAIN value[v] /\ Values!Write(v, i, d)
  BY <1>1, <1>6, WriteStep DEF Values!Write, Values!Become
<1>7. ASSUME NEW v \in Vector, NEW d \in Element, PushBack(v, d)
      PROVE  VectorTypeOK' /\ Values!PushBack(v, d)
  BY <1>1, <1>7, PushBackStep DEF Values!PushBack, Values!Become
<1>8. ASSUME NEW v \in Vector, PopBack(v)
      PROVE  VectorTypeOK' /\ Values!PopBack(v)
  BY <1>1, <1>8, PopBackStep DEF Values!PopBack, Values!Become
<1>9. ASSUME UNCHANGED vectorVars
      PROVE  VectorTypeOK' /\ UNCHANGED value
  BY <1>9 DEF VectorTypeOK, Digits
<1>10. QED
  BY <1>2, <1>3, <1>4, <1>5, <1>6, <1>7, <1>8, <1>9 DEF VectorNext, Values!Next

\* The members keep their types, large vectors have a std::vector, and none is kept that
\* no shared_ptr holds (optimized_vector.h:37-39)
THEOREM VectorTypeCorrect == VectorSpec => []VectorTypeOK
<1>1. QED
  BY VectorInitType, VectorStep, PTL DEF VectorSpec

\* optimized_vector behaves as a vector that is a value, whatever is shared
\* (optimized_vector.cpp:26)
THEOREM RefinesIndependentVectors == VectorSpec => ImplementsIndependentVectors
<1>1. VectorInit => Values!Init
  BY DEF VectorInit, Values!Init, Digits, Small
<1>2. QED
  BY <1>1, VectorInitType, VectorStep, PTL DEF VectorSpec, ImplementsIndependentVectors, Values!Spec

-----------------------------------------------------------------------------
(* The three programs together.                                            *)

\* The program that runs is one of the three, the other two stand still
LEMMA EachProgram ==
    OwnershipSpec => EitherSpec /\ TrampolineSpec /\ VectorSpec
<1>1. OwnershipInit => EitherInit /\ TrampolineInit /\ VectorInit
  BY DEF OwnershipInit
<1>2. [OwnershipNext]_ownershipVars
      => /\ [EitherNext]_eitherVars
         /\ [TrampolineNext]_trampolineVars
         /\ [VectorNext]_vectorVars
  BY DEF OwnershipNext, ownershipVars
<1>3. QED
  BY <1>1, <1>2, PTL DEF OwnershipSpec, EitherSpec, TrampolineSpec, VectorSpec

\* Types of all three (either.h:88-100, trampoline.h:171-172, optimized_vector.h:37-39)
THEOREM OwnershipTypes == OwnershipSpec => []OwnershipTypeOK
<1>1. EitherTypeOK /\ TrampolineTypeOK /\ VectorTypeOK => OwnershipTypeOK
  BY DEF OwnershipTypeOK
<1>2. QED
  BY <1>1, EachProgram, EitherTypes, TrampolineTypes, VectorTypeCorrect, PTL

\* What the run checks of the three programs holds for any of their constants
THEOREM OwnershipCorrect ==
    OwnershipSpec => /\ []EitherSound /\ ValuesKept
                     /\ []TrampolineSound
                     /\ ImplementsIndependentVectors
BY EachProgram, EitherCorrect, EitherKeepsValues, TrampolineOwnership,
   RefinesIndependentVectors, PTL
=============================================================================
