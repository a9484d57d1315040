---------------------------- MODULE OptimizedVector ----------------------------
(***************************************************************************)
(* cpp/big_integer/optimized_vector: digits kept in place while there is   *)
(* one, in a shared std::vector that is copied on write when there are     *)
(* more.                                                                   *)
(*                                                                         *)
(* A shared_ptr is the address of the std::vector it shares; its use count *)
(* is the number of vectors with that address.  A vector that is small may *)
(* still hold an address: copying from a small one leaves data_ptr alone.  *)
(***************************************************************************)
EXTENDS Naturals, Sequences, FiniteSets

CONSTANTS
    Vector,   \* the optimized_vectors of a program
    Element,    \* uint32_t; 0 is what std::vector is filled with
    Address,  \* where a std::vector may be allocated
    Null,     \* an empty shared_ptr
    MaxLength \* bound on what users ask for

ASSUME VectorAssumption ==
    /\ 0 \in Element
    /\ Null \notin Address
    /\ MaxLength \in Nat \ {0}

VARIABLES
    vec, \* is_small, number and data_ptr of each optimized_vector
    heap \* the std::vectors that are alive, by address

vectorVars == <<vec, heap>>

Small(x, p) == [is_small |-> TRUE, number |-> x, data_ptr |-> p]
Large(x, p) == [is_small |-> FALSE, number |-> x, data_ptr |-> p]

VectorInit ==
    /\ vec = [v \in Vector |-> Small(0, Null)]
    /\ heap = [p \in {} |-> <<>>]

-----------------------------------------------------------------------------
(* Shared pointers                                                         *)

Users(p) == { v \in Vector : vec[v].data_ptr = p }

Unique(v) == Users(vec[v].data_ptr) = {v}

Replace_Leaks(v, x, h) == vec' = [vec EXCEPT ![v] = x] /\ heap' = h

\* v becomes x; the std::vectors in h that are then nobody's are destroyed
Replace(v, x, h) ==
    LET new == [vec EXCEPT ![v] = x]
    IN  /\ vec' = new
        /\ heap' = [p \in { p \in DOMAIN h : \E w \in Vector : new[w].data_ptr = p } |-> h[p]]

With(h, p, s) == [q \in DOMAIN h \cup {p} |-> IF q = p THEN s ELSE h[q]]

Modify_InPlace(v, s) == Replace(v, vec[v], With(heap, vec[v].data_ptr, s))

\* The digits of a large v become s, after copy_if_not_unique
Modify(v, s) ==
    \/ /\ Unique(v)
       /\ Replace(v, vec[v], With(heap, vec[v].data_ptr, s))
    \/ /\ ~Unique(v)
       /\ \E p \in Address \ DOMAIN heap :
              Replace(v, Large(vec[v].number, p), With(heap, p, s))

\* A small v gets a std::vector of its own with the digits s
Grow(v, s) ==
    \E p \in Address \ DOMAIN heap : Replace(v, Large(vec[v].number, p), With(heap, p, s))

-----------------------------------------------------------------------------
(* Operations                                                              *)

Digits(v) == IF vec[v].is_small THEN <<vec[v].number>> ELSE heap[vec[v].data_ptr]

Fill(s, n) == [i \in 1..n |-> IF i <= Len(s) THEN s[i] ELSE 0]

\* copy_optimized_vector: for a small w the pointer of v stays as it is, for a large
\* one the number
AssignVector(v, w) ==
    Replace(v, IF vec[w].is_small THEN Small(vec[w].number, vec[v].data_ptr)
                                  ELSE Large(vec[v].number, vec[w].data_ptr), heap)

\* The destructor, and a new vector in its place
Renew(v) == Replace(v, Small(0, Null), heap)

Resize(v, n) ==
    \/ vec[v].is_small /\ n = 1 /\ UNCHANGED vectorVars
    \/ vec[v].is_small /\ n > 1 /\ Grow(v, Fill(Digits(v), n))
    \/ ~vec[v].is_small /\ Modify(v, Fill(Digits(v), n))

\* A large vector does not become small again
Clear(v) ==
    \/ vec[v].is_small /\ Replace(v, [vec[v] EXCEPT !.number = 0], heap)
    \/ ~vec[v].is_small /\ Modify(v, <<>>)

\* v[i] = x through the reference operator[] returns
Write(v, i, x) ==
    /\ i \in 1..Len(Digits(v))
    /\ \/ vec[v].is_small /\ Replace(v, [vec[v] EXCEPT !.number = x], heap)
       \/ ~vec[v].is_small /\ Modify(v, [Digits(v) EXCEPT ![i] = x])

PushBack(v, x) ==
    /\ Len(Digits(v)) < MaxLength
    /\ \/ vec[v].is_small /\ Grow(v, Append(Digits(v), x))
       \/ ~vec[v].is_small /\ Modify(v, Append(Digits(v), x))

\* Asserts that v is not small; std::vector asks for an element
PopBack(v) ==
    /\ ~vec[v].is_small
    /\ Digits(v) # <<>>
    /\ Modify(v, SubSeq(Digits(v), 1, Len(Digits(v)) - 1))

VectorNext ==
    \E v \in Vector :
        \/ \E w \in Vector : AssignVector(v, w)
        \/ Renew(v)
        \/ \E n \in 1..MaxLength : Resize(v, n)
        \/ Clear(v)
        \/ \E i \in 1..MaxLength, x \in Element : Write(v, i, x)
        \/ \E x \in Element : PushBack(v, x)
        \/ PopBack(v)

VectorSpec == VectorInit /\ [][VectorNext]_vectorVars

-----------------------------------------------------------------------------
(* Properties                                                              *)

\* The members have the types of optimized_vector.h, a large vector has a
\* std::vector, and no std::vector is kept that no shared_ptr holds
VectorTypeOK ==
    /\ vec \in [Vector -> [is_small : BOOLEAN, number : Element, data_ptr : Address \cup {Null}]]
    /\ \A p \in DOMAIN heap : heap[p] \in Seq(Element)
    /\ \A v \in Vector : ~vec[v].is_small => vec[v].data_ptr # Null
    /\ DOMAIN heap = { vec[v].data_ptr : v \in Vector } \ {Null}

Values == INSTANCE IndependentVectors WITH value <- [v \in Vector |-> Digits(v)]

\* Copy-on-write cannot be seen (optimized_vector.cpp:26): whatever shares a
\* std::vector, and however small vectors keep pointers to ones they do not use, an
\* operation changes the vector it is called on as if all were values, and no other
ImplementsIndependentVectors == Values!Spec
=============================================================================
