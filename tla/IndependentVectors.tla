-------------------------- MODULE IndependentVectors --------------------------
(***************************************************************************)
(* What optimized_vector promises: vectors of digits that are values.  An  *)
(* operation on one never changes another, whatever was copied from what.  *)
(***************************************************************************)
EXTENDS Naturals, Sequences

CONSTANTS
    Vector, \* the vectors of a program
    Element,  \* uint32_t; 0 is what resize fills with
    MaxLength \* bound on the sizes asked for

VARIABLE value \* the digits of each vector

Init == value = [v \in Vector |-> <<0>>]

Become(v, s) == value' = [value EXCEPT ![v] = s]

\* Longer with zeros, or shorter
Resized(s, n) == [i \in 1..n |-> IF i <= Len(s) THEN s[i] ELSE 0]

Assign(v, w) == Become(v, value[w])
Renew(v)     == Become(v, <<0>>)
Resize(v, n) == Become(v, Resized(value[v], n))
Write(v, i, x) == Become(v, [value[v] EXCEPT ![i] = x])
PushBack(v, x) == Become(v, Append(value[v], x))
PopBack(v)   == value[v] # <<>> /\ Become(v, SubSeq(value[v], 1, Len(value[v]) - 1))

\* A vector that never was longer than one digit keeps one
Clear(v) ==
    \/ Become(v, <<>>)
    \/ Len(value[v]) = 1 /\ Become(v, <<0>>)

Next ==
    \E v \in Vector :
        \/ \E w \in Vector : Assign(v, w)
        \/ Renew(v)
        \/ \E n \in 1..MaxLength : Resize(v, n)
        \/ \E i \in DOMAIN value[v], x \in Element : Write(v, i, x)
        \/ \E x \in Element : PushBack(v, x)
        \/ PopBack(v)
        \/ Clear(v)

Spec == Init /\ [][Next]_value
=============================================================================
