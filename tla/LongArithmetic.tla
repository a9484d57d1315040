----------------------------- MODULE LongArithmetic -----------------------------
(***************************************************************************)
(* asm/pure_asm: numbers of a fixed count of qwords, lowest first.  Every  *)
(* loop runs over all the qwords, and what does not fit is dropped.        *)
(*                                                                         *)
(* Limb is what a qword holds, as 0..LimbBase - 1.                         *)
(***************************************************************************)
EXTENDS Integers, SequencesExt

CONSTANTS
    LimbBase, \* 2^64
    Limbs,    \* 128
    Decimal,  \* 10
    LimbText  \* 20, the places for characters that write_long has for a qword

Power(b, n) == LET p[i \in 0..n] == IF i = 0 THEN 1 ELSE b * p[i - 1] IN p[n]

ASSUME LongAssumption ==
    /\ {Limbs, LimbText} \subseteq Nat \ {0}
    /\ LimbBase \in Nat /\ Decimal \in 2..(LimbBase - 1)
    /\ LimbBase <= Power(Decimal, LimbText)

Limb == 0..(LimbBase - 1)

\* The sums of the columns with the carry from the lower ones, and after them what is
\* carried out of the last: add/adc chains, and mul with rdx carried to the next round
AdcChain(column, carry0) ==
    LET carry[i \in 1..(Len(column) + 1)] ==
            IF i = 1 THEN carry0 ELSE (column[i - 1] + carry[i - 1]) \div LimbBase
    IN  [i \in DOMAIN column |-> (column[i] + carry[i]) % LimbBase] \o <<carry[Len(column) + 1]>>

\* add_long_long, sub_long_long: the flag that is left is not looked at
LongPlus(a, b) == Front(AdcChain([i \in DOMAIN a |-> a[i] + b[i]], 0))

LongMinus(a, b) ==
    LET borrow[i \in DOMAIN a] ==
            IF i > 1 /\ a[i - 1] < b[i - 1] + borrow[i - 1] THEN 1 ELSE 0
    IN  [i \in DOMAIN a |-> (a[i] - b[i] - borrow[i]) % LimbBase]

LongPlusShort(a, d)  == Front(AdcChain(a, d))
LongTimesShort(a, d) == Front(AdcChain([i \in DOMAIN a |-> a[i] * d], 0))

\* The quotient, and after it the remainder
LongDivideShort(a, d) ==
    LET rdx[i \in 1..(Len(a) + 1)] ==
            IF i > Len(a) THEN 0 ELSE (a[i] + rdx[i + 1] * LimbBase) % d
    IN  [i \in DOMAIN a |-> (a[i] + rdx[i + 1] * LimbBase) \div d] \o <<rdx[1]>>

LongZero(n) == [i \in 1..n |-> 0]

LongIsZero_LowOnly(a) == a[1] = 0

LongIsZero(a) == a = LongZero(Len(a))

AddRound_NoCarry(acc, i, a, b) ==
    [k \in DOMAIN acc |-> IF k + 1 - i \in DOMAIN a
                          THEN (acc[k] + a[k + 1 - i] * b[i]) % LimbBase ELSE acc[k]]

\* mul_long_long: round i adds a * b[i] at i.  The carry r13 of its last step is not
\* added anywhere.
AddRound(acc, i, a, b) ==
    LET sum == Front(AdcChain([j \in DOMAIN a |-> acc[i + j - 1] + a[j] * b[i]], 0))
    IN  SubSeq(acc, 1, i - 1) \o sum \o SubSeq(acc, i + Len(a), Len(acc))

LongTimes(a, b) ==
    LET acc[i \in 0..Len(b)] ==
            IF i = 0 THEN LongZero(2 * Len(a)) ELSE AddRound(acc[i - 1], i, a, b)
    IN  acc[Len(b)]

-----------------------------------------------------------------------------
(* Input and output                                                        *)

ReadLong(text) ==
    LET a[k \in 0..Len(text)] ==
            IF k = 0 THEN LongZero(Limbs) ELSE LongPlusShort(LongTimesShort(a[k - 1], Decimal), text[k])
    IN  a[Len(text)]

\* write_long: remainders until the quotient is zero, at least one, from the end of the
\* buffer on
WriteLong(a) ==
    LET left[k \in 0..(LimbText * Len(a))] ==
            IF k = 0 THEN a ELSE Front(LongDivideShort(left[k - 1], Decimal))
        turns == Min({ k \in 1..(LimbText * Len(a)) : LongIsZero(left[k]) })
    IN  [i \in 1..turns |-> Last(LongDivideShort(left[turns - i], Decimal))]

-----------------------------------------------------------------------------
(* What the programs promise                                               *)

LongValue(a) ==
    LET v[i \in 1..(Len(a) + 1)] == IF i > Len(a) THEN 0 ELSE a[i] + LimbBase * v[i + 1]
    IN  v[1]

Modulus == Power(LimbBase, Limbs)

\* The sum and the difference are those of integers in the width of the numbers.  The
\* product is right in its lower half, and everywhere if the first factor leaves its
\* highest qword free.  Else it may be too small, by carries of the rounds: its highest
\* qword is never written, so that a product that needs it is always wrong
\* (add.asm:22-47, subtract.asm:35-70, multiply.asm:42-104)
LongExact(a, b) ==
    /\ LongValue(LongPlus(a, b)) = (LongValue(a) + LongValue(b)) % Modulus
    /\ LongValue(LongMinus(a, b)) = (LongValue(a) - LongValue(b)) % Modulus
    /\ a[Len(a)] = 0 => LongValue(LongTimes(a, b)) = LongValue(a) * LongValue(b)
    /\ LongValue(LongTimes(a, b)) % Modulus = (LongValue(a) * LongValue(b)) % Modulus
    /\ LongValue(LongTimes(a, b)) <= LongValue(a) * LongValue(b)
    /\ Last(LongTimes(a, b)) = 0

\* Every number is printed as text without leading zeros that is read as the number
\* (multiply.asm:257-333)
LongRoundTrip(a) ==
    LET text == WriteLong(a)
    IN  /\ ReadLong(text) = a
        /\ text[1] = 0 => Len(text) = 1
=============================================================================
