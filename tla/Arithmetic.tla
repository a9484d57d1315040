------------------------------- MODULE Arithmetic -------------------------------
(***************************************************************************)
(* The arithmetic of the repository together: a program computes with      *)
(* big_integers, and the values and digits it comes by are the operands of *)
(* checked<T> and of the assembler.                                        *)
(***************************************************************************)
EXTENDS BigInteger, Checked, LongArithmetic

\* A digit is a half of a qword
ASSUME ArithmeticAssumption == BASE <= LimbBase

\* checked<T>, at the values of the variables: the integer or an exception, and that for
\* every overflow, every signed sum with a positive right operand and every signed product
\* that is the least value (checked.cpp:89-203)
CheckedExact ==
    \A p \in Pairs :
        /\ NoSilentOverflow(Value(p[1]), Value(p[2]))
        /\ ThrowsExactly(Value(p[1]), Value(p[2]))

Qwords(m) == [i \in 1..Limbs |-> At(m.arr, i)]

\* The three programs of the assembler, on the digits of the variables: sums and
\* differences in the width of the numbers, products without the carries that the rounds
\* drop, and text that is read back (pure_asm)
LongProgramsExact ==
    /\ \A p \in Pairs : LongExact(Qwords(p[1]), Qwords(p[2]))
    /\ Running => \A v \in Variable : LongRoundTrip(Qwords(big[v]))

\* Integers of a fixed width, at the values and digits of the variables.  checked<T> gives
\* no wrong integer, and throws exactly when ThrowsExactly says, which is more often than
\* the result does not fit; the assembler is right up to what LongExact says its sums,
\* differences and products drop (checked.cpp:89-203, pure_asm)
FixedWidthExact == CheckedExact /\ LongProgramsExact
=============================================================================
