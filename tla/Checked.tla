-------------------------------- MODULE Checked --------------------------------
(***************************************************************************)
(* cpp/checked/checked.cpp: arithmetic that throws instead of overflowing. *)
(* T has Width bits; if it is narrower than int the tests themselves are   *)
(* evaluated in int and cannot overflow.                                   *)
(***************************************************************************)
EXTENDS Integers

CONSTANT Width \* of the type T, in bits

ASSUME CheckedAssumption == Width \in Nat \ {0, 1}

SMin == -(2^(Width - 1))
SMax == 2^(Width - 1) - 1
UMax == 2^Width - 1

SignedType   == SMin..SMax
UnsignedType == 0..UMax

\* What an operation ends with.  An overflow that is not noticed, or a test that is not
\* defined, is "undefined".
Returns(i) == [ends |-> "returns", value |-> i]
Throwing   == [ends |-> "throws", value |-> 0]
Unchecked  == [ends |-> "undefined", value |-> 0]

ResultIn(T, i) == IF i \in T THEN Returns(i) ELSE Unchecked

AbsVal(i) == IF i < 0 THEN -i ELSE i

\* a / b of C++
Quotient(a, b) == IF (a < 0) = (b < 0) THEN AbsVal(a) \div AbsVal(b) ELSE -(AbsVal(a) \div AbsVal(b))

-----------------------------------------------------------------------------
(* Signed                                                                  *)

AddSigned_NoLowTest(a, b) ==
    IF b > 0 THEN Throwing ELSE ResultIn(SignedType, a + b)

\* A parenthesis closes too early: the first test is that (0 - b) is not zero
AddSigned(a, b) ==
    IF b > 0 \/ (b < 0 /\ a < SMin - b) THEN Throwing ELSE ResultIn(SignedType, a + b)

SubSigned_Strict(a, b) ==
    IF (b < 0 /\ a >= SMax + b) \/ (b > 0 /\ a <= SMin + b)
    THEN Throwing ELSE ResultIn(SignedType, a - b)

SubSigned(a, b) ==
    IF (b < 0 /\ a > SMax + b) \/ (b > 0 /\ a < SMin + b)
    THEN Throwing ELSE ResultIn(SignedType, a - b)

\* std::abs of the least int is not defined
AbsDefined(narrow, i) == narrow \/ i # SMin

MulSigned(narrow, a, b) ==
    IF a # 0 /\ b # 0 /\ ~(AbsDefined(narrow, a) /\ AbsDefined(narrow, b)) THEN Unchecked
    ELSE IF a # 0 /\ b # 0 /\ AbsVal(a) > SMax \div AbsVal(b) THEN Throwing
    ELSE ResultIn(SignedType, a * b)

\* Nothing tests that b is not zero
DivSigned(a, b) ==
    IF b = -1 /\ a = SMin THEN Throwing
    ELSE IF b = 0 THEN Unchecked
    ELSE ResultIn(SignedType, Quotient(a, b))

MinusSigned(a) == IF a = SMin THEN Throwing ELSE ResultIn(SignedType, -a)

-----------------------------------------------------------------------------
(* Unsigned                                                                *)

AddUnsigned(a, b) == IF UMax - a < b THEN Throwing ELSE ResultIn(UnsignedType, a + b)

SubUnsigned(a, b) == IF a < b THEN Throwing ELSE ResultIn(UnsignedType, a - b)

MulUnsigned(a, b) ==
    IF a # 0 /\ b # 0 /\ a > UMax \div b THEN Throwing ELSE ResultIn(UnsignedType, a * b)

DivUnsigned(a, b) == IF b = 0 THEN Unchecked ELSE ResultIn(UnsignedType, a \div b)

-----------------------------------------------------------------------------
(* What the operations promise                                             *)

\* r is the integer i, or an exception
Checks(r, i) == r = Returns(i) \/ r = Throwing

\* An operation returns the integer it should or throws, except that quotients by zero are
\* left to the processor and products of the least int to std::abs (checked.cpp:89-203)
NoSilentOverflow(a, b) ==
    /\ a \in SignedType /\ b \in SignedType =>
           /\ Checks(AddSigned(a, b), a + b)
           /\ Checks(SubSigned(a, b), a - b)
           /\ Checks(MulSigned(TRUE, a, b), a * b)
           /\ SMin \notin {a, b} => Checks(MulSigned(FALSE, a, b), a * b)
           /\ b # 0 => Checks(DivSigned(a, b), Quotient(a, b))
           /\ Checks(MinusSigned(a), -a)
    /\ a \in UnsignedType /\ b \in UnsignedType =>
           /\ Checks(AddUnsigned(a, b), a + b)
           /\ Checks(SubUnsigned(a, b), a - b)
           /\ Checks(MulUnsigned(a, b), a * b)
           /\ b # 0 => Checks(DivUnsigned(a, b), a \div b)

\* Which operations end in an exception: those whose result does not fit, and besides
\* every signed sum with a positive right operand, and every signed product that is the
\* least value, although those may fit (checked.cpp:112, 161)
ThrowsExactly(a, b) ==
    /\ a \in SignedType /\ b \in SignedType =>
           /\ AddSigned(a, b) = Throwing <=> b > 0 \/ a + b \notin SignedType
           /\ SubSigned(a, b) = Throwing <=> a - b \notin SignedType
           /\ MulSigned(TRUE, a, b) = Throwing <=> a * b \notin SignedType \ {SMin}
           /\ SMin \notin {a, b} =>
                  (MulSigned(FALSE, a, b) = Throwing <=> a * b \notin SignedType \ {SMin})
           /\ b # 0 => (DivSigned(a, b) = Throwing <=> Quotient(a, b) \notin SignedType)
           /\ MinusSigned(a) = Throwing <=> -a \notin SignedType
    /\ a \in UnsignedType /\ b \in UnsignedType =>
           /\ AddUnsigned(a, b) = Throwing <=> a + b \notin UnsignedType
           /\ SubUnsigned(a, b) = Throwing <=> a - b \notin UnsignedType
           /\ MulUnsigned(a, b) = Throwing <=> a * b \notin UnsignedType
           /\ b # 0 => DivUnsigned(a, b) # Throwing
=============================================================================
