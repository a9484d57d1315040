------------------------------- MODULE BigInteger -------------------------------
(***************************************************************************)
(* cpp/big_integer/big_integer.cpp: a sign and the digits of the absolute  *)
(* value, lowest first, in base 2^DigitBits.  The operators are the member *)
(* functions with the carries, the trimming and the sizes of the code; the *)
(* specification is a program that does them on variables in any order, so *)
(* that what one of them leaves behind is what the next one gets.          *)
(*                                                                         *)
(* A function that lets an exception out returns Threw.                    *)
(***************************************************************************)
EXTENDS Integers, Sequences, FiniteSetsExt

CONSTANTS
    DigitBits, \* 32
    Radix,     \* 10
    Variable,  \* of type big_integer
    MaxDigits, \* bound on the size of the results that are kept
    MaxShift   \* bound on the shifts

ASSUME BigIntegerAssumption ==
    /\ DigitBits \in Nat \ {0, 1}
    /\ Radix \in 2..(2^DigitBits - 1)
    /\ MaxDigits \in Nat \ {0} /\ MaxShift \in Nat

BASE  == 2^DigitBits
Digit == 0..(BASE - 1)
Ones  == BASE - 1

VARIABLE big \* the value of each variable

BigInteger(sign, arr) == [sign |-> sign, arr |-> arr]
Threw                 == BigInteger(0, <<>>)

BigInit == big = [v \in Variable |-> BigInteger(0, <<0>>)]

-----------------------------------------------------------------------------
(* Digits                                                                  *)

At(s, i) == IF i <= Len(s) THEN s[i] ELSE 0

IsZero(s) == s = <<0>>

Trim_Never(s) == s

\* erase_leading_zeroes
Trim(s) == SubSeq(s, 1, Max({1} \cup { i \in DOMAIN s : s[i] # 0 }))

\* The columns s become digits, what does not fit goes to the next one, and to a new
\* one after the last
Carried(s, carry0) ==
    LET carry[i \in 1..(Len(s) + 1)] ==
            IF i = 1 THEN carry0 ELSE (s[i - 1] + carry[i - 1]) \div BASE
        top == carry[Len(s) + 1]
    IN  [i \in DOMAIN s |-> (s[i] + carry[i]) % BASE] \o (IF top # 0 THEN <<top>> ELSE <<>>)

Columns(a, b) == [i \in 1..Max({Len(a), Len(b)}) |-> At(a, i) + At(b, i)]

CompareByAbs_FromLow(a, b) ==
    LET differ == { i \in DOMAIN a : a[i] # b[i] }
    IN  IF Len(a) # Len(b) THEN (IF Len(a) > Len(b) THEN 1 ELSE -1)
        ELSE IF differ = {} THEN 0
        ELSE IF a[Min(differ)] > b[Min(differ)] THEN 1 ELSE -1

\* compare_by_abs, as the sign of a - b
CompareByAbs(a, b) ==
    LET differ == { i \in DOMAIN a : a[i] # b[i] }
    IN  IF Len(a) # Len(b) THEN (IF Len(a) > Len(b) THEN 1 ELSE -1)
        ELSE IF differ = {} THEN 0
        ELSE IF a[Max(differ)] > b[Max(differ)] THEN 1 ELSE -1

AddLongShort_DropsCarry(a, d) == SubSeq(Carried(a, d), 1, Len(a))

AddLongShort(a, d) == Carried(a, d)

AddLongLong(a, b) ==
    IF Len(b) = 1 THEN AddLongShort(a, b[1]) ELSE Trim(Carried(Columns(a, b), 0))

\* If b is the greater one the borrow never ends, and at() throws
SubLongLong(a, b) ==
    LET borrow[i \in 1..(Len(a) + 1)] ==
            IF i > 1 /\ a[i - 1] < At(b, i - 1) + borrow[i - 1] THEN 1 ELSE 0
    IN  IF borrow[Len(a) + 1] = 1 THEN <<>>
        ELSE Trim([i \in DOMAIN a |-> (a[i] - At(b, i) - borrow[i]) % BASE])

MulLongShort(a, d) == Trim(Carried([i \in DOMAIN a |-> a[i] * d], 0))

AddRow_DropsCarry(acc, i, a, b) ==
    LET row == Carried([j \in DOMAIN b |-> acc[i + j - 1] + a[i] * b[j]], 0)
    IN  SubSeq(acc, 1, i - 1) \o SubSeq(row, 1, Len(b)) \o SubSeq(acc, i + Len(b), Len(acc))

\* Row i of the product is added to the digits of acc from i; its carry replaces the
\* digit after them
AddRow(acc, i, a, b) ==
    LET row == Carried([j \in DOMAIN b |-> acc[i + j - 1] + a[i] * b[j]], 0)
    IN  SubSeq(acc, 1, i - 1) \o row \o SubSeq(acc, i + Len(row), Len(acc))

MulLongLong(a, b) ==
    LET acc[i \in 0..Len(a)] ==
            IF i = 0 THEN [k \in 1..(Len(a) + Len(b) + 1) |-> 0] ELSE AddRow(acc[i - 1], i, a, b)
    IN  IF Len(b) = 1 THEN MulLongShort(a, b[1]) ELSE Trim(acc[Len(a)])

\* get_remainder: the quotient of a by one digit, and the remainder
ShortDivide(a, d) ==
    LET rest[i \in 1..(Len(a) + 1)] ==
            IF i > Len(a) THEN 0 ELSE (a[i] + rest[i + 1] * BASE) % d
    IN  [quotient  |-> Trim([i \in DOMAIN a |-> (a[i] + rest[i + 1] * BASE) \div d]),
         remainder |-> rest[1]]

DigitOfQuotient_Less(s, b) == Max({0} \cup { k \in Digit : CompareByAbs(MulLongShort(b, k), s) = -1 })

\* The largest digit k with b * k <= s, which the code looks for by bisection
DigitOfQuotient(s, b) == Max({ k \in Digit : CompareByAbs(MulLongShort(b, k), s) # 1 })

\* The next digit of the dividend joins the rest
Joined(d, rest) == Trim(<<d>> \o rest)

\* The loop over the digits of the quotient: tail is sub_res before digit i
LongDivide(a, b) ==
    LET x == Len(a) - Len(b)
        step[i \in 0..(x + 1)] ==
            LET tail == IF i = x THEN SubSeq(a, x + 1, Len(a)) ELSE Joined(a[i + 1], step[i + 1].rest)
                k    == DigitOfQuotient(tail, b)
            IN  IF i > x THEN [rest |-> <<>>, k |-> 0]
                ELSE [rest |-> SubLongLong(tail, MulLongShort(b, k)), k |-> k]
    IN  Trim([i \in 1..(x + 1) |-> step[i - 1].k])

\* A quotient by zero kills the process unless the dividend is as long as the divisor
\* and not greater
DivLongLong(a, b) ==
    LET c == CompareByAbs(b, a)
    IN  IF c = 1 THEN <<0>>
        ELSE IF c = 0 THEN <<1>>
        ELSE IF IsZero(b) THEN <<>>
        ELSE IF Len(b) = 1 THEN ShortDivide(a, b[1]).quotient
        ELSE LongDivide(a, b)

-----------------------------------------------------------------------------
(* Signed operations                                                       *)

Signed(sign, arr) == IF arr = <<>> THEN Threw ELSE BigInteger(sign, arr)

\* The branches of recognize_operation that add and those that subtract
Added(m, n) == BigInteger(m.sign, AddLongLong(m.arr, n.arr))

Difference(m, n) ==
    IF CompareByAbs(m.arr, n.arr) = 1
    THEN Signed(m.sign, SubLongLong(m.arr, n.arr))
    ELSE Signed(1 - m.sign, SubLongLong(n.arr, m.arr))

Plus(m, n)  == IF m.sign = n.sign THEN Added(m, n) ELSE Difference(m, n)
Minus(m, n) == IF m.sign = n.sign THEN Difference(m, n) ELSE Added(m, n)

SignOf(m, n) == IF m.sign = n.sign THEN 0 ELSE 1

Times(m, n)  == BigInteger(SignOf(m, n), MulLongLong(m.arr, n.arr))
Divide(m, n) == Signed(SignOf(m, n), DivLongLong(m.arr, n.arr))

\* a *= a: the digits of b are those of *this, zeroed and longer than the loop allows
TimesItself(m) == IF Len(m.arr) = 1 THEN Times(m, m) ELSE Threw

Remainder(m, n) ==
    LET q == Divide(m, n)
    IN  IF q = Threw THEN Threw ELSE Minus(m, Times(q, n))

One    == BigInteger(0, <<1>>)
Inc(m) == Plus(m, One)
Dec(m) == Minus(m, One)
Neg(m) == [m EXCEPT !.sign = 1 - @]
Complement(m) == Neg(Inc(m))

\* compare, as the sign of m - n
Compare(m, n) ==
    IF IsZero(m.arr) /\ IsZero(n.arr) THEN 0
    ELSE IF m.sign # n.sign THEN n.sign - m.sign
    ELSE IF m.sign = 0 THEN CompareByAbs(m.arr, n.arr)
    ELSE CompareByAbs(n.arr, m.arr)

-----------------------------------------------------------------------------
(* Two's complement and shifts                                             *)

AdditionalCode_NotOnly(m) ==
    IF m.sign = 0 THEN m ELSE BigInteger(1, [i \in DOMAIN m.arr |-> Ones - m.arr[i]])

\* convert_to_additional_code, there and back.  The sign stays as ++ leaves it.
AdditionalCode(m) ==
    LET up == Inc(m)
    IN  IF m.sign = 0 THEN m
        ELSE Signed(up.sign, [i \in DOMAIN up.arr |-> Ones - up.arr[i]])

SignFill_Zero(code) == 0

\* The digits a code has above its highest one
SignFill(code) == code.sign * Ones

\* binary_operation: *this is made as long as the other with zeros, the other's missing
\* digits are those its sign stands for
BinaryOperation(f, m, n) ==
    LET a == AdditionalCode(m)
        b == AdditionalCode(n)
        B(i) == IF i <= Len(b.arr) THEN b.arr[i] ELSE SignFill(b)
        code == BigInteger(f[<<a.sign, b.sign>>],
                           [i \in 1..Max({Len(a.arr), Len(b.arr)}) |-> f[<<At(a.arr, i), B(i)>>]])
        back == AdditionalCode(code)
    IN  IF back = Threw THEN Threw ELSE BigInteger(back.sign, Trim(back.arr))

PairsTo(n) == (0..n) \X (0..n)

\* The operation on numbers of n bits that is op on each bit
BitByBit(op, n) ==
    LET f[k \in 0..n] ==
            [p \in PairsTo(2^k - 1) |->
                IF k = 0 THEN 0 ELSE op[<<p[1] % 2, p[2] % 2>>] + 2 * f[k - 1][<<p[1] \div 2, p[2] \div 2>>]]
    IN  f[n]

AndBits == [p \in PairsTo(1) |-> p[1] * p[2]]
OrBits  == [p \in PairsTo(1) |-> IF p[1] = p[2] THEN p[1] ELSE 1]
XorBits == [p \in PairsTo(1) |-> IF p[1] = p[2] THEN 0 ELSE 1]

AndFunc == BitByBit(AndBits, DigitBits)
OrFunc  == BitByBit(OrBits, DigitBits)
XorFunc == BitByBit(XorBits, DigitBits)

Parts(k) == k \div DigitBits
Bits(k)  == k % DigitBits

\* <<=.  mask is made before the loop and only ever loses bits in it.
ShiftLeft(m, k) ==
    LET bits == Bits(k)
        s    == m.arr \o <<0>>
        mask[i \in 2..(Len(s) + 1)] ==
            IF i > Len(s) THEN BASE - 2^(DigitBits - bits)
            ELSE AndFunc[<<mask[i + 1], s[i - 1]>>] \div 2^(DigitBits - bits)
        Low(i) == IF bits = 0 \/ i = 1 THEN 0 ELSE mask[i]
        shifted == [i \in DOMAIN s |-> ((s[i] * 2^bits) % BASE) + Low(i)]
    IN  IF k = 0 \/ IsZero(m.arr) THEN m
        ELSE BigInteger(m.sign, Trim([i \in 1..Parts(k) |-> 0] \o shifted))

\* >>=.  With more parts than digits at() throws.
ShiftRight(m, k) ==
    LET code == AdditionalCode(m)
        a    == code.arr
        Next(i) == IF i = Len(a) THEN SignFill(code) ELSE a[i + 1]
        Part(i) == (a[i] \div 2^Bits(k)) + (Next(i) % 2^Bits(k)) * 2^(DigitBits - Bits(k))
        back == AdditionalCode(BigInteger(code.sign,
                    [i \in DOMAIN a |-> IF i + Parts(k) <= Len(a) THEN Part(i + Parts(k))
                                        ELSE SignFill(code)]))
    IN  IF k = 0 \/ IsZero(m.arr) THEN m
        ELSE IF Parts(k) > Len(a) \/ back = Threw THEN Threw
        ELSE BigInteger(back.sign, Trim(back.arr))

\* << by k, and >> by -k: each calls the other for a negative amount
Shift(m, k) == IF k < 0 THEN ShiftRight(m, -k) ELSE ShiftLeft(m, k)

-----------------------------------------------------------------------------
(* Text                                                                    *)

\* to_string without its sign: the remainders by Radix until nothing is left, the last one
\* first.  A quotient has a bit less, at least.
TextOf(s) ==
    LET left[k \in 0..(DigitBits * Len(s))] ==
            IF k = 0 THEN s ELSE ShortDivide(left[k - 1], Radix).quotient
        turns == Min({ k \in DOMAIN left : IsZero(left[k]) })
    IN  [i \in 1..turns |-> ShortDivide(left[turns - i], Radix).remainder]

TextWritten(m) ==
    IF IsZero(m.arr) THEN [minus |-> FALSE, text |-> <<0>>]
    ELSE [minus |-> m.sign = 1, text |-> TextOf(m.arr)]

\* big_integer(std::string const&)
FromString(s) ==
    LET arr[k \in 0..Len(s.text)] ==
            IF k = 0 THEN <<0>> ELSE AddLongShort(MulLongShort(arr[k - 1], Radix), s.text[k])
    IN  BigInteger(IF s.minus THEN 1 ELSE 0, arr[Len(s.text)])

\* big_integer(int32_t)
FromInt(i) == BigInteger(IF i < 0 THEN 1 ELSE 0, <<IF i < 0 THEN -i ELSE i>>)

-----------------------------------------------------------------------------
(* A program on the variables                                              *)

Int32 == -(2^(DigitBits - 1))..(2^(DigitBits - 1) - 1)

\* v gets a result that is not too long, or the program ends with an exception
Store(v, m) == Len(m.arr) <= MaxDigits /\ big' = [big EXCEPT ![v] = m]

Binary(m, n) == {Plus(m, n), Minus(m, n), Times(m, n), Divide(m, n), Remainder(m, n),
                 BinaryOperation(AndFunc, m, n), BinaryOperation(OrFunc, m, n),
                 BinaryOperation(XorFunc, m, n)}

Unary(m) == {Inc(m), Dec(m), Neg(m), Complement(m), TimesItself(m), Minus(m, m), FromString(TextWritten(m))}
            \cup { Shift(m, k) : k \in -MaxShift..MaxShift }

BigNext ==
    /\ \A v \in Variable : big[v] # Threw
    /\ \E v \in Variable :
           \/ \E w \in Variable : \E m \in Binary(big[v], big[w]) \cup {big[w]} : Store(v, m)
           \/ \E m \in Unary(big[v]) \cup {FromInt(i) : i \in Int32} : Store(v, m)

BigSpec == BigInit /\ [][BigNext]_big

-----------------------------------------------------------------------------
(* Properties                                                              *)

Magnitude(s) ==
    LET v[i \in 1..(Len(s) + 1)] == IF i > Len(s) THEN 0 ELSE s[i] + BASE * v[i + 1]
    IN  v[1]

Value(m) == IF m.sign = 1 THEN -Magnitude(m.arr) ELSE Magnitude(m.arr)

Abs(i)  == IF i < 0 THEN -i ELSE i
Sgn(i)  == IF i < 0 THEN -1 ELSE IF i > 0 THEN 1 ELSE 0

Running == \A v \in Variable : big[v] # Threw

\* Every pair of values that the variables have when a program is at some step
Pairs == IF Running THEN { <<big[v], big[w]>> : v, w \in Variable } ELSE {}

\* "arr.size() equals number of digits of big_int in BASE" (big_integer.cpp:10-11),
\* after any operations: the comparison of sizes is wrong without it
BigTypeOK ==
    \A v \in Variable : big[v] # Threw =>
        /\ big[v].sign \in {0, 1}
        /\ big[v].arr \in Seq(Digit) \ {<<>>}
        /\ big[v].arr[Len(big[v].arr)] = 0 => big[v].arr = <<0>>

\* The sums, differences and products are those of integers, whatever the sizes, the
\* carries and the signs, negative zero included (big_integer.cpp:116-144, 452-665)
ArithmeticExact ==
    \A p \in Pairs :
        LET m == p[1]
            n == p[2]
        IN  /\ Value(Plus(m, n)) = Value(m) + Value(n)
            /\ Value(Minus(m, n)) = Value(m) - Value(n)
            /\ Value(Times(m, n)) = Value(m) * Value(n)
            /\ Value(Complement(m)) = -Value(m) - 1

\* Quotients are rounded towards zero and remainders have the sign of the dividend,
\* as those of int (big_integer.cpp:667-744, 156-159)
DivisionExact ==
    \A p \in Pairs :
        LET a == Value(p[1])
            b == Value(p[2])
            q == Sgn(a) * Sgn(b) * (Abs(a) \div Abs(b))
        IN  b # 0 => Value(Divide(p[1], p[2])) = q /\ Value(Remainder(p[1], p[2])) = a - q * b

\* The order is that of the integers; the two zeros are equal (big_integer.cpp:400-436)
OrderExact == \A p \in Pairs : Sgn(Compare(p[1], p[2])) = Sgn(Value(p[1]) - Value(p[2]))

\* << multiplies, when it moves whole digits or the number is one digit; >> rounds
\* down, for numbers other than -1 and shifts not longer than the number
\* (big_integer.cpp:260-343)
ShiftsExact ==
    Running => \A v \in Variable, k \in 0..MaxShift :
        LET m == big[v]
        IN  /\ Len(m.arr) = 1 \/ Bits(k) = 0 => Value(Shift(m, k)) = Value(m) * 2^k
            /\ Value(m) # -1 /\ Parts(k) < Len(m.arr) => Value(Shift(m, -k)) = Value(m) \div 2^k

\* The bits of an integer in a width that no value needs
WideBits   == DigitBits * (MaxDigits + 1)
InWidth(i) == i % 2^WideBits

\* a OP b is the operation on the bits of the two's complements, for values of which
\* negative ones are not -1 or zero, nor on the left with a code shorter than the
\* right, and with a result that is not negative (big_integer.cpp:366-387)
BitsExact ==
    \A p \in Pairs :
        LET a == Value(p[1])
            b == Value(p[2])
            domain == /\ \A i \in 1..2 : p[i].sign = 1 => Value(p[i]) < -1
                      /\ a < 0 => Len(AdditionalCode(p[1]).arr) >= Len(p[2].arr)
        IN  domain => /\ (a >= 0 \/ b >= 0) => Value(BinaryOperation(AndFunc, p[1], p[2])) = BitByBit(AndBits, WideBits)[<<InWidth(a), InWidth(b)>>]
                      /\ (a >= 0 /\ b >= 0) => Value(BinaryOperation(OrFunc, p[1], p[2])) = BitByBit(OrBits, WideBits)[<<InWidth(a), InWidth(b)>>]
                      /\ (a >= 0 <=> b >= 0) => Value(BinaryOperation(XorFunc, p[1], p[2])) = BitByBit(XorBits, WideBits)[<<InWidth(a), InWidth(b)>>]

\* What to_string writes is read back as the same number, negative zero as zero, and
\* starts with a digit that is not zero (big_integer.cpp:40-77, 746-763)
TextRoundTrip ==
    Running => \A v \in Variable :
        LET s == TextWritten(big[v])
        IN  /\ FromString(s) = IF IsZero(big[v].arr) THEN BigInteger(0, <<0>>) ELSE big[v]
            /\ s.text[1] = 0 => s.text = <<0>>

\* Whatever was computed before: each operation leaves no leading zero, without which
\* the next one would be wrong, and is the one of integers (big_integer.cpp:116-763)
BigIntegerExact == BigTypeOK /\ ArithmeticExact /\ DivisionExact /\ OrderExact /\ TextRoundTrip

\* The operations on bits are those on two's complements (big_integer.cpp:260-387)
BitwiseExact == ShiftsExact /\ BitsExact
=============================================================================
