--------------------------- MODULE Arithmetic_proofs ---------------------------
(***************************************************************************)
(* The arithmetic of the repository for every base, width and number of    *)
(* digits: big_integer and the assembler's long numbers are integers, and  *)
(* checked<T> throws for what is none of T's.                              *)
(***************************************************************************)
EXTENDS Arithmetic, FiniteSetTheorems, SequenceTheorems, WellFoundedInduction, TLAPS

-----------------------------------------------------------------------------
(* Induction and recursion over an interval.                               *)

\* A set of numbers has a least one
LEMMA Least ==
    ASSUME NEW T \in SUBSET Nat, T # {}
    PROVE  \E m \in T : \A i \in T : m <= i
<1>1. PICK m \in T : \A i \in T : ~ (<<i, m>> \in OpToRel(<, Nat))
  BY NatLessThanWellFounded, WFMin
<1>2. \A i \in T : ~(i < m)
  BY <1>1 DEF OpToRel
<1>3. QED
  BY <1>2

\* Upwards from m to n
LEMMA Upwards ==
    ASSUME NEW m \in Int, NEW n \in Int, m <= n, NEW S,
           m \in S, \A i \in Int : m <= i /\ i < n /\ i \in S => i + 1 \in S
    PROVE  m..n \subseteq S
<1> DEFINE T == { d \in Nat : d <= n - m /\ m + d \notin S }
<1>1. SUFFICES ASSUME T # {} PROVE FALSE
  <2>1. ASSUME T = {}, NEW i \in m..n
        PROVE  i \in S
    <3>1. i - m \in Nat /\ i - m <= n - m /\ m + (i - m) = i
      BY <2>1
    <3>2. QED
      BY <2>1, <3>1
  <2>2. QED
    BY <2>1
<1>2. PICK d \in T : \A e \in T : d <= e
  <2>1. T \in SUBSET Nat
    OBVIOUS
  <2> HIDE DEF T
  <2>2. QED
    BY <1>1, <2>1, Least
<1>3. d \in Nat /\ d <= n - m /\ m + d \notin S
  BY <1>2
<1>4. d # 0
  <2>1. m + 0 = m
    OBVIOUS
  <2>2. QED
    BY <1>3, <2>1
<1>5. /\ d - 1 \in Nat /\ d - 1 <= n - m /\ ~(d <= d - 1)
      /\ m + (d - 1) \in Int /\ m <= m + (d - 1) /\ m + (d - 1) < n /\ m + (d - 1) + 1 = m + d
  BY <1>3, <1>4
<1>6. d - 1 \notin T
  <2> HIDE DEF T
  <2>1. QED
    BY <1>2, <1>5
<1>7. m + (d - 1) \in S
  BY <1>5, <1>6
<1>8. QED
  BY <1>3, <1>5, <1>7

\* Downwards from n to m
LEMMA Downwards ==
    ASSUME NEW m \in Int, NEW n \in Int, m <= n, NEW S,
           n \in S, \A i \in Int : m <= i /\ i < n /\ i + 1 \in S => i \in S
    PROVE  m..n \subseteq S
<1> DEFINE T == { d \in Int : n - d \in S }
<1>1. 0 \in T /\ n - m \in Int /\ 0 <= n - m
  <2>1. n - 0 = n
    OBVIOUS
  <2>2. QED
    BY <2>1
<1>2. ASSUME NEW d \in Int, 0 <= d, d < n - m, d \in T
      PROVE  d + 1 \in T
  <2>1. n - d - 1 \in Int /\ m <= n - d - 1 /\ n - d - 1 < n /\ n - d - 1 + 1 = n - d /\ n - (d + 1) = n - d - 1 /\ d + 1 \in Int
    BY <1>2
  <2>2. QED
    BY <1>2, <2>1
<1>3. 0..(n - m) \subseteq T
  <2>1. 0 \in Int /\ n - m \in Int /\ 0 <= n - m /\ 0 \in T
    BY <1>1
  <2>2. \A d \in Int : 0 <= d /\ d < n - m /\ d \in T => d + 1 \in T
    BY <1>2
  <2> HIDE DEF T
  <2>3. QED
    BY <2>1, <2>2, Upwards
<1>4. ASSUME NEW i \in m..n
      PROVE  i \in S
  <2>1. n - i \in 0..(n - m) /\ n - (n - i) = i
    OBVIOUS
  <2>2. QED
    BY <1>3, <2>1
<1>5. QED
  BY <1>4

\* What step makes of y, from one index to the next, and from the last index down
Rising(n, Y, y, step) ==
    { f \in [0..n -> Y] : f[0] = y /\ \A i \in 1..n : f[i] = step[i][f[i - 1]] }

Falling(n, Y, y, step) ==
    { f \in [1..(n + 1) -> Y] : f[n + 1] = y /\ \A i \in 1..n : f[i] = step[i][f[i + 1]] }

\* There are such values
LEMMA RecursionUp ==
    ASSUME NEW n \in Nat, NEW Y, NEW y \in Y, NEW step \in [1..n -> [Y -> Y]]
    PROVE  Rising(n, Y, y, step) # {}
<1> DEFINE Partial(k) == Rising(k, Y, y, step)
           S == { k \in 0..n : Partial(k) # {} }
<1>1. 0 \in S
  <2> DEFINE f == [k \in 0..0 |-> y]
  <2>1. f \in [0..0 -> Y] /\ f[0] = y /\ 1..0 = {}
    OBVIOUS
  <2> HIDE DEF f
  <2>2. f \in Partial(0)
    BY <2>1 DEF Rising
  <2>3. QED
    BY <2>2
<1>2. ASSUME NEW k \in Int, 0 <= k, k < n, k \in S
      PROVE  k + 1 \in S
  <2>1. PICK f \in Partial(k) : TRUE
    BY <1>2
  <2> DEFINE g == [i \in 0..(k + 1) |-> IF i = k + 1 THEN step[i][f[k]] ELSE f[i]]
  <2>2. /\ k + 1 \in 0..n /\ k + 1 \in 1..n /\ k \in 0..k /\ 0 \in 0..k /\ k + 1 \in 0..(k + 1)
        /\ \A i \in 0..(k + 1) : i # k + 1 => i \in 0..k
        /\ \A i \in 1..(k + 1) : i \in 0..(k + 1) /\ i - 1 \in 0..k /\ i - 1 # k + 1 /\ i - 1 \in 0..(k + 1)
        /\ \A i \in 1..(k + 1) : i = k + 1 \/ i \in 1..k
        /\ k + 1 - 1 = k /\ 0 # k + 1 /\ 0 \in 0..(k + 1)
    BY <1>2
  <2>3. f \in [0..k -> Y] /\ f[0] = y /\ \A i \in 1..k : f[i] = step[i][f[i - 1]]
    BY <2>1 DEF Rising
  <2>4. step[k + 1][f[k]] \in Y
    BY <2>2, <2>3
  <2>5. g \in [0..(k + 1) -> Y]
    BY <2>2, <2>3, <2>4
  <2>6. g[0] = y /\ g[k + 1] = step[k + 1][f[k]] /\ \A i \in 0..(k + 1) : i # k + 1 => g[i] = f[i]
    BY <2>2, <2>3
  <2> HIDE DEF g
  <2>7. \A i \in 1..(k + 1) : g[i] = step[i][g[i - 1]]
    <3>1. ASSUME NEW i \in 1..(k + 1)
          PROVE  g[i] = step[i][g[i - 1]]
      <4>1. CASE i = k + 1
        BY <2>2, <2>6, <4>1
      <4>2. CASE i # k + 1
        <5>1. i \in 1..k /\ g[i] = f[i] /\ g[i - 1] = f[i - 1]
          BY <2>2, <2>6, <4>2
        <5>2. QED
          BY <2>3, <5>1
      <4>3. QED
        BY <4>1, <4>2
    <3>2. QED
      BY <3>1
  <2>8. g \in Partial(k + 1)
    BY <2>5, <2>6, <2>7 DEF Rising
  <2>9. QED
    BY <2>2, <2>8
<1>3. n \in S
  <2>1. 0..n \subseteq S
    <3>1. 0 \in Int /\ n \in Int /\ 0 <= n
      OBVIOUS
    <3>2. \A k \in Int : 0 <= k /\ k < n /\ k \in S => k + 1 \in S
      BY <1>2
    <3> HIDE DEF S
    <3>3. QED
      BY <1>1, <3>1, <3>2, Upwards
  <2>2. QED
    BY <2>1
<1>4. QED
  BY <1>3

\* And downwards
LEMMA RecursionDown ==
    ASSUME NEW n \in Nat, NEW Y, NEW y \in Y, NEW step \in [1..n -> [Y -> Y]]
    PROVE  Falling(n, Y, y, step) # {}
<1> DEFINE back == [i \in 1..n |-> step[n + 1 - i]]
<1>1. /\ \A i \in 1..n : n + 1 - i \in 1..n /\ n + 1 - (n + 1 - i) = i
      /\ back \in [1..n -> [Y -> Y]]
  OBVIOUS
<1>2. \A i \in 1..n : back[i] = step[n + 1 - i]
  OBVIOUS
<1> HIDE DEF back
<1>3. PICK g \in [0..n -> Y] : g[0] = y /\ \A i \in 1..n : g[i] = back[i][g[i - 1]]
  <2>1. Rising(n, Y, y, back) # {}
    BY <1>1, RecursionUp
  <2>2. QED
    BY <2>1 DEF Rising
<1> DEFINE f == [i \in 1..(n + 1) |-> g[n + 1 - i]]
<1>4. /\ \A i \in 1..(n + 1) : n + 1 - i \in 0..n
      /\ n + 1 - (n + 1) = 0 /\ n + 1 \in 1..(n + 1)
      /\ \A i \in 1..n : /\ i \in 1..(n + 1) /\ i + 1 \in 1..(n + 1)
                         /\ n + 1 - (i + 1) = n + 1 - i - 1
  OBVIOUS
<1>5. f \in [1..(n + 1) -> Y] /\ f[n + 1] = y
  BY <1>3, <1>4
<1>6. \A i \in 1..n : f[i] = step[i][f[i + 1]]
  <2>1. ASSUME NEW i \in 1..n
        PROVE  f[i] = step[i][f[i + 1]]
    <3>1. f[i] = g[n + 1 - i] /\ f[i + 1] = g[n + 1 - i - 1]
      BY <1>4
    <3>2. g[n + 1 - i] = back[n + 1 - i][g[n + 1 - i - 1]] /\ back[n + 1 - i] = step[i]
      BY <1>1, <1>2, <1>3
    <3>3. QED
      BY <3>1, <3>2
  <2>2. QED
    BY <2>1
<1> HIDE DEF f
<1>7. f \in Falling(n, Y, y, step)
  BY <1>5, <1>6 DEF Falling
<1>8. QED
  BY <1>7

-----------------------------------------------------------------------------
(* Numbers in a base.                                                      *)

Base == Nat \ {0, 1}

\* v is the value of the columns f from each on, up to the n-th, in base B
AreTails(B, f, n, v) ==
    /\ v \in [1..(n + 1) -> Int]
    /\ v[n + 1] = 0
    /\ \A i \in 1..n : v[i] = f[i] + B * v[i + 1]

Tails(B, f, n) ==
    CHOOSE v : v = [i \in 1..(n + 1) |-> IF i > n THEN 0 ELSE f[i] + B * v[i + 1]]

Val(B, f, n) == Tails(B, f, n)[1]

\* A function that is what it should be at each argument
LEMMA Extensional ==
    ASSUME NEW D, NEW f, NEW g, f = [i \in D |-> f[i]], g = [i \in D |-> g[i]],
           \A i \in D : f[i] = g[i]
    PROVE  f = g
OBVIOUS

\* Every column has a value
LEMMA TailsExist ==
    ASSUME NEW B \in Int, NEW n \in Nat, NEW f, \A i \in 1..n : f[i] \in Int
    PROVE  AreTails(B, f, n, Tails(B, f, n))
<1> DEFINE step == [i \in 1..n |-> [x \in Int |-> f[i] + B * x]]
           v == Tails(B, f, n)
<1>1. step \in [1..n -> [Int -> Int]] /\ 0 \in Int
  OBVIOUS
<1>2. \A i \in 1..n, x \in Int : step[i][x] = f[i] + B * x
  OBVIOUS
<1> HIDE DEF step
<1>3. PICK g \in [1..(n + 1) -> Int] : g[n + 1] = 0 /\ \A i \in 1..n : g[i] = step[i][g[i + 1]]
  <2>1. Falling(n, Int, 0, step) # {}
    BY <1>1, RecursionDown
  <2>2. QED
    BY <2>1 DEF Falling
<1>4. /\ \A i \in 1..n : i + 1 \in 1..(n + 1) /\ i \in 1..(n + 1) /\ ~(i > n)
      /\ \A i \in 1..(n + 1) : i > n => i = n + 1
      /\ \A i \in 1..(n + 1) : ~(i > n) => i \in 1..n
      /\ n + 1 \in 1..(n + 1) /\ n + 1 > n
  OBVIOUS
<1>5. \A i \in 1..n : g[i] = f[i] + B * g[i + 1]
  BY <1>2, <1>3, <1>4
<1> DEFINE h == [i \in 1..(n + 1) |-> IF i > n THEN 0 ELSE f[i] + B * g[i + 1]]
<1>6. g = h
  <2>1. \A i \in 1..(n + 1) : g[i] = h[i]
    BY <1>3, <1>4, <1>5
  <2>2. g = [i \in 1..(n + 1) |-> g[i]] /\ h = [i \in 1..(n + 1) |-> h[i]]
    OBVIOUS
  <2> HIDE DEF h
  <2>3. QED
    BY <2>1, <2>2, Extensional
<1>7. v = [i \in 1..(n + 1) |-> IF i > n THEN 0 ELSE f[i] + B * v[i + 1]]
  BY <1>6 DEF Tails
<1> HIDE DEF v
<1>8. v[n + 1] = 0 /\ \A i \in 1..n : v[i] = f[i] + B * v[i + 1]
  BY <1>4, <1>7
<1> DEFINE S == { i \in 1..(n + 1) : v[i] \in Int }
<1>9. 1..(n + 1) \subseteq S
  <2>1. n + 1 \in S /\ 1 \in Int /\ n + 1 \in Int /\ 1 <= n + 1
    BY <1>4, <1>8
  <2>2. \A i \in Int : 1 <= i /\ i < n + 1 /\ i + 1 \in S => i \in S
    <3>1. ASSUME NEW i \in Int, 1 <= i, i < n + 1, i + 1 \in S
          PROVE  i \in S
      <4>1. i \in 1..n
        BY <3>1
      <4>2. v[i] = f[i] + B * v[i + 1] /\ v[i + 1] \in Int /\ f[i] \in Int /\ i \in 1..(n + 1)
        BY <1>4, <1>8, <3>1, <4>1
      <4>3. QED
        BY <4>2
    <3>2. QED
      BY <3>1
  <2> HIDE DEF S
  <2>3. QED
    BY <2>1, <2>2, Downwards
<1>10. v \in [1..(n + 1) -> Int]
  BY <1>7, <1>9
<1>11. QED
  BY <1>8, <1>10 DEF AreTails, v

\* A power is the power before it times the base
LEMMA PowerIs ==
    ASSUME NEW B \in Int, NEW n \in Nat
    PROVE  /\ Power(B, n) \in Int /\ Power(B, 0) = 1
           /\ Power(B, n + 1) = B * Power(B, n)
<1> DEFINE pow(m) == CHOOSE p : p = [i \in 0..m |-> IF i = 0 THEN 1 ELSE B * p[i - 1]]
<1>1. ASSUME NEW m \in Nat
      PROVE  /\ pow(m) \in [0..m -> Int]
             /\ pow(m)[0] = 1 /\ \A i \in 1..m : pow(m)[i] = B * pow(m)[i - 1]
             /\ Power(B, m) = pow(m)[m]
  <2> DEFINE step == [i \in 1..m |-> [x \in Int |-> B * x]]
             p == pow(m)
  <2>1. step \in [1..m -> [Int -> Int]] /\ 1 \in Int /\ \A i \in 1..m, x \in Int : step[i][x] = B * x
    OBVIOUS
  <2> HIDE DEF step
  <2>2. PICK g \in [0..m -> Int] : g[0] = 1 /\ \A i \in 1..m : g[i] = step[i][g[i - 1]]
    <3>1. Rising(m, Int, 1, step) # {}
      BY <2>1, RecursionUp
    <3>2. QED
      BY <3>1 DEF Rising
  <2>3. /\ \A i \in 1..m : i \in 0..m /\ i - 1 \in 0..m /\ i # 0
        /\ \A i \in 0..m : i # 0 => i \in 1..m
        /\ 0 \in 0..m
    OBVIOUS
  <2>4. \A i \in 1..m : g[i] = B * g[i - 1]
    BY <2>1, <2>2, <2>3
  <2> DEFINE h == [i \in 0..m |-> IF i = 0 THEN 1 ELSE B * g[i - 1]]
  <2>5. g = h
    <3>1. \A i \in 0..m : g[i] = h[i]
      BY <2>2, <2>3, <2>4
    <3>2. g = [i \in 0..m |-> g[i]] /\ h = [i \in 0..m |-> h[i]]
      OBVIOUS
    <3> HIDE DEF h
    <3>3. QED
      BY <3>1, <3>2, Extensional
  <2>6. p = [i \in 0..m |-> IF i = 0 THEN 1 ELSE B * p[i - 1]]
    BY <2>5
  <2>7. Power(B, m) = p[m]
    BY DEF Power
  <2> HIDE DEF p
  <2>8. p[0] = 1 /\ \A i \in 1..m : p[i] = B * p[i - 1]
    BY <2>3, <2>6
  <2> DEFINE S == { i \in 0..m : p[i] \in Int }
  <2>9. 0..m \subseteq S
    <3>1. 0 \in S /\ 0 \in Int /\ m \in Int /\ 0 <= m
      BY <2>3, <2>8
    <3>2. \A i \in Int : 0 <= i /\ i < m /\ i \in S => i + 1 \in S
      <4>1. \A i \in Int : 0 <= i /\ i < m => i + 1 \in 1..m /\ i + 1 - 1 = i /\ i + 1 \in 0..m
        OBVIOUS
      <4>2. QED
        BY <2>8, <4>1
    <3> HIDE DEF S
    <3>3. QED
      BY <3>1, <3>2, Upwards
  <2>10. p \in [0..m -> Int]
    BY <2>6, <2>9
  <2>11. QED
    BY <2>7, <2>8, <2>10 DEF p
<1> HIDE DEF pow
<1> DEFINE S == { i \in 0..n : pow(n)[i] = pow(n + 1)[i] }
<1>2. n + 1 \in Nat /\ 0 \in Nat
  OBVIOUS
<1>3. 0..n \subseteq S
  <2>1. 0 \in S /\ 0 \in Int /\ n \in Int /\ 0 <= n
    BY <1>1, <1>2
  <2>2. \A i \in Int : 0 <= i /\ i < n /\ i \in S => i + 1 \in S
    <3>1. ASSUME NEW i \in Int, 0 <= i, i < n, i \in S
          PROVE  i + 1 \in S
      <4>1. i + 1 \in 1..n /\ i + 1 \in 1..(n + 1) /\ i + 1 - 1 = i /\ i + 1 \in 0..n
        BY <3>1
      <4>2. pow(n)[i + 1] = B * pow(n)[i]
        BY <1>1, <4>1
      <4>3. pow(n + 1)[i + 1] = B * pow(n + 1)[i]
        BY <1>1, <1>2, <4>1
      <4>4. QED
        BY <3>1, <4>1, <4>2, <4>3
    <3>2. QED
      BY <3>1
  <2> HIDE DEF S
  <2>3. QED
    BY <2>1, <2>2, Upwards
<1>4. pow(n + 1)[n + 1] = B * pow(n)[n]
  <2>1. n \in 0..n /\ n + 1 \in 1..(n + 1) /\ n + 1 - 1 = n
    OBVIOUS
  <2>2. pow(n + 1)[n + 1] = B * pow(n + 1)[n]
    BY <1>1, <1>2, <2>1
  <2>3. pow(n)[n] = pow(n + 1)[n]
    BY <1>3, <2>1
  <2>4. QED
    BY <2>2, <2>3
<1>5. pow(n)[n] \in Int
  <2>1. n \in 0..n
    OBVIOUS
  <2>2. QED
    BY <1>1, <2>1
<1>6. QED
  BY <1>1, <1>2, <1>4, <1>5

\* Columns that are the same have the same values
LEMMA TailsSame ==
    ASSUME NEW B \in Int, NEW n \in Nat, NEW f, NEW g, NEW t, NEW u,
           \A i \in 1..n : f[i] = g[i], AreTails(B, f, n, t), AreTails(B, g, n, u)
    PROVE  \A i \in 1..(n + 1) : t[i] = u[i]
<1> DEFINE S == { i \in 1..(n + 1) : t[i] = u[i] }
<1>1. n + 1 \in S /\ 1 \in Int /\ n + 1 \in Int /\ 1 <= n + 1
  BY DEF AreTails
<1>2. ASSUME NEW i \in Int, 1 <= i, i < n + 1, i + 1 \in S
      PROVE  i \in S
  <2>1. i \in 1..n /\ i \in 1..(n + 1)
    BY <1>2
  <2>2. t[i] = f[i] + B * t[i + 1] /\ u[i] = g[i] + B * u[i + 1] /\ f[i] = g[i] /\ t[i + 1] = u[i + 1]
    BY <1>2, <2>1 DEF AreTails
  <2>3. QED
    BY <2>1, <2>2
<1>3. \A i \in Int : 1 <= i /\ i < n + 1 /\ i + 1 \in S => i \in S
  BY <1>2
<1>4. 1..(n + 1) \subseteq S
  <2> HIDE DEF S
  <2>1. QED
    BY <1>1, <1>3, Downwards
<1>5. QED
  BY <1>4

\* The value of columns
LEMMA ValIs ==
    ASSUME NEW B \in Int, NEW n \in Nat, NEW f, NEW t,
           \A i \in 1..n : f[i] \in Int, AreTails(B, f, n, t)
    PROVE  Val(B, f, n) = t[1]
<1>1. AreTails(B, f, n, Tails(B, f, n))
  BY TailsExist
<1>2. \A i \in 1..(n + 1) : t[i] = Tails(B, f, n)[i]
  BY <1>1, TailsSame
<1>3. 1 \in 1..(n + 1)
  OBVIOUS
<1>4. QED
  BY <1>2, <1>3 DEF Val

\* The value depends on the digits only
LEMMA ValSame ==
    ASSUME NEW B \in Int, NEW n \in Nat, NEW f, NEW g,
           \A i \in 1..n : f[i] \in Int /\ f[i] = g[i]
    PROVE  Val(B, f, n) \in Int /\ Val(B, f, n) = Val(B, g, n)
<1>1. \A i \in 1..n : g[i] \in Int
  OBVIOUS
<1>2. AreTails(B, f, n, Tails(B, f, n)) /\ AreTails(B, g, n, Tails(B, g, n))
  BY <1>1, TailsExist
<1>3. \A i \in 1..(n + 1) : Tails(B, f, n)[i] = Tails(B, g, n)[i]
  BY <1>2, TailsSame
<1>4. 1 \in 1..(n + 1)
  OBVIOUS
<1>5. QED
  BY <1>2, <1>3, <1>4 DEF Val, AreTails

\* A value of integers is an integer
LEMMA ValInt ==
    ASSUME NEW B \in Int, NEW n \in Nat, NEW f, \A i \in 1..n : f[i] \in Int
    PROVE  Val(B, f, n) \in Int
BY ValSame

\* A power is an integer
LEMMA PowerInt ==
    ASSUME NEW B \in Int, NEW n \in Nat
    PROVE  Power(B, n) \in Int
BY PowerIs

\* Columns f become g when c is moved from each to the next one as a B-th of it
AreMoved(B, f, g, c, n) == \A i \in 1..n : g[i] + B * c[i + 1] = f[i] + c[i]

\* Only what comes in and what goes out changes the value
LEMMA ValCarry ==
    ASSUME NEW B \in Int, NEW n \in Nat, NEW f, NEW g, NEW c,
           \A i \in 1..n : f[i] \in Int /\ g[i] \in Int, \A i \in 1..(n + 1) : c[i] \in Int,
           AreMoved(B, f, g, c, n)
    PROVE  Val(B, g, n) + Power(B, n) * c[n + 1] = Val(B, f, n) + c[1]
<1>1. PICK t : t = Tails(B, f, n) /\ AreTails(B, f, n, t)
  BY TailsExist
<1>2. PICK u : u = Tails(B, g, n) /\ AreTails(B, g, n, u)
  BY TailsExist
<1> DEFINE S == { i \in 1..(n + 1) : u[i] + Power(B, n + 1 - i) * c[n + 1] = t[i] + c[i] }
<1>3. \A i \in 1..(n + 1) : t[i] \in Int /\ u[i] \in Int /\ c[i] \in Int
  BY <1>1, <1>2 DEF AreTails
<1>4. n + 1 \in S /\ 1 \in Int /\ n + 1 \in Int /\ 1 <= n + 1
  <2>1. n + 1 \in 1..(n + 1) /\ n + 1 - (n + 1) = 0 /\ 0 \in Nat
    OBVIOUS
  <2>2. Power(B, 0) = 1
    BY <2>1, PowerIs
  <2>3. u[n + 1] = 0 /\ t[n + 1] = 0
    BY <1>1, <1>2 DEF AreTails
  <2>4. u[n + 1] + 1 * c[n + 1] = t[n + 1] + c[n + 1]
    BY <1>3, <2>1, <2>3
  <2>5. QED
    BY <2>1, <2>2, <2>4
<1>5. ASSUME NEW i \in Int, 1 <= i, i < n + 1, i + 1 \in S
      PROVE  i \in S
  <2>1. /\ i \in 1..n /\ i \in 1..(n + 1) /\ i + 1 \in 1..(n + 1) /\ n + 1 \in 1..(n + 1)
        /\ n + 1 - (i + 1) \in Nat /\ n + 1 - (i + 1) + 1 = n + 1 - i
    BY <1>5
  <2>2. PICK p \in Int : p = Power(B, n + 1 - (i + 1))
    BY <2>1, PowerInt
  <2>3. Power(B, n + 1 - i) = B * p
    BY <2>1, <2>2, PowerIs
  <2>4. u[i + 1] + p * c[n + 1] = t[i + 1] + c[i + 1]
    BY <1>5, <2>2
  <2>5. t[i] = f[i] + B * t[i + 1] /\ u[i] = g[i] + B * u[i + 1] /\ g[i] + B * c[i + 1] = f[i] + c[i]
    BY <1>1, <1>2, <2>1 DEF AreTails, AreMoved
  <2>6. f[i] \in Int /\ g[i] \in Int
    BY <2>1
  <2>7. PICK U \in Int, V \in Int, F \in Int, G \in Int, K \in Int, L \in Int, C \in Int :
           /\ U = u[i + 1] /\ V = t[i + 1] /\ F = f[i] /\ G = g[i]
           /\ K = c[i] /\ L = c[i + 1] /\ C = c[n + 1]
    BY <1>3, <2>1, <2>6
  <2>8. u[i] + (B * p) * c[n + 1] = t[i] + c[i]
    <3>1. U + p * C = V + L /\ G + B * L = F + K
      BY <2>4, <2>5, <2>7
    <3>2. B * (U + p * C) = B * U + (B * p) * C /\ B * (V + L) = B * V + B * L
      BY <2>2
    <3>3. (B * p) * C \in Int /\ B * U \in Int /\ B * V \in Int /\ B * L \in Int
      BY <2>2
    <3>4. G + B * U + (B * p) * C = F + B * V + K
      BY <3>1, <3>2, <3>3
    <3>5. QED
      BY <2>5, <2>7, <3>4
  <2>9. QED
    BY <2>1, <2>3, <2>8
<1>6. \A i \in Int : 1 <= i /\ i < n + 1 /\ i + 1 \in S => i \in S
  BY <1>5
<1>7. 1..(n + 1) \subseteq S
  <2> HIDE DEF S
  <2>1. QED
    BY <1>4, <1>6, Downwards
<1>8. 1 \in 1..(n + 1) /\ n + 1 - 1 = n
  OBVIOUS
<1>9. QED
  BY <1>1, <1>2, <1>7, <1>8 DEF Val

\* The columns h are x times f and y times g
AreCombined(h, x, f, y, g, n) == \A i \in 1..n : h[i] = x * f[i] + y * g[i]

\* A sum of multiples of columns
LEMMA ValLinear ==
    ASSUME NEW B \in Int, NEW n \in Nat, NEW f, NEW g, NEW h, NEW x \in Int, NEW y \in Int,
           \A i \in 1..n : f[i] \in Int /\ g[i] \in Int,
           AreCombined(h, x, f, y, g, n)
    PROVE  Val(B, h, n) = x * Val(B, f, n) + y * Val(B, g, n)
<1>0. \A i \in 1..n : h[i] = x * f[i] + y * g[i]
  BY DEF AreCombined
<1>1. PICK t : t = Tails(B, f, n) /\ AreTails(B, f, n, t)
  BY TailsExist
<1>2. PICK u : u = Tails(B, g, n) /\ AreTails(B, g, n, u)
  BY TailsExist
<1> DEFINE w == [i \in 1..(n + 1) |-> x * t[i] + y * u[i]]
<1>3. \A i \in 1..(n + 1) : t[i] \in Int /\ u[i] \in Int
  BY <1>1, <1>2 DEF AreTails
<1>4. AreTails(B, h, n, w)
  <2>1. w \in [1..(n + 1) -> Int]
    BY <1>3
  <2>2. w[n + 1] = 0
    <3>1. n + 1 \in 1..(n + 1) /\ t[n + 1] = 0 /\ u[n + 1] = 0
      BY <1>1, <1>2 DEF AreTails
    <3>2. QED
      BY <3>1
  <2>3. ASSUME NEW i \in 1..n
        PROVE  w[i] = h[i] + B * w[i + 1]
    <3>1. i \in 1..(n + 1) /\ i + 1 \in 1..(n + 1)
      OBVIOUS
    <3>2. PICK T \in Int, U \in Int, F \in Int, G \in Int : T = t[i + 1] /\ U = u[i + 1] /\ F = f[i] /\ G = g[i]
      BY <1>3, <3>1
    <3>3. w[i] = x * (F + B * T) + y * (G + B * U)
      BY <1>1, <1>2, <3>1, <3>2 DEF AreTails
    <3>4. w[i + 1] = x * T + y * U /\ h[i] = x * F + y * G
      BY <1>0, <3>1, <3>2
    <3>5. x * (F + B * T) = x * F + B * (x * T) /\ y * (G + B * U) = y * G + B * (y * U)
      OBVIOUS
    <3>6. B * (x * T + y * U) = B * (x * T) + B * (y * U)
      OBVIOUS
    <3>7. x * F \in Int /\ y * G \in Int /\ B * (x * T) \in Int /\ B * (y * U) \in Int
      OBVIOUS
    <3>8. QED
      BY <3>3, <3>4, <3>5, <3>6, <3>7
  <2> HIDE DEF w
  <2>4. QED
    BY <2>1, <2>2, <2>3 DEF AreTails
<1>5. \A i \in 1..n : h[i] \in Int
  BY <1>0
<1>6. w[1] = x * t[1] + y * u[1]
  OBVIOUS
<1> HIDE DEF w
<1>7. QED
  BY <1>1, <1>2, <1>4, <1>5, <1>6, ValIs DEF Val

\* Powers of a base
LEMMA PowerBase ==
    ASSUME NEW B \in Nat \ {0}, NEW n \in Nat
    PROVE  Power(B, n) \in Nat \ {0}
<1> DEFINE S == { i \in Nat : Power(B, i) \in Nat \ {0} }
<1>1. 0 \in S /\ 0 \in Int /\ n \in Int /\ 0 <= n
  BY PowerIs
<1>2. ASSUME NEW i \in Int, 0 <= i, i < n, i \in S
      PROVE  i + 1 \in S
  <2>1. PICK p \in Nat \ {0} : p = Power(B, i)
    BY <1>2
  <2>2. Power(B, i + 1) = B * p /\ i + 1 \in Nat
    BY <1>2, <2>1, PowerIs
  <2>3. B * p \in Nat \ {0}
    OBVIOUS
  <2>4. QED
    BY <2>2, <2>3
<1>3. \A i \in Int : 0 <= i /\ i < n /\ i \in S => i + 1 \in S
  BY <1>2
<1>4. 0..n \subseteq S
  <2> HIDE DEF S
  <2>1. QED
    BY <1>1, <1>3, Upwards
<1>5. n \in 0..n
  OBVIOUS
<1>6. QED
  BY <1>4, <1>5

\* The bounds of the values of n digits
LEMMA ValBound ==
    ASSUME NEW B \in Base, NEW n \in Nat, NEW f, \A i \in 1..n : f[i] \in 0..(B - 1)
    PROVE  Val(B, f, n) \in Nat /\ Val(B, f, n) < Power(B, n)
<1>1. PICK t : t = Tails(B, f, n) /\ AreTails(B, f, n, t)
  <2>1. \A i \in 1..n : f[i] \in Int
    BY DEF Base
  <2>2. B \in Int
    BY DEF Base
  <2>3. QED
    BY <2>1, <2>2, TailsExist
<1> DEFINE S == { i \in 1..(n + 1) : 0 <= t[i] /\ t[i] < Power(B, n + 1 - i) }
<1>2. \A i \in 1..(n + 1) : t[i] \in Int
  BY <1>1 DEF AreTails
<1>3. n + 1 \in S /\ 1 \in Int /\ n + 1 \in Int /\ 1 <= n + 1
  <2>1. n + 1 \in 1..(n + 1) /\ n + 1 - (n + 1) = 0 /\ 0 \in Nat /\ B \in Int
    BY DEF Base
  <2>2. Power(B, 0) = 1
    BY <2>1, PowerIs
  <2>3. t[n + 1] = 0
    BY <1>1 DEF AreTails
  <2>4. QED
    BY <2>1, <2>2, <2>3
<1>4. ASSUME NEW i \in Int, 1 <= i, i < n + 1, i + 1 \in S
      PROVE  i \in S
  <2>1. /\ i \in 1..n /\ i \in 1..(n + 1) /\ i + 1 \in 1..(n + 1) /\ B \in Nat \ {0} /\ B \in Int
        /\ n + 1 - (i + 1) \in Nat /\ n + 1 - (i + 1) + 1 = n + 1 - i
    BY <1>4 DEF Base
  <2>2. PICK p \in Nat : p = Power(B, n + 1 - (i + 1))
    BY <2>1, PowerBase
  <2>3. Power(B, n + 1 - i) = B * p
    BY <2>1, <2>2, PowerIs
  <2>4. PICK T \in Int, F \in 0..(B - 1) : T = t[i + 1] /\ F = f[i]
    BY <1>2, <2>1
  <2>5. 0 <= T /\ T <= p - 1
    BY <1>4, <2>2, <2>4
  <2>6. t[i] = F + B * T
    BY <1>1, <2>1, <2>4 DEF AreTails
  <2>7. 0 <= B * T /\ B * T <= B * (p - 1)
    BY <2>1, <2>2, <2>5
  <2>8. B * (p - 1) = B * p - B /\ B * p \in Int /\ B * T \in Int
    BY <2>1, <2>2, <2>4
  <2>9. 0 <= F + B * T /\ F + B * T < B * p
    BY <2>1, <2>4, <2>7, <2>8
  <2>10. QED
    BY <2>1, <2>3, <2>6, <2>9
<1>5. \A i \in Int : 1 <= i /\ i < n + 1 /\ i + 1 \in S => i \in S
  BY <1>4
<1>6. 1..(n + 1) \subseteq S
  <2> HIDE DEF S
  <2>1. QED
    BY <1>3, <1>5, Downwards
<1>7. 1 \in 1..(n + 1) /\ n + 1 - 1 = n
  OBVIOUS
<1>8. QED
  BY <1>1, <1>2, <1>6, <1>7 DEF Val

\* The m columns g are those of f above the k-th
AreUpper(f, k, g, m) == \A i \in 1..m : g[i] = f[k + i]

\* The value of the lower columns and that of the upper ones
LEMMA ValSplit ==
    ASSUME NEW B \in Int, NEW n \in Nat, NEW k \in Nat, NEW m \in Nat, n = k + m, NEW f, NEW g,
           \A i \in 1..n : f[i] \in Int, AreUpper(f, k, g, m)
    PROVE  Val(B, f, n) = Val(B, f, k) + Power(B, k) * Val(B, g, m)
<1>0. m = n - k /\ k \in 0..n /\ \A i \in 1..m : g[i] = f[k + i]
  BY DEF AreUpper
<1>1. k \in Nat /\ n - k \in Nat /\ 1..k \subseteq 1..n /\ \A i \in 1..(n - k) : k + i \in 1..n
  OBVIOUS
<1>2. PICK u : u = Tails(B, f, k) /\ AreTails(B, f, k, u)
  BY <1>1, TailsExist
<1>3. PICK w : w = Tails(B, g, n - k) /\ AreTails(B, g, n - k, w)
  <2>1. \A i \in 1..(n - k) : g[i] \in Int
    BY <1>0, <1>1
  <2>2. QED
    BY <1>1, <2>1, TailsExist
<1>4. /\ \A i \in 1..(k + 1) : u[i] \in Int
      /\ \A i \in 1..(n - k + 1) : w[i] \in Int
      /\ u[k + 1] = 0 /\ w[n - k + 1] = 0
  BY <1>2, <1>3 DEF AreTails
<1>5. PICK W \in Int : W = w[1]
  <2>1. 1 \in 1..(n - k + 1)
    BY <1>1
  <2>2. QED
    BY <1>4, <2>1
<1> DEFINE t == [i \in 1..(n + 1) |-> IF i <= k THEN u[i] + Power(B, k + 1 - i) * W ELSE w[i - k]]
<1>6. AreTails(B, f, n, t)
  <2>1. t \in [1..(n + 1) -> Int]
    <3>1. ASSUME NEW i \in 1..(n + 1)
          PROVE  t[i] \in Int
      <4>1. CASE i <= k
        <5>1. i \in 1..(k + 1) /\ k + 1 - i \in Nat
          BY <4>1
        <5>2. Power(B, k + 1 - i) \in Int
          BY <5>1, PowerInt
        <5>3. u[i] + Power(B, k + 1 - i) * W \in Int
          BY <1>4, <5>1, <5>2
        <5>4. QED
          BY <4>1, <5>3
      <4>2. CASE ~(i <= k)
        <5>1. i - k \in 1..(n - k + 1)
          BY <4>2
        <5>2. QED
          BY <1>4, <4>2, <5>1
      <4>3. QED
        BY <4>1, <4>2
    <3>2. QED
      BY <3>1
  <2>2. t[n + 1] = 0
    <3>1. n + 1 \in 1..(n + 1) /\ ~(n + 1 <= k) /\ n + 1 - k = n - k + 1
      BY <1>0
    <3>2. QED
      BY <1>4, <3>1
  <2>3. ASSUME NEW i \in 1..n
        PROVE  t[i] = f[i] + B * t[i + 1]
    <3>0. i \in 1..(n + 1) /\ i + 1 \in 1..(n + 1)
      OBVIOUS
    <3>1. CASE i < k
      <4>1. i \in 1..k /\ i + 1 \in 1..(k + 1) /\ i <= k /\ i + 1 <= k
            /\ k + 1 - (i + 1) \in Nat /\ k + 1 - (i + 1) + 1 = k + 1 - i
        BY <3>1
      <4>2. PICK p \in Int : p = Power(B, k + 1 - (i + 1))
        BY <4>1, PowerInt
      <4>3. Power(B, k + 1 - i) = B * p
        BY <4>1, <4>2, PowerIs
      <4>4. PICK U \in Int, F \in Int : U = u[i + 1] /\ F = f[i] /\ u[i] = F + B * U
        BY <1>2, <1>4, <4>1 DEF AreTails
      <4>5. t[i] = F + B * U + (B * p) * W /\ t[i + 1] = U + p * W
        BY <3>0, <4>1, <4>2, <4>3, <4>4
      <4>6. B * (U + p * W) = B * U + (B * p) * W /\ B * U \in Int /\ (B * p) * W \in Int
        OBVIOUS
      <4> HIDE DEF t
      <4>7. t[i] = F + B * (U + p * W)
        BY <4>5, <4>6
      <4>8. QED
        BY <4>4, <4>5, <4>7
    <3>2. CASE i = k
      <4>1. i \in 1..k /\ i <= k /\ ~(i + 1 <= k) /\ i + 1 - k = 1 /\ k + 1 - i = 0 + 1
        BY <3>2
      <4>2. Power(B, 0 + 1) = B * 1
        BY PowerIs
      <4>3. PICK F \in Int : F = f[i] /\ u[i] = F
        <5>1. u[i] = f[i] + B * 0
          BY <1>2, <1>4, <3>2, <4>1 DEF AreTails
        <5>2. QED
          BY <5>1
      <4>4. t[i] = F + (B * 1) * W /\ t[i + 1] = W
        BY <1>5, <3>0, <4>1, <4>2, <4>3
      <4>5. (B * 1) * W = B * W
        OBVIOUS
      <4>6. QED
        BY <4>3, <4>4, <4>5
    <3>3. CASE i > k
      <4>1. i - k \in 1..(n - k) /\ ~(i <= k) /\ ~(i + 1 <= k) /\ i + 1 - k = i - k + 1 /\ k + (i - k) = i
        BY <3>3
      <4>2. w[i - k] = g[i - k] + B * w[i - k + 1] /\ g[i - k] = f[k + (i - k)]
        BY <1>0, <1>3, <4>1 DEF AreTails
      <4>3. t[i] = w[i - k] /\ t[i + 1] = w[i + 1 - k]
        BY <3>0, <4>1
      <4>4. QED
        BY <4>1, <4>2, <4>3
    <3>4. QED
      BY <3>1, <3>2, <3>3
  <2> HIDE DEF t
  <2>4. QED
    BY <2>1, <2>2, <2>3 DEF AreTails
<1>7. t[1] = u[1] + Power(B, k) * W
  <2>1. CASE 1 <= k
    <3>1. 1 \in 1..(n + 1) /\ k + 1 - 1 = k
      OBVIOUS
    <3>2. QED
      BY <2>1, <3>1
  <2>2. CASE k = 0
    <3>1. 1 \in 1..(n + 1) /\ ~(1 <= k) /\ 1 - k = 1 /\ k + 1 = 1
      BY <2>2
    <3>2. Power(B, k) = 1 /\ t[1] = W /\ u[1] = 0
      BY <1>4, <1>5, <2>2, <3>1, PowerIs
    <3>3. QED
      BY <3>2
  <2>3. QED
    BY <2>1, <2>2
<1> HIDE DEF t
<1>8. Val(B, f, n) = t[1]
  BY <1>6, ValIs
<1>9. QED
  BY <1>0, <1>2, <1>3, <1>5, <1>7, <1>8 DEF Val

\* No column has the value zero, one has its own
LEMMA ValFew ==
    ASSUME NEW B \in Int, NEW f
    PROVE  /\ Val(B, f, 0) = 0
           /\ f[1] \in Int => Val(B, f, 1) = f[1]
<1>1. Val(B, f, 0) = 0
  <2>1. \A i \in 1..0 : f[i] \in Int
    OBVIOUS
  <2>2. AreTails(B, f, 0, Tails(B, f, 0))
    BY <2>1, TailsExist
  <2>3. QED
    BY <2>2 DEF AreTails, Val
<1>2. ASSUME f[1] \in Int
      PROVE  Val(B, f, 1) = f[1]
  <2>1. \A i \in 1..1 : f[i] \in Int
    BY <1>2
  <2>2. AreTails(B, f, 1, Tails(B, f, 1))
    BY <2>1, TailsExist
  <2>3. Tails(B, f, 1)[2] = 0 /\ Tails(B, f, 1)[1] = f[1] + B * Tails(B, f, 1)[2]
    <3>1. 1 + 1 = 2 /\ 1 \in 1..1
      OBVIOUS
    <3>2. QED
      BY <2>2, <3>1 DEF AreTails
  <2>4. QED
    BY <1>2, <2>3 DEF Val
<1>3. QED
  BY <1>1, <1>2

\* Zeros have the value zero
LEMMA ValZero ==
    ASSUME NEW B \in Int, NEW n \in Nat, NEW f, \A i \in 1..n : f[i] = 0
    PROVE  Val(B, f, n) = 0
<1>1. \A i \in 1..n : f[i] \in Int /\ f[i] = 0 * f[i] + 0 * f[i]
  OBVIOUS
<1>2. Val(B, f, n) = 0 * Val(B, f, n) + 0 * Val(B, f, n)
  BY <1>1, ValLinear DEF AreCombined
<1>3. Val(B, f, n) \in Int
  BY <1>1, ValInt
<1>4. QED
  BY <1>2, <1>3

\* Zeros above the others do not count
LEMMA ValPadded ==
    ASSUME NEW B \in Int, NEW n \in Nat, NEW k \in 0..n, NEW f,
           \A i \in 1..n : f[i] \in Int, \A i \in (k + 1)..n : f[i] = 0
    PROVE  Val(B, f, n) = Val(B, f, k)
<1> DEFINE g == [i \in 1..(n - k) |-> f[k + i]]
<1>1. \A i \in 1..(n - k) : g[i] = f[k + i] /\ g[i] = 0
  OBVIOUS
<1>2. k \in Nat /\ n - k \in Nat /\ \A i \in 1..k : f[i] \in Int
  OBVIOUS
<1> HIDE DEF g
<1>3. Val(B, f, n) = Val(B, f, k) + Power(B, k) * Val(B, g, n - k)
  BY <1>1, <1>2, ValSplit DEF AreUpper
<1>4. Val(B, g, n - k) = 0 /\ Power(B, k) \in Int /\ Val(B, f, k) \in Int
  BY <1>1, <1>2, ValZero, PowerInt, ValInt
<1>5. QED
  BY <1>3, <1>4

\* The last column counts by the power before it
LEMMA ValLast ==
    ASSUME NEW B \in Int, NEW n \in Nat \ {0}, NEW f, \A i \in 1..n : f[i] \in Int
    PROVE  Val(B, f, n) = Val(B, f, n - 1) + Power(B, n - 1) * f[n]
<1> DEFINE g == [i \in 1..1 |-> f[n]]
<1>1. /\ n - 1 \in Nat /\ n \in Nat /\ n = n - 1 + 1 /\ 1 \in Nat /\ f[n] \in Int
      /\ \A i \in 1..1 : g[i] = f[n - 1 + i]
      /\ g[1] = f[n]
  <2>1. \A i \in 1..1 : i \in 1..1 /\ n - 1 + i = n
    OBVIOUS
  <2>2. QED
    BY <2>1
<1> HIDE DEF g
<1>2. Val(B, f, n) = Val(B, f, n - 1) + Power(B, n - 1) * Val(B, g, 1)
  <2>1. AreUpper(f, n - 1, g, 1)
    BY <1>1 DEF AreUpper
  <2>2. n - 1 \in Nat /\ n \in Nat /\ 1 \in Nat /\ n = n - 1 + 1
    BY <1>1
  <2>3. QED
    BY <2>1, <2>2, ValSplit
<1>3. QED
  BY <1>1, <1>2, ValFew

\* Powers grow
LEMMA PowerMore ==
    ASSUME NEW B \in Nat \ {0}, NEW m \in Nat, NEW n \in Nat
    PROVE  /\ Power(B, m + n) = Power(B, m) * Power(B, n)
           /\ Power(B, m) <= Power(B, m + n)
<1> DEFINE S == { i \in Nat : Power(B, m + i) = Power(B, m) * Power(B, i) }
<1>1. PICK q \in Nat \ {0} : q = Power(B, m)
  BY PowerBase
<1>2. 0 \in S /\ 0 \in Int /\ n \in Int /\ 0 <= n
  <2>1. Power(B, 0) = 1 /\ m + 0 = m /\ q = q * 1
    BY PowerIs
  <2>2. QED
    BY <1>1, <2>1
<1>3. ASSUME NEW i \in Int, 0 <= i, i < n, i \in S
      PROVE  i + 1 \in S
  <2>1. i \in Nat /\ i + 1 \in Nat /\ m + i \in Nat /\ m + (i + 1) = m + i + 1
    BY <1>3
  <2>2. PICK p \in Nat : p = Power(B, i)
    BY <2>1, PowerBase
  <2>3. Power(B, i + 1) = B * p
    BY <2>1, <2>2, PowerIs
  <2>4. Power(B, m + (i + 1)) = B * (q * p)
    <3>1. Power(B, m + i + 1) = B * Power(B, m + i)
      BY <2>1, PowerIs
    <3>2. Power(B, m + i) = q * p
      BY <1>1, <1>3, <2>2
    <3>3. QED
      BY <2>1, <3>1, <3>2
  <2>5. B * (q * p) = q * (B * p)
    OBVIOUS
  <2>6. QED
    BY <1>1, <2>1, <2>3, <2>4, <2>5
<1>4. \A i \in Int : 0 <= i /\ i < n /\ i \in S => i + 1 \in S
  BY <1>3
<1>5. 0..n \subseteq S
  <2> HIDE DEF S
  <2>1. QED
    BY <1>2, <1>4, Upwards
<1>6. n \in 0..n
  OBVIOUS
<1>7. Power(B, m + n) = Power(B, m) * Power(B, n)
  BY <1>5, <1>6
<1>8. PICK r \in Nat \ {0} : r = Power(B, n)
  BY PowerBase
<1>9. q <= q * r
  OBVIOUS
<1>10. QED
  BY <1>1, <1>7, <1>8, <1>9

\* The powers do not fall
LEMMA PowerOrder ==
    ASSUME NEW B \in Nat \ {0}, NEW m \in Nat, NEW n \in Nat, m <= n
    PROVE  Power(B, m) <= Power(B, n)
<1>1. n - m \in Nat /\ m + (n - m) = n
  OBVIOUS
<1>2. QED
  BY <1>1, PowerMore

\* With a last digit that is not zero
LEMMA ValLarge ==
    ASSUME NEW B \in Base, NEW n \in Nat \ {0}, NEW f, \A i \in 1..n : f[i] \in 0..(B - 1), f[n] # 0
    PROVE  Power(B, n - 1) <= Val(B, f, n)
<1>1. /\ B \in Int /\ B \in Nat \ {0} /\ n - 1 \in Nat /\ n \in 1..n
      /\ \A i \in 1..n : f[i] \in Int
      /\ \A i \in 1..(n - 1) : f[i] \in 0..(B - 1)
  BY DEF Base
<1>2. Val(B, f, n) = Val(B, f, n - 1) + Power(B, n - 1) * f[n]
  BY <1>1, ValLast
<1>3. Val(B, f, n - 1) \in Nat
  BY <1>1, ValBound
<1>4. PICK p \in Nat : p = Power(B, n - 1)
  BY <1>1, PowerBase
<1>5. PICK d \in Nat \ {0} : d = f[n]
  BY <1>1
<1>6. p <= p * d /\ p * d \in Nat
  OBVIOUS
<1>7. QED
  BY <1>2, <1>3, <1>4, <1>5, <1>6

\* The highest digit that differs decides
LEMMA ValOrder ==
    ASSUME NEW B \in Base, NEW n \in Nat, NEW f, NEW g,
           \A i \in 1..n : f[i] \in 0..(B - 1) /\ g[i] \in 0..(B - 1),
           NEW k \in 1..n, f[k] < g[k], \A i \in (k + 1)..n : f[i] = g[i]
    PROVE  Val(B, f, n) < Val(B, g, n)
<1> DEFINE h == [i \in 1..(n - k) |-> f[k + i]]
<1>1. /\ B \in Int /\ B \in Nat \ {0} /\ k \in Nat \ {0} /\ k \in 0..n /\ n - k \in Nat /\ n = k + (n - k) /\ k - 1 \in Nat /\ k \in 1..k
      /\ \A i \in 1..n : f[i] \in Int /\ g[i] \in Int
      /\ \A i \in 1..k : i \in 1..n /\ f[i] \in Int /\ g[i] \in Int
      /\ \A i \in 1..(k - 1) : f[i] \in 0..(B - 1) /\ g[i] \in 0..(B - 1)
      /\ \A i \in 1..(n - k) : h[i] = f[k + i] /\ h[i] = g[k + i] /\ h[i] \in Int
  <2>1. B \in Int /\ B \in Nat \ {0} /\ k \in Nat \ {0} /\ k \in 0..n /\ n - k \in Nat /\ n = k + (n - k) /\ k - 1 \in Nat /\ k \in 1..k
    BY DEF Base
  <2>2. \A i \in 1..(n - k) : h[i] = f[k + i] /\ k + i \in (k + 1)..n /\ k + i \in 1..n
    BY <2>1
  <2>3. \A i \in 1..k : i \in 1..n
    BY <2>1
  <2>4. \A i \in 1..(k - 1) : i \in 1..n
    BY <2>1
  <2> HIDE DEF h
  <2>5. \A i \in 1..n : f[i] \in Int /\ g[i] \in Int
    BY <2>1
  <2>6. QED
    BY <2>1, <2>2, <2>3, <2>4, <2>5
<1> HIDE DEF h
<1>2. /\ Val(B, f, n) = Val(B, f, k) + Power(B, k) * Val(B, h, n - k)
      /\ Val(B, g, n) = Val(B, g, k) + Power(B, k) * Val(B, h, n - k)
  <2>1. B \in Int /\ n \in Nat /\ k \in Nat /\ n - k \in Nat /\ n = k + (n - k)
    BY <1>1
  <2>2. /\ \A i \in 1..n : f[i] \in Int
        /\ AreUpper(f, k, h, n - k)
    BY <1>1 DEF AreUpper
  <2>3. /\ \A i \in 1..n : g[i] \in Int
        /\ AreUpper(g, k, h, n - k)
    BY <1>1 DEF AreUpper
  <2>4. Val(B, f, n) = Val(B, f, k) + Power(B, k) * Val(B, h, n - k)
    BY <2>1, <2>2, ValSplit
  <2>5. Val(B, g, n) = Val(B, g, k) + Power(B, k) * Val(B, h, n - k)
    BY <2>1, <2>3, ValSplit
  <2>6. QED
    BY <2>4, <2>5
<1>3. /\ Val(B, f, k) = Val(B, f, k - 1) + Power(B, k - 1) * f[k]
      /\ Val(B, g, k) = Val(B, g, k - 1) + Power(B, k - 1) * g[k]
  BY <1>1, ValLast
<1>4. /\ Val(B, f, k - 1) \in Nat /\ Val(B, f, k - 1) < Power(B, k - 1)
      /\ Val(B, g, k - 1) \in Nat
  BY <1>1, ValBound
<1>5. PICK p \in Nat : p = Power(B, k - 1)
  BY <1>1, PowerBase
<1>6. PICK x \in Int, y \in Int : x = f[k] /\ y = g[k] /\ x + 1 <= y
  BY <1>1
<1>7. p * (x + 1) <= p * y /\ p * (x + 1) = p * x + p /\ p * x \in Int /\ p * y \in Int
  BY <1>6
<1>8. Val(B, f, k) < Val(B, g, k)
  BY <1>3, <1>4, <1>5, <1>6, <1>7
<1>9. Power(B, k) * Val(B, h, n - k) \in Int
  <2>1. Power(B, k) \in Int
    BY <1>1, PowerInt
  <2>2. Val(B, h, n - k) \in Int
    BY <1>1, ValInt
  <2>3. QED
    BY <2>1, <2>2
<1>10. Val(B, f, k) \in Int /\ Val(B, g, k) \in Int
  BY <1>1, ValInt
<1>11. QED
  BY <1>2, <1>8, <1>9, <1>10

-----------------------------------------------------------------------------
(* Carries.                                                                *)

\* A quotient and its remainder
LEMMA DivMod ==
    ASSUME NEW B \in Nat \ {0}, NEW x \in Int
    PROVE  /\ x \div B \in Int /\ x % B \in 0..(B - 1)
           /\ x = B * (x \div B) + (x % B)
           /\ x \in Nat => x \div B \in Nat
<1>1. x \div B \in Int
  OBVIOUS
<1>2. x % B \in 0..(B - 1)
  OBVIOUS
<1>3. x = B * (x \div B) + (x % B)
  OBVIOUS
<1>4. x \in Nat => x \div B \in Nat
  OBVIOUS
<1>5. QED
  BY <1>1, <1>2, <1>3, <1>4

\* There is no other
LEMMA DivModUnique ==
    ASSUME NEW B \in Nat \ {0}, NEW q \in Int, NEW r \in 0..(B - 1), NEW x \in Int, x = B * q + r
    PROVE  x \div B = q /\ x % B = r
<1>1. PICK p \in Int, s \in 0..(B - 1) : p = x \div B /\ s = x % B /\ x = B * p + s
  BY DivMod
<1>2. B * q + r = B * p + s
  BY <1>1
<1>3. ~(p < q)
  <2>1. SUFFICES ASSUME p + 1 <= q PROVE FALSE
    OBVIOUS
  <2>2. B * (p + 1) <= B * q /\ B * (p + 1) = B * p + B
    BY <2>1
  <2>3. QED
    BY <1>1, <1>2, <2>2
<1>4. ~(q < p)
  <2>1. SUFFICES ASSUME q + 1 <= p PROVE FALSE
    OBVIOUS
  <2>2. B * (q + 1) <= B * p /\ B * (q + 1) = B * q + B
    BY <2>1
  <2>3. QED
    BY <1>1, <1>2, <2>2
<1>5. p = q
  BY <1>3, <1>4
<1>6. r = s
  BY <1>2, <1>5
<1>7. QED
  BY <1>1, <1>5, <1>6

\* A quotient of what is less than a multiple
LEMMA DivLess ==
    ASSUME NEW B \in Nat \ {0}, NEW x \in Nat, NEW y \in Nat, x < B * y
    PROVE  x \div B \in Nat /\ x \div B < y
<1>1. PICK q \in Nat, r \in 0..(B - 1) : q = x \div B /\ r = x % B /\ x = B * q + r
  BY DivMod
<1>2. ~(y <= q)
  <2>1. SUFFICES ASSUME y <= q PROVE FALSE
    OBVIOUS
  <2>2. B * y <= B * q
    BY <2>1
  <2>3. QED
    BY <1>1, <2>2
<1>3. QED
  BY <1>1, <1>2

\* What a column may hold: a digit and a product of digits
Column(B) == 0..((B - 1) * B)

Columnar(B, s, n) == \A i \in 1..n : s[i] \in Column(B)
Digital(B, s, n)  == \A i \in 1..n : s[i] \in 0..(B - 1)

\* The carries of n columns
Carries(B, s, n, carry0) ==
    CHOOSE carry : carry = [i \in 1..(n + 1) |->
        IF i = 1 THEN carry0 ELSE (s[i - 1] + carry[i - 1]) \div B]

Settled(B, s, n, carry0) == [i \in 1..n |-> (s[i] + Carries(B, s, n, carry0)[i]) % B]

\* The sum of a column and a carry
LEMMA CarryOne ==
    ASSUME NEW B \in Base, NEW s \in Column(B), NEW c \in 0..(B - 1)
    PROVE  /\ (s + c) \div B \in 0..(B - 1)
           /\ (s + c) % B \in 0..(B - 1)
           /\ ((s + c) % B) + B * ((s + c) \div B) = s + c
           /\ s + c \in Nat /\ s \in Nat
<1>1. B \in Nat \ {0} /\ B \in Int
  BY DEF Base
<1>2. PICK t \in Int : t = (B - 1) * B
  BY <1>1
<1>3. s \in Int /\ 0 <= s /\ s <= t
  BY <1>2 DEF Column
<1>4. B * B = t + B
  BY <1>1, <1>2
<1>5. s + c \in Nat /\ s + c < B * B
  BY <1>1, <1>3, <1>4
<1>6. PICK x \in Nat : x = s + c
  BY <1>5
<1>7. x \div B \in Nat /\ x \div B < B
  BY <1>1, <1>5, <1>6, DivLess
<1>8. x % B \in 0..(B - 1) /\ x = B * (x \div B) + (x % B)
  BY <1>1, DivMod
<1>9. B * (x \div B) \in Int
  BY <1>1, <1>7
<1>10. QED
  BY <1>1, <1>3, <1>6, <1>7, <1>8, <1>9

\* The carries begin with the first one, and each is what is left of its column
LEMMA CarriesAre ==
    ASSUME NEW B \in Base, NEW n \in Nat, NEW s, Columnar(B, s, n), NEW carry0 \in 0..(B - 1)
    PROVE  /\ Carries(B, s, n, carry0) \in [1..(n + 1) -> 0..(B - 1)]
           /\ Carries(B, s, n, carry0)[1] = carry0
           /\ \A i \in 1..n : Carries(B, s, n, carry0)[i + 1] = (s[i] + Carries(B, s, n, carry0)[i]) \div B
<1> DEFINE Y == 0..(B - 1)
           step == [i \in 1..n |-> [x \in Y |-> (s[i] + x) \div B]]
           carry == Carries(B, s, n, carry0)
<1>1. step \in [1..n -> [Y -> Y]] /\ \A i \in 1..n, x \in Y : step[i][x] = (s[i] + x) \div B
  <2>1. \A i \in 1..n, x \in Y : (s[i] + x) \div B \in Y
    BY CarryOne DEF Columnar
  <2> HIDE DEF Y
  <2>2. QED
    BY <2>1
<1> HIDE DEF step
<1>2. PICK f \in [0..n -> Y] : f[0] = carry0 /\ \A i \in 1..n : f[i] = step[i][f[i - 1]]
  <2>1. Rising(n, Y, carry0, step) # {}
    BY <1>1, RecursionUp
  <2>2. QED
    BY <2>1 DEF Rising
<1> HIDE DEF Y
<1> DEFINE g == [i \in 1..(n + 1) |-> f[i - 1]]
<1>3. /\ \A i \in 1..(n + 1) : i - 1 \in 0..n
      /\ \A i \in 1..(n + 1) : i # 1 => i - 1 \in 1..n /\ i - 1 \in 1..(n + 1)
      /\ 1 - 1 = 0 /\ 1 \in 1..(n + 1)
      /\ \A i \in 1..n : i + 1 \in 1..(n + 1) /\ i + 1 # 1 /\ i + 1 - 1 = i
  OBVIOUS
<1>4. g \in [1..(n + 1) -> Y] /\ g[1] = carry0
  BY <1>2, <1>3
<1>5. ASSUME NEW i \in 1..(n + 1), i # 1
      PROVE  g[i] = (s[i - 1] + g[i - 1]) \div B
  <2>1. g[i] = f[i - 1] /\ g[i - 1] = f[i - 1 - 1]
    BY <1>3, <1>5
  <2>2. f[i - 1] = step[i - 1][f[i - 1 - 1]] /\ f[i - 1 - 1] \in Y
    <3>1. i - 1 \in 1..n /\ i - 1 - 1 \in 0..n
      BY <1>5
    <3>2. QED
      BY <1>2, <3>1
  <2>3. i - 1 \in 1..n
    BY <1>3, <1>5
  <2>4. QED
    BY <1>1, <2>1, <2>2, <2>3
<1> HIDE DEF g
<1> DEFINE h == [i \in 1..(n + 1) |-> IF i = 1 THEN carry0 ELSE (s[i - 1] + g[i - 1]) \div B]
<1>6. g = h
  <2>1. \A i \in 1..(n + 1) : g[i] = h[i]
    BY <1>4, <1>5
  <2>2. g = [i \in 1..(n + 1) |-> g[i]] /\ h = [i \in 1..(n + 1) |-> h[i]]
    BY <1>4
  <2> HIDE DEF h
  <2>3. QED
    BY <2>1, <2>2, Extensional
<1>7. carry = [i \in 1..(n + 1) |-> IF i = 1 THEN carry0 ELSE (s[i - 1] + carry[i - 1]) \div B]
  BY <1>6 DEF Carries
<1> HIDE DEF carry
<1>8. carry[1] = carry0 /\ \A i \in 1..n : carry[i + 1] = (s[i] + carry[i]) \div B
  BY <1>3, <1>7
<1> DEFINE S == { i \in 1..(n + 1) : carry[i] \in Y }
<1>9. 1..(n + 1) \subseteq S
  <2>1. 1 \in S /\ 1 \in Int /\ n + 1 \in Int /\ 1 <= n + 1
    BY <1>3, <1>8 DEF Y
  <2>2. ASSUME NEW i \in Int, 1 <= i, i < n + 1, i \in S
        PROVE  i + 1 \in S
    <3>1. i \in 1..n /\ i + 1 \in 1..(n + 1)
      BY <2>2
    <3>2. s[i] \in Column(B) /\ carry[i] \in 0..(B - 1)
      BY <2>2, <3>1 DEF Columnar, Y
    <3>3. (s[i] + carry[i]) \div B \in 0..(B - 1)
      BY <3>2, CarryOne
    <3>4. QED
      BY <1>8, <3>1, <3>3 DEF Y
  <2>3. \A i \in Int : 1 <= i /\ i < n + 1 /\ i \in S => i + 1 \in S
    BY <2>2
  <2> HIDE DEF S
  <2>4. QED
    BY <2>1, <2>3, Upwards
<1>10. carry \in [1..(n + 1) -> Y]
  BY <1>7, <1>9
<1>11. QED
  BY <1>8, <1>10 DEF carry, Y

\* The digits that the columns become have the same value, with the last carry
LEMMA SettledAre ==
    ASSUME NEW B \in Base, NEW n \in Nat, NEW s, Columnar(B, s, n), NEW carry0 \in 0..(B - 1)
    PROVE  /\ Settled(B, s, n, carry0) \in [1..n -> 0..(B - 1)]
           /\ Digital(B, Settled(B, s, n, carry0), n)
           /\ Carries(B, s, n, carry0)[n + 1] \in 0..(B - 1)
           /\ Val(B, Settled(B, s, n, carry0), n) + Power(B, n) * Carries(B, s, n, carry0)[n + 1]
                = Val(B, s, n) + carry0
<1> DEFINE c == Carries(B, s, n, carry0)
           d == Settled(B, s, n, carry0)
<1>1. /\ c \in [1..(n + 1) -> 0..(B - 1)] /\ c[1] = carry0
      /\ \A i \in 1..n : c[i + 1] = (s[i] + c[i]) \div B
  BY CarriesAre
<1>2. \A i \in 1..n : d[i] = (s[i] + c[i]) % B
  BY DEF Settled
<1>3. d = [i \in 1..n |-> d[i]]
  BY DEF Settled
<1> HIDE DEF c, d
<1>4. ASSUME NEW i \in 1..n
      PROVE  d[i] \in 0..(B - 1) /\ d[i] + B * c[i + 1] = s[i] + c[i] /\ s[i] \in Int
  <2>1. s[i] \in Column(B) /\ c[i] \in 0..(B - 1)
    <3>1. i \in 1..(n + 1)
      OBVIOUS
    <3>2. QED
      BY <1>1, <3>1 DEF Columnar
  <2>2. d[i] = (s[i] + c[i]) % B /\ c[i + 1] = (s[i] + c[i]) \div B
    BY <1>1, <1>2
  <2>3. /\ (s[i] + c[i]) % B \in 0..(B - 1)
        /\ ((s[i] + c[i]) % B) + B * ((s[i] + c[i]) \div B) = s[i] + c[i]
        /\ s[i] \in Nat
    BY <2>1, CarryOne
  <2>4. QED
    BY <2>2, <2>3
<1>5. d \in [1..n -> 0..(B - 1)] /\ Digital(B, d, n)
  BY <1>3, <1>4 DEF Digital
<1>6. c[n + 1] \in 0..(B - 1)
  BY <1>1
<1>7. Val(B, d, n) + Power(B, n) * c[n + 1] = Val(B, s, n) + c[1]
  <2>1. B \in Int
    BY DEF Base
  <2>2. \A i \in 1..n : s[i] \in Int /\ d[i] \in Int
    BY <1>4
  <2>3. \A i \in 1..(n + 1) : c[i] \in Int
    BY <1>1
  <2>4. AreMoved(B, s, d, c, n)
    BY <1>4 DEF AreMoved
  <2>5. QED
    BY <2>1, <2>2, <2>3, <2>4, ValCarry
<1>8. QED
  BY <1>1, <1>5, <1>6, <1>7 DEF c, d

\* What is borrowed for n columns
Borrowing(a, b, n) ==
    { c \in [1..(n + 1) -> 0..1] :
        /\ c[1] = 0
        /\ \A i \in 1..n : c[i + 1] = IF a[i] < b[i] + c[i] THEN 1 ELSE 0 }

\* There are borrows: what sub and sbb leave in the carry flag
LEMMA BorrowingExists ==
    ASSUME NEW n \in Nat, NEW a, NEW b
    PROVE  Borrowing(a, b, n) # {}
<1> DEFINE Y == 0..1
           step == [i \in 1..n |-> [x \in Y |-> IF a[i] < b[i] + x THEN 1 ELSE 0]]
<1>1. /\ step \in [1..n -> [Y -> Y]] /\ 0 \in Y
      /\ \A i \in 1..n, x \in Y : step[i][x] = IF a[i] < b[i] + x THEN 1 ELSE 0
  OBVIOUS
<1> HIDE DEF step
<1>2. PICK f \in [0..n -> Y] : f[0] = 0 /\ \A i \in 1..n : f[i] = step[i][f[i - 1]]
  <2>1. Rising(n, Y, 0, step) # {}
    BY <1>1, RecursionUp
  <2>2. QED
    BY <2>1 DEF Rising
<1> HIDE DEF Y
<1> DEFINE g == [i \in 1..(n + 1) |-> f[i - 1]]
<1>3. /\ \A i \in 1..(n + 1) : i - 1 \in 0..n
      /\ 1 - 1 = 0 /\ 1 \in 1..(n + 1)
      /\ \A i \in 1..n : i + 1 \in 1..(n + 1) /\ i \in 1..(n + 1) /\ i + 1 - 1 = i
  OBVIOUS
<1>4. g \in [1..(n + 1) -> Y] /\ g[1] = 0
  BY <1>2, <1>3
<1>5. ASSUME NEW i \in 1..n
      PROVE  g[i + 1] = IF a[i] < b[i] + g[i] THEN 1 ELSE 0
  <2>1. g[i + 1] = f[i] /\ g[i] = f[i - 1] /\ f[i - 1] \in Y
    BY <1>3
  <2>2. f[i] = step[i][f[i - 1]]
    BY <1>2
  <2>3. QED
    BY <1>1, <2>1, <2>2
<1> HIDE DEF g
<1>6. g \in Borrowing(a, b, n)
  BY <1>4, <1>5 DEF Borrowing, Y
<1>7. QED
  BY <1>6

\* The digits that are left of a when b is taken from it
LEMMA BorrowedVal ==
    ASSUME NEW B \in Base, NEW n \in Nat, NEW a, NEW b, Digital(B, a, n), Digital(B, b, n),
           NEW c \in Borrowing(a, b, n),
           NEW d, \A i \in 1..n : d[i] = (a[i] - b[i] - c[i]) % B
    PROVE  /\ Digital(B, d, n) /\ c[n + 1] \in 0..1
           /\ Val(B, d, n) = Val(B, a, n) - Val(B, b, n) + Power(B, n) * c[n + 1]
<1> DEFINE f == [i \in 1..n |-> a[i] - b[i]]
           m == [i \in 1..(n + 1) |-> -c[i]]
<1>1. B \in Int /\ B \in Nat \ {0}
  BY DEF Base
<1>2. /\ c \in [1..(n + 1) -> 0..1] /\ c[1] = 0
      /\ \A i \in 1..n : c[i + 1] = IF a[i] < b[i] + c[i] THEN 1 ELSE 0
  BY DEF Borrowing
<1>3. ASSUME NEW i \in 1..n
      PROVE  /\ a[i] \in 0..(B - 1) /\ b[i] \in 0..(B - 1) /\ d[i] \in 0..(B - 1)
             /\ d[i] - B * c[i + 1] = a[i] - b[i] - c[i]
  <2>1. /\ i \in 1..(n + 1) /\ i + 1 \in 1..(n + 1)
        /\ a[i] \in 0..(B - 1) /\ b[i] \in 0..(B - 1) /\ c[i] \in 0..1
    <3>1. i \in 1..(n + 1) /\ i + 1 \in 1..(n + 1)
      OBVIOUS
    <3>2. QED
      BY <1>2, <3>1 DEF Digital
  <2>2. PICK x \in Int : x = a[i] - b[i] - c[i]
    BY <2>1
  <2>3. d[i] = x % B
    BY <2>2
  <2>4. CASE a[i] < b[i] + c[i]
    <3>1. x + B \in 0..(B - 1) /\ x = B * (-1) + (x + B)
      BY <1>1, <2>1, <2>2, <2>4
    <3>2. d[i] = x + B
      <4>1. PICK r \in 0..(B - 1), q \in Int : r = x + B /\ q = -1
        BY <3>1
      <4>2. x = B * q + r
        BY <1>1, <4>1
      <4>3. x % B = r
        BY <1>1, <4>2, DivModUnique
      <4>4. QED
        BY <2>3, <4>1, <4>3
    <3>3. c[i + 1] = 1
      BY <1>2, <2>4
    <3>4. QED
      BY <1>1, <2>1, <2>2, <3>1, <3>2, <3>3
  <2>5. CASE ~(a[i] < b[i] + c[i])
    <3>1. x \in 0..(B - 1) /\ x = B * 0 + x
      BY <1>1, <2>1, <2>2, <2>5
    <3>2. d[i] = x
      BY <1>1, <2>3, <3>1, DivModUnique
    <3>3. c[i + 1] = 0
      BY <1>2, <2>5
    <3>4. QED
      BY <1>1, <2>1, <2>2, <3>1, <3>2, <3>3
  <2>6. QED
    BY <2>4, <2>5
<1>4. Digital(B, d, n)
  BY <1>3 DEF Digital
<1>5. /\ \A i \in 1..n : f[i] = a[i] - b[i] /\ f[i] \in Int /\ d[i] \in Int
      /\ \A i \in 1..(n + 1) : m[i] = -c[i] /\ m[i] \in Int
      /\ 1 \in 1..(n + 1) /\ n + 1 \in 1..(n + 1) /\ \A i \in 1..n : i \in 1..(n + 1) /\ i + 1 \in 1..(n + 1)
  <2>1. /\ \A i \in 1..n : f[i] = a[i] - b[i]
        /\ \A i \in 1..(n + 1) : m[i] = -c[i]
        /\ 1 \in 1..(n + 1) /\ n + 1 \in 1..(n + 1) /\ \A i \in 1..n : i \in 1..(n + 1) /\ i + 1 \in 1..(n + 1)
    OBVIOUS
  <2> HIDE DEF f, m
  <2>2. \A i \in 1..n : f[i] \in Int /\ d[i] \in Int
    BY <1>3, <2>1
  <2>3. \A i \in 1..(n + 1) : m[i] \in Int
    BY <1>2, <2>1
  <2>4. QED
    BY <2>1, <2>2, <2>3
<1> HIDE DEF f, m
<1>6. AreMoved(B, f, d, m, n)
  <2>1. ASSUME NEW i \in 1..n
        PROVE  d[i] + B * m[i + 1] = f[i] + m[i]
    <3>1. /\ m[i + 1] = -c[i + 1] /\ m[i] = -c[i] /\ f[i] = a[i] - b[i]
          /\ c[i] \in 0..1 /\ c[i + 1] \in 0..1
      BY <1>2, <1>5
    <3>2. PICK C \in Int : C = c[i + 1]
      BY <3>1
    <3>3. B * (-C) = -(B * C) /\ B * C \in Int
      BY <1>1
    <3>4. QED
      BY <1>3, <3>1, <3>2, <3>3
  <2>2. QED
    BY <2>1 DEF AreMoved
<1>7. Val(B, d, n) + Power(B, n) * m[n + 1] = Val(B, f, n) + m[1]
  BY <1>1, <1>5, <1>6, ValCarry
<1>8. Val(B, f, n) = 1 * Val(B, a, n) + (-1) * Val(B, b, n)
  <2>1. \A i \in 1..n : a[i] \in Int /\ b[i] \in Int
    BY <1>3
  <2>2. AreCombined(f, 1, a, -1, b, n)
    BY <1>5, <2>1 DEF AreCombined
  <2>3. 1 \in Int /\ -1 \in Int
    OBVIOUS
  <2>4. QED
    BY <1>1, <2>1, <2>2, <2>3, ValLinear
<1>9. Val(B, a, n) \in Int /\ Val(B, b, n) \in Int /\ Val(B, d, n) \in Int /\ Power(B, n) \in Int
  <2>1. (\A i \in 1..n : a[i] \in Int) /\ (\A i \in 1..n : b[i] \in Int) /\ (\A i \in 1..n : d[i] \in Int)
    BY <1>3
  <2>2. QED
    BY <1>1, <2>1, ValInt, PowerInt
<1>10. c[n + 1] \in 0..1 /\ m[n + 1] = -c[n + 1] /\ m[1] = 0
  BY <1>2, <1>5
<1>11. PICK p \in Int, C \in Int : p = Power(B, n) /\ C = c[n + 1]
  BY <1>9, <1>10
<1>12. p * (-C) = -(p * C) /\ p * C \in Int
  OBVIOUS
<1>13. QED
  BY <1>4, <1>7, <1>8, <1>9, <1>10, <1>11, <1>12

\* What is left over, from the last column down, of a quotient by d
Dividing(B, a, n, d) ==
    { r \in [1..(n + 1) -> 0..(d - 1)] :
        r[n + 1] = 0 /\ \A i \in 1..n : r[i] = (a[i] + r[i + 1] * B) % d }

\* There are remainders, from the highest digit down
LEMMA DividingExists ==
    ASSUME NEW B \in Base, NEW n \in Nat, NEW a, Digital(B, a, n), NEW d \in Nat \ {0}
    PROVE  Dividing(B, a, n, d) # {}
<1> DEFINE Y == 0..(d - 1)
           step == [i \in 1..n |-> [x \in Y |-> (a[i] + x * B) % d]]
<1>1. /\ step \in [1..n -> [Y -> Y]] /\ 0 \in Y
      /\ \A i \in 1..n, x \in Y : step[i][x] = (a[i] + x * B) % d
  <2>1. ASSUME NEW i \in 1..n, NEW x \in Y
        PROVE  (a[i] + x * B) % d \in Y
    <3>1. PICK z \in Int : z = a[i] + x * B
      BY DEF Digital, Base
    <3>2. z % d \in 0..(d - 1)
      BY DivMod
    <3>3. QED
      BY <3>1, <3>2
  <2>2. 0 \in Y
    OBVIOUS
  <2> HIDE DEF Y
  <2>3. QED
    BY <2>1, <2>2
<1> HIDE DEF step
<1>2. PICK f \in [1..(n + 1) -> Y] : f[n + 1] = 0 /\ \A i \in 1..n : f[i] = step[i][f[i + 1]]
  <2>1. Falling(n, Y, 0, step) # {}
    BY <1>1, RecursionDown
  <2>2. QED
    BY <2>1 DEF Falling
<1> HIDE DEF Y
<1>3. \A i \in 1..n : f[i] = (a[i] + f[i + 1] * B) % d
  <2>1. \A i \in 1..n : i + 1 \in 1..(n + 1)
    OBVIOUS
  <2>2. QED
    BY <1>1, <1>2, <2>1
<1>4. f \in Dividing(B, a, n, d)
  BY <1>2, <1>3 DEF Dividing, Y
<1>5. QED
  BY <1>4

\* The quotients by d of the digits and what is left from those above
AreQuotients(B, q, a, r, n, d) == \A i \in 1..n : q[i] = (a[i] + r[i + 1] * B) \div d

\* The digits of the quotient, and the remainder
LEMMA DividedVal ==
    ASSUME NEW B \in Base, NEW n \in Nat, NEW a, Digital(B, a, n), NEW d \in Nat \ {0},
           NEW r \in Dividing(B, a, n, d),
           NEW q, AreQuotients(B, q, a, r, n, d)
    PROVE  /\ Digital(B, q, n) /\ r[1] \in 0..(d - 1)
           /\ Val(B, a, n) = d * Val(B, q, n) + r[1]
<1> DEFINE f == [i \in 1..n |-> d * q[i]]
<1>1. B \in Int /\ B \in Nat \ {0}
  BY DEF Base
<1>2. /\ r \in [1..(n + 1) -> 0..(d - 1)] /\ r[n + 1] = 0
      /\ \A i \in 1..n : r[i] = (a[i] + r[i + 1] * B) % d
  BY DEF Dividing
<1>3. ASSUME NEW i \in 1..n
      PROVE  /\ a[i] \in 0..(B - 1) /\ q[i] \in 0..(B - 1)
             /\ a[i] + B * r[i + 1] = d * q[i] + r[i]
  <2>1. i + 1 \in 1..(n + 1) /\ a[i] \in 0..(B - 1)
    BY DEF Digital
  <2>2. PICK x \in 0..(B - 1), y \in 0..(d - 1) : x = a[i] /\ y = r[i + 1]
    BY <1>2, <2>1
  <2>3. x + y * B \in Nat /\ y * B = B * y /\ B * y \in Int
    BY <1>1
  <2>4. B * y <= B * (d - 1) /\ B * (d - 1) = B * d - B /\ B * d = d * B /\ d * B \in Int
    BY <1>1
  <2>5. PICK z \in Nat : z = x + y * B
    BY <2>3
  <2>6. z < d * B
    BY <1>1, <2>3, <2>4, <2>5
  <2>7. PICK k \in Int, w \in Int : k = z \div d /\ w = z % d /\ z = d * k + w
    <3>1. z \in Int
      OBVIOUS
    <3>2. /\ z \div d \in Int /\ z % d \in 0..(d - 1)
          /\ z = d * (z \div d) + (z % d)
      BY <3>1, DivMod
    <3>3. QED
      BY <3>2
  <2>8. k \in Nat /\ k < B
    <3>1. B \in Nat
      BY <1>1
    <3>2. QED
      BY <2>6, <2>7, <3>1, DivLess
  <2>9. q[i] = k /\ r[i] = w
    BY <1>2, <2>2, <2>5, <2>7 DEF AreQuotients
  <2>10. x + B * y = d * k + w
    BY <2>3, <2>5, <2>7
  <2>11. QED
    BY <1>1, <2>2, <2>8, <2>9, <2>10
<1>4. Digital(B, q, n)
  BY <1>3 DEF Digital
<1>5. \A i \in 1..n : f[i] = d * q[i] /\ f[i] \in Int /\ q[i] \in Int /\ a[i] \in Int
  <2>1. \A i \in 1..n : f[i] = d * q[i]
    OBVIOUS
  <2> HIDE DEF f
  <2>2. QED
    BY <1>3, <2>1
<1> HIDE DEF f
<1>6. AreMoved(B, f, a, r, n)
  BY <1>3, <1>5 DEF AreMoved
<1>7. \A i \in 1..(n + 1) : r[i] \in Int
  BY <1>2
<1>8. Val(B, a, n) + Power(B, n) * r[n + 1] = Val(B, f, n) + r[1]
  BY <1>1, <1>5, <1>6, <1>7, ValCarry
<1>9. Val(B, f, n) = d * Val(B, q, n) + 0 * Val(B, q, n)
  <2>1. AreCombined(f, d, q, 0, q, n)
    BY <1>5 DEF AreCombined
  <2>2. d \in Int /\ 0 \in Int
    OBVIOUS
  <2>3. QED
    BY <1>1, <1>5, <2>1, <2>2, ValLinear
<1>10. Val(B, a, n) \in Int /\ Val(B, q, n) \in Int /\ Power(B, n) \in Int
  BY <1>1, <1>5, ValInt, PowerInt
<1>11. r[1] \in 0..(d - 1)
  BY <1>2
<1>12. QED
  BY <1>2, <1>4, <1>8, <1>9, <1>10, <1>11

-----------------------------------------------------------------------------
(* Products.                                                               *)

\* The k lower columns are the same
AreEqual(f, g, k) == \A i \in 1..k : f[i] = g[i]

\* The columns of f from the k-th on are zeros
AreZero(f, k, n) == \A i \in k..n : f[i] = 0

\* n columns u of f become the columns h of g, with zeros above them
LEMMA ValMiddle ==
    ASSUME NEW B \in Int, NEW k \in Nat, NEW n \in Nat, NEW N \in Nat, k + n <= N,
           NEW f, NEW g, NEW u, NEW h,
           \A i \in 1..N : f[i] \in Int /\ g[i] \in Int,
           AreEqual(f, g, k), AreUpper(f, k, u, n), AreUpper(g, k, h, n),
           AreZero(f, k + n + 1, N), AreZero(g, k + n + 1, N)
    PROVE  Val(B, g, N) = Val(B, f, N) + Power(B, k) * (Val(B, h, n) - Val(B, u, n))
<1>1. /\ \A i \in 1..N : f[i] \in Int
      /\ \A i \in 1..N : g[i] \in Int
      /\ \A i \in 1..(k + n) : f[i] \in Int
      /\ \A i \in 1..(k + n) : g[i] \in Int
      /\ \A i \in 1..k : f[i] \in Int /\ f[i] = g[i]
      /\ \A i \in 1..n : k + i \in 1..N
      /\ k + n \in 0..N /\ k + n \in Nat
  BY DEF AreEqual
<1>2. Val(B, f, N) = Val(B, f, k + n) /\ Val(B, g, N) = Val(B, g, k + n)
  <2>1. (\A i \in (k + n + 1)..N : f[i] = 0) /\ (\A i \in (k + n + 1)..N : g[i] = 0)
    BY DEF AreZero
  <2>2. QED
    BY <1>1, <2>1, ValPadded
<1>3. Val(B, f, k + n) = Val(B, f, k) + Power(B, k) * Val(B, u, n)
  BY <1>1, ValSplit
<1>4. Val(B, g, k + n) = Val(B, g, k) + Power(B, k) * Val(B, h, n)
  BY <1>1, ValSplit
<1>5. Val(B, f, k) = Val(B, g, k) /\ Val(B, f, k) \in Int
  BY <1>1, ValSame
<1>6. Val(B, u, n) \in Int /\ Val(B, h, n) \in Int /\ Power(B, k) \in Int
  <2>1. (\A i \in 1..n : u[i] \in Int) /\ (\A i \in 1..n : h[i] \in Int)
    BY <1>1 DEF AreUpper
  <2>2. QED
    BY <2>1, ValInt, PowerInt
<1>7. PICK p \in Int, U \in Int, H \in Int : p = Power(B, k) /\ U = Val(B, u, n) /\ H = Val(B, h, n)
  BY <1>6
<1>8. p * (H - U) = p * H - p * U /\ p * H \in Int /\ p * U \in Int
  OBVIOUS
<1>9. QED
  BY <1>2, <1>3, <1>4, <1>5, <1>7, <1>8

\* The columns of a row: digits and the products of a digit
LEMMA RowVal ==
    ASSUME NEW B \in Base, NEW n \in Nat, NEW u, NEW b, Digital(B, u, n), Digital(B, b, n),
           NEW x \in 0..(B - 1), NEW s, \A j \in 1..n : s[j] = u[j] + x * b[j]
    PROVE  Columnar(B, s, n) /\ Val(B, s, n) = Val(B, u, n) + x * Val(B, b, n)
<1>1. B \in Int /\ B \in Nat
  BY DEF Base
<1>2. ASSUME NEW j \in 1..n
      PROVE  s[j] \in Column(B) /\ u[j] \in Int /\ b[j] \in Int
  <2>1. PICK y \in 0..(B - 1), z \in 0..(B - 1) : y = u[j] /\ z = b[j]
    BY DEF Digital
  <2>2. 0 <= x * z /\ x * z <= x * (B - 1) /\ x * z \in Int
    BY <1>1
  <2>3. x * (B - 1) <= (B - 1) * (B - 1) /\ x * (B - 1) \in Int
    BY <1>1
  <2>4. (B - 1) * B = (B - 1) * (B - 1) + (B - 1) /\ (B - 1) * (B - 1) \in Int
    BY <1>1
  <2>5. y + x * z \in 0..((B - 1) * B)
    BY <1>1, <2>2, <2>3, <2>4
  <2>6. QED
    BY <2>1, <2>5 DEF Column
<1>3. Columnar(B, s, n)
  BY <1>2 DEF Columnar
<1>4. Val(B, s, n) = 1 * Val(B, u, n) + x * Val(B, b, n)
  <2>1. \A j \in 1..n : u[j] \in Int /\ b[j] \in Int
    BY <1>2
  <2>2. AreCombined(s, 1, u, x, b, n)
    BY <2>1 DEF AreCombined
  <2>3. 1 \in Int /\ x \in Int
    BY <1>1
  <2>4. QED
    BY <1>1, <2>1, <2>2, <2>3, ValLinear
<1>5. Val(B, u, n) \in Int
  BY <1>1, <1>2, ValInt
<1>6. QED
  BY <1>3, <1>4, <1>5

\* Sums of digits are columns
LEMMA SumVal ==
    ASSUME NEW B \in Base, NEW n \in Nat, NEW a, NEW b, Digital(B, a, n), Digital(B, b, n),
           NEW s, \A j \in 1..n : s[j] = a[j] + b[j]
    PROVE  Columnar(B, s, n) /\ Val(B, s, n) = Val(B, a, n) + Val(B, b, n)
<1>1. B \in Int /\ B \in Nat /\ 1 \in 0..(B - 1)
  BY DEF Base
<1>2. \A j \in 1..n : s[j] = a[j] + 1 * b[j]
  BY <1>1 DEF Digital
<1>3. Columnar(B, s, n) /\ Val(B, s, n) = Val(B, a, n) + 1 * Val(B, b, n)
  BY <1>1, <1>2, RowVal
<1>4. Val(B, b, n) \in Nat
  BY ValBound DEF Digital
<1>5. QED
  BY <1>3, <1>4

\* Multiples of digits are columns
LEMMA MultipleVal ==
    ASSUME NEW B \in Base, NEW n \in Nat, NEW a, Digital(B, a, n), NEW x \in 0..(B - 1),
           NEW s, \A j \in 1..n : s[j] = a[j] * x
    PROVE  Columnar(B, s, n) /\ Val(B, s, n) = Val(B, a, n) * x
<1> DEFINE z == [j \in 1..n |-> 0]
<1>1. B \in Int /\ B \in Nat /\ \A j \in 1..n : z[j] = 0
  BY DEF Base
<1> HIDE DEF z
<1>2. Digital(B, z, n)
  BY <1>1 DEF Digital, Base
<1>3. \A j \in 1..n : s[j] = z[j] + x * a[j]
  <2>1. ASSUME NEW j \in 1..n
        PROVE  s[j] = z[j] + x * a[j]
    <3>1. PICK y \in Int : y = a[j]
      BY DEF Digital
    <3>2. s[j] = y * x /\ z[j] = 0 /\ y * x = x * y
      BY <1>1, <3>1
    <3>3. QED
      BY <3>1, <3>2
  <2>2. QED
    BY <2>1
<1>4. Columnar(B, s, n) /\ Val(B, s, n) = Val(B, z, n) + x * Val(B, a, n)
  BY <1>2, <1>3, RowVal
<1>5. Val(B, z, n) = 0
  BY <1>1, ValZero
<1>6. PICK v \in Int : v = Val(B, a, n)
  BY ValBound DEF Digital
<1>7. 0 + x * v = v * x
  BY <1>1
<1>8. QED
  BY <1>4, <1>5, <1>6, <1>7

\* Digits are columns, too
LEMMA DigitsAreColumns ==
    ASSUME NEW B \in Base, NEW n \in Nat, NEW a, Digital(B, a, n)
    PROVE  Columnar(B, a, n) /\ Val(B, a, n) \in Nat /\ Val(B, a, n) < Power(B, n)
<1>1. B - 1 <= (B - 1) * B /\ (B - 1) * B \in Int
  BY DEF Base
<1>2. 0..(B - 1) \subseteq Column(B)
  BY <1>1 DEF Column, Base
<1>3. Columnar(B, a, n)
  BY <1>2 DEF Columnar, Digital
<1>4. QED
  BY <1>3, ValBound DEF Digital

-----------------------------------------------------------------------------
(* Sequences as functions.                                                 *)

\* A function on 1..n is a sequence
LEMMA SequenceIs ==
    ASSUME NEW S, NEW n \in Nat, NEW f \in [1..n -> S]
    PROVE  f \in Seq(S) /\ Len(f) = n /\ DOMAIN f = 1..n
OBVIOUS

\* And a sequence is a function
LEMMA SequenceOf ==
    ASSUME NEW S, NEW s \in Seq(S)
    PROVE  Len(s) \in Nat /\ s \in [1..Len(s) -> S] /\ DOMAIN s = 1..Len(s)
OBVIOUS

\* Two sequences with the same elements
LEMMA SequenceSame ==
    ASSUME NEW S, NEW s \in Seq(S), NEW t \in Seq(S), Len(s) = Len(t),
           \A i \in 1..Len(s) : s[i] = t[i]
    PROVE  s = t
OBVIOUS

\* The last element after the others
LEMMA FrontAndLast ==
    ASSUME NEW S, NEW n \in Nat, NEW f \in [1..n -> S], NEW e \in S
    PROVE  Front(f \o <<e>>) = f /\ Last(f \o <<e>>) = e
<1>1. f \in Seq(S) /\ Len(f) = n /\ <<e>> \in Seq(S) /\ Len(<<e>>) = 1 /\ <<e>>[1] = e
  OBVIOUS
<1> DEFINE s == f \o <<e>>
<1>2. s \in Seq(S) /\ Len(s) = n + 1 /\ s[n + 1] = e /\ \A i \in 1..n : s[i] = f[i]
  BY <1>1
<1> HIDE DEF s
<1>3. Last(s) = e
  BY <1>2 DEF Last
<1>4. Front(s) = f
  <2>1. Front(s) = SubSeq(s, 1, n)
    BY <1>2 DEF Front
  <2>2. SubSeq(s, 1, n) \in Seq(S) /\ Len(SubSeq(s, 1, n)) = n /\ \A i \in 1..n : SubSeq(s, 1, n)[i] = s[i]
    BY <1>2
  <2>3. \A i \in 1..n : SubSeq(s, 1, n)[i] = f[i]
    BY <1>2, <2>2
  <2>4. QED
    BY <1>1, <2>1, <2>2, <2>3, SequenceSame
<1>5. QED
  BY <1>3, <1>4 DEF s

-----------------------------------------------------------------------------
(* Long numbers of the assembler.                                          *)

LongNumber == [1..Limbs -> Limb]

\* The assembler's base and its sizes
LEMMA LongBase ==
    /\ LimbBase \in Base /\ LimbBase \in Nat \ {0} /\ Limbs \in Nat \ {0}
    /\ Decimal \in Limb /\ Decimal \in Base /\ 0 \in Limb /\ LimbText \in Nat \ {0}
    /\ Modulus \in Nat \ {0} /\ Modulus = Power(LimbBase, Limbs)
<1>1. LimbBase \in Base /\ LimbBase \in Nat \ {0} /\ Limbs \in Nat \ {0} /\ LimbText \in Nat \ {0}
  BY LongAssumption DEF Base
<1>2. Decimal \in Limb /\ Decimal \in Base /\ 0 \in Limb
  BY <1>1, LongAssumption DEF Limb, Base
<1>3. Power(LimbBase, Limbs) \in Nat \ {0}
  BY <1>1, PowerBase
<1>4. QED
  BY <1>1, <1>2, <1>3 DEF Modulus

\* A long number is its digits
LEMMA LongDigits ==
    ASSUME NEW a \in LongNumber
    PROVE  /\ a \in Seq(Limb) /\ Len(a) = Limbs /\ DOMAIN a = 1..Limbs
           /\ Digital(LimbBase, a, Limbs)
<1>1. Limbs \in Nat
  BY LongBase
<1>2. a \in [1..Limbs -> Limb]
  BY DEF LongNumber
<1>3. a \in Seq(Limb) /\ Len(a) = Limbs /\ DOMAIN a = 1..Limbs
  BY <1>1, <1>2, SequenceIs
<1>4. Digital(LimbBase, a, Limbs)
  BY <1>2 DEF Digital, Limb
<1>5. QED
  BY <1>3, <1>4

\* What a long number stands for is the value of its digits
LEMMA LongValueIs ==
    ASSUME NEW a, Len(a) = Limbs
    PROVE  LongValue(a) = Val(LimbBase, a, Limbs)
BY DEF LongValue, Val, Tails

\* add/adc and mul: the digits and the carry
LEMMA AdcChainIs ==
    ASSUME NEW n \in Nat, NEW s, DOMAIN s = 1..n, Len(s) = n, Columnar(LimbBase, s, n), NEW carry0 \in Limb
    PROVE  Front(AdcChain(s, carry0)) = Settled(LimbBase, s, n, carry0)
<1> DEFINE c == Carries(LimbBase, s, n, carry0)
           d == Settled(LimbBase, s, n, carry0)
<1>1. /\ d \in [1..n -> Limb] /\ c[n + 1] \in Limb
  BY LongBase, SettledAre DEF Limb
<1>2. AdcChain(s, carry0) = d \o <<c[n + 1]>>
  BY DEF AdcChain, Carries, Settled
<1> HIDE DEF c, d
<1>3. Front(d \o <<c[n + 1]>>) = d
  BY <1>1, FrontAndLast
<1>4. QED
  BY <1>2, <1>3 DEF d

\* What is left of a number of the width
LEMMA LongWraps ==
    ASSUME NEW n \in Nat, NEW s, DOMAIN s = 1..n, Len(s) = n, Columnar(LimbBase, s, n), NEW carry0 \in Limb,
           n = Limbs
    PROVE  /\ Front(AdcChain(s, carry0)) \in LongNumber
           /\ LongValue(Front(AdcChain(s, carry0))) = (Val(LimbBase, s, n) + carry0) % Modulus
<1> DEFINE c == Carries(LimbBase, s, n, carry0)
           d == Settled(LimbBase, s, n, carry0)
<1>1. Front(AdcChain(s, carry0)) = d
  BY AdcChainIs
<1>2. /\ d \in [1..n -> Limb] /\ Digital(LimbBase, d, n) /\ c[n + 1] \in Limb
      /\ Val(LimbBase, d, n) + Power(LimbBase, n) * c[n + 1] = Val(LimbBase, s, n) + carry0
  BY LongBase, SettledAre DEF Limb
<1> HIDE DEF c, d
<1>3. d \in LongNumber /\ Len(d) = Limbs
  BY <1>2, LongDigits DEF LongNumber
<1>4. LongValue(d) = Val(LimbBase, d, n)
  BY <1>3, LongValueIs
<1>5. Val(LimbBase, d, n) \in Nat /\ Val(LimbBase, d, n) < Modulus
  BY <1>2, LongBase, DigitsAreColumns
<1>6. PICK v \in 0..(Modulus - 1), q \in Int, x \in Int :
        v = Val(LimbBase, d, n) /\ q = c[n + 1] /\ x = Val(LimbBase, s, n) + carry0 /\ x = Modulus * q + v
  <2>1. c[n + 1] \in Int /\ Modulus \in Nat
    BY <1>2, LongBase DEF Limb
  <2>2. Modulus * c[n + 1] \in Int
    BY <2>1
  <2>3. Val(LimbBase, s, n) + carry0 = Modulus * c[n + 1] + Val(LimbBase, d, n)
    BY <1>2, <1>5, <2>2, LongBase
  <2>4. Modulus * c[n + 1] + Val(LimbBase, d, n) \in Int
    BY <1>5, <2>2
  <2>5. QED
    BY <1>5, <2>1, <2>3, <2>4
<1>7. x % Modulus = v
  <2>1. Modulus \in Nat \ {0}
    BY LongBase
  <2>2. x = Modulus * q + v
    BY <1>6
  <2>3. QED
    BY <2>1, <2>2, DivModUnique
<1>8. QED
  BY <1>1, <1>3, <1>4, <1>6, <1>7

\* add_long_long
LEMMA LongPlusIs ==
    ASSUME NEW a \in LongNumber, NEW b \in LongNumber
    PROVE  /\ LongPlus(a, b) \in LongNumber
           /\ LongValue(LongPlus(a, b)) = (LongValue(a) + LongValue(b)) % Modulus
<1> DEFINE s == [i \in DOMAIN a |-> a[i] + b[i]]
<1>1. Digital(LimbBase, a, Limbs) /\ Digital(LimbBase, b, Limbs) /\ DOMAIN a = 1..Limbs /\ Limbs \in Nat
  BY LongDigits, LongBase
<1>2. DOMAIN s = 1..Limbs /\ Len(s) = Limbs /\ \A j \in 1..Limbs : s[j] = a[j] + b[j]
  BY <1>1
<1>3. LongPlus(a, b) = Front(AdcChain(s, 0))
  BY DEF LongPlus
<1> HIDE DEF s
<1>4. Columnar(LimbBase, s, Limbs) /\ Val(LimbBase, s, Limbs) = Val(LimbBase, a, Limbs) + Val(LimbBase, b, Limbs)
  BY <1>1, <1>2, LongBase, SumVal
<1>5. /\ LongPlus(a, b) \in LongNumber
      /\ LongValue(LongPlus(a, b)) = (Val(LimbBase, s, Limbs) + 0) % Modulus
  BY <1>1, <1>2, <1>3, <1>4, LongBase, LongWraps
<1>6. LongValue(a) = Val(LimbBase, a, Limbs) /\ LongValue(b) = Val(LimbBase, b, Limbs)
  BY LongDigits, LongValueIs
<1>7. Val(LimbBase, a, Limbs) + Val(LimbBase, b, Limbs) + 0 = Val(LimbBase, a, Limbs) + Val(LimbBase, b, Limbs)
  BY <1>1, LongBase, DigitsAreColumns
<1>8. QED
  BY <1>4, <1>5, <1>6, <1>7

\* add_long_short
LEMMA LongPlusShortIs ==
    ASSUME NEW a \in LongNumber, NEW d \in Limb
    PROVE  /\ LongPlusShort(a, d) \in LongNumber
           /\ LongValue(LongPlusShort(a, d)) = (LongValue(a) + d) % Modulus
<1>1. Digital(LimbBase, a, Limbs) /\ DOMAIN a = 1..Limbs /\ Len(a) = Limbs /\ Limbs \in Nat
  BY LongDigits, LongBase
<1>2. Columnar(LimbBase, a, Limbs)
  BY <1>1, LongBase, DigitsAreColumns
<1>3. /\ LongPlusShort(a, d) \in LongNumber
      /\ LongValue(LongPlusShort(a, d)) = (Val(LimbBase, a, Limbs) + d) % Modulus
  BY <1>1, <1>2, LongWraps DEF LongPlusShort
<1>4. QED
  BY <1>1, <1>3, LongValueIs

\* mul_long_short
LEMMA LongTimesShortIs ==
    ASSUME NEW a \in LongNumber, NEW d \in Limb
    PROVE  /\ LongTimesShort(a, d) \in LongNumber
           /\ LongValue(LongTimesShort(a, d)) = (LongValue(a) * d) % Modulus
<1> DEFINE s == [i \in DOMAIN a |-> a[i] * d]
<1>1. Digital(LimbBase, a, Limbs) /\ DOMAIN a = 1..Limbs /\ Len(a) = Limbs /\ Limbs \in Nat
  BY LongDigits, LongBase
<1>2. DOMAIN s = 1..Limbs /\ Len(s) = Limbs /\ \A j \in 1..Limbs : s[j] = a[j] * d
  BY <1>1
<1>3. LongTimesShort(a, d) = Front(AdcChain(s, 0))
  BY DEF LongTimesShort
<1> HIDE DEF s
<1>4. Columnar(LimbBase, s, Limbs) /\ Val(LimbBase, s, Limbs) = Val(LimbBase, a, Limbs) * d
  <2>1. d \in 0..(LimbBase - 1)
    BY DEF Limb
  <2>2. QED
    BY <1>1, <1>2, <2>1, LongBase, MultipleVal
<1>5. /\ LongTimesShort(a, d) \in LongNumber
      /\ LongValue(LongTimesShort(a, d)) = (Val(LimbBase, s, Limbs) + 0) % Modulus
  BY <1>1, <1>2, <1>3, <1>4, LongBase, LongWraps
<1>6. LongValue(a) = Val(LimbBase, a, Limbs)
  BY <1>1, LongValueIs
<1>7. Val(LimbBase, a, Limbs) \in Nat /\ d \in Nat
  BY <1>1, LongBase, DigitsAreColumns DEF Limb
<1>8. PICK v \in Int : v = Val(LimbBase, a, Limbs) * d
  BY <1>7
<1>9. QED
  BY <1>4, <1>5, <1>6, <1>8

\* sub_long_long
LEMMA LongMinusIs ==
    ASSUME NEW a \in LongNumber, NEW b \in LongNumber
    PROVE  /\ LongMinus(a, b) \in LongNumber
           /\ LongValue(LongMinus(a, b)) = (LongValue(a) - LongValue(b)) % Modulus
<1> DEFINE borrow == CHOOSE borrow : borrow = [i \in DOMAIN a |->
                         IF i > 1 /\ a[i - 1] < b[i - 1] + borrow[i - 1] THEN 1 ELSE 0]
           d == [i \in DOMAIN a |-> (a[i] - b[i] - borrow[i]) % LimbBase]
<1>1. /\ Digital(LimbBase, a, Limbs) /\ Digital(LimbBase, b, Limbs) /\ DOMAIN a = 1..Limbs
      /\ Limbs \in Nat
  BY LongDigits, LongBase
<1>2. PICK c : c \in Borrowing(a, b, Limbs)
  BY <1>1, BorrowingExists
<1>3. /\ c \in [1..(Limbs + 1) -> 0..1] /\ c[1] = 0
      /\ \A i \in 1..Limbs : c[i + 1] = IF a[i] < b[i] + c[i] THEN 1 ELSE 0
  BY <1>2 DEF Borrowing
<1> DEFINE g == [i \in 1..Limbs |-> c[i]]
<1>4. /\ \A i \in 1..Limbs : i \in 1..(Limbs + 1) /\ (~(i > 1) => i = 1)
      /\ \A i \in 1..Limbs : i > 1 => i - 1 \in 1..Limbs /\ i - 1 + 1 = i
      /\ \A i \in 1..Limbs : g[i] = c[i]
  BY <1>1
<1>5. \A i \in 1..Limbs : g[i] = IF i > 1 /\ a[i - 1] < b[i - 1] + g[i - 1] THEN 1 ELSE 0
  <2>1. ASSUME NEW i \in 1..Limbs
        PROVE  g[i] = IF i > 1 /\ a[i - 1] < b[i - 1] + g[i - 1] THEN 1 ELSE 0
    <3>1. CASE i > 1
      <4>1. c[i] = IF a[i - 1] < b[i - 1] + c[i - 1] THEN 1 ELSE 0
        <5>1. i - 1 \in 1..Limbs /\ i - 1 + 1 = i
          BY <1>4, <3>1
        <5>2. c[i - 1 + 1] = IF a[i - 1] < b[i - 1] + c[i - 1] THEN 1 ELSE 0
          BY <1>3, <5>1
        <5>3. QED
          BY <5>1, <5>2
      <4>2. g[i] = c[i] /\ g[i - 1] = c[i - 1]
        BY <1>4, <3>1
      <4>3. QED
        BY <3>1, <4>1, <4>2
    <3>2. CASE ~(i > 1)
      <4>1. g[i] = 0
        BY <1>3, <1>4, <3>2
      <4>2. QED
        BY <3>2, <4>1
    <3>3. QED
      BY <3>1, <3>2
  <2>2. QED
    BY <2>1
<1> DEFINE h == [i \in DOMAIN a |-> IF i > 1 /\ a[i - 1] < b[i - 1] + g[i - 1] THEN 1 ELSE 0]
<1>6. g = h
  <2>1. g = [i \in 1..Limbs |-> g[i]]
    OBVIOUS
  <2> HIDE DEF g
  <2>2. h = [i \in 1..Limbs |-> h[i]] /\ \A i \in 1..Limbs : g[i] = h[i]
    BY <1>1, <1>5
  <2> HIDE DEF h
  <2>3. QED
    BY <2>1, <2>2, Extensional
<1> HIDE DEF g
<1>7. borrow = [i \in DOMAIN a |-> IF i > 1 /\ a[i - 1] < b[i - 1] + borrow[i - 1] THEN 1 ELSE 0]
  BY <1>6
<1>8. LongMinus(a, b) = d
  BY DEF LongMinus
<1> HIDE DEF borrow, h
<1> DEFINE e == [i \in 1..(Limbs + 1) |->
                   IF i <= Limbs THEN borrow[i]
                   ELSE IF a[Limbs] < b[Limbs] + borrow[Limbs] THEN 1 ELSE 0]
<1>9. \A i \in 1..Limbs : borrow[i] = IF i > 1 /\ a[i - 1] < b[i - 1] + borrow[i - 1] THEN 1 ELSE 0
  BY <1>1, <1>7
<1>10. e \in Borrowing(a, b, Limbs)
  <2>1. e \in [1..(Limbs + 1) -> 0..1]
    BY <1>9
  <2>2. e[1] = 0
    <3>1. 1 \in 1..(Limbs + 1) /\ 1 <= Limbs /\ 1 \in 1..Limbs /\ ~(1 > 1)
      BY LongBase
    <3>2. QED
      BY <1>9, <3>1
  <2>3. ASSUME NEW i \in 1..Limbs
        PROVE  e[i + 1] = IF a[i] < b[i] + e[i] THEN 1 ELSE 0
    <3>1. e[i] = borrow[i] /\ i \in 1..(Limbs + 1) /\ i + 1 \in 1..(Limbs + 1)
      BY <1>1
    <3>2. CASE i + 1 <= Limbs
      <4>1. i + 1 \in 1..Limbs /\ i + 1 > 1 /\ i + 1 - 1 = i
        BY <3>2
      <4>2. borrow[i + 1] = IF a[i] < b[i] + borrow[i] THEN 1 ELSE 0
        BY <1>9, <4>1
      <4>3. QED
        BY <3>1, <3>2, <4>2
    <3>3. CASE ~(i + 1 <= Limbs)
      <4>1. i = Limbs
        BY <1>1, <3>3
      <4>2. QED
        BY <3>1, <3>3, <4>1
    <3>4. QED
      BY <3>2, <3>3
  <2> HIDE DEF e
  <2>4. QED
    BY <2>1, <2>2, <2>3 DEF Borrowing
<1>11. \A i \in 1..Limbs : d[i] = (a[i] - b[i] - e[i]) % LimbBase
  <2>1. \A i \in 1..Limbs : e[i] = borrow[i]
    BY <1>1
  <2> HIDE DEF e
  <2>2. QED
    BY <1>1, <2>1
<1>12. d = [i \in 1..Limbs |-> d[i]]
  BY <1>1
<1> HIDE DEF d, e
<1>13. /\ Digital(LimbBase, d, Limbs) /\ e[Limbs + 1] \in 0..1
       /\ Val(LimbBase, d, Limbs) = Val(LimbBase, a, Limbs) - Val(LimbBase, b, Limbs) + Power(LimbBase, Limbs) * e[Limbs + 1]
  BY <1>1, <1>10, <1>11, LongBase, BorrowedVal
<1>14. d \in LongNumber
  BY <1>12, <1>13 DEF LongNumber, Limb, Digital
<1>15. LongValue(d) = Val(LimbBase, d, Limbs) /\ LongValue(a) = Val(LimbBase, a, Limbs) /\ LongValue(b) = Val(LimbBase, b, Limbs)
  BY <1>14, LongDigits, LongValueIs
<1>16. /\ Val(LimbBase, d, Limbs) \in Nat /\ Val(LimbBase, d, Limbs) < Modulus
       /\ Val(LimbBase, a, Limbs) \in Nat /\ Val(LimbBase, b, Limbs) \in Nat
  BY <1>1, <1>13, LongBase, DigitsAreColumns
<1>17. PICK v \in 0..(Modulus - 1), q \in Int, x \in Int :
         v = Val(LimbBase, d, Limbs) /\ q = -e[Limbs + 1] /\ x = Val(LimbBase, a, Limbs) - Val(LimbBase, b, Limbs)
  BY <1>13, <1>16, LongBase
<1>18. x = Modulus * q + v
  <2>1. PICK k \in Int, p \in Int : k = e[Limbs + 1] /\ p = Modulus
    BY <1>13, LongBase
  <2>2. v = x + p * k /\ p * k \in Int /\ p * (-k) = -(p * k)
    BY <1>13, <1>17, <2>1, LongBase
  <2>3. QED
    BY <1>17, <2>1, <2>2
<1>19. x % Modulus = v
  <2>1. Modulus \in Nat \ {0}
    BY LongBase
  <2>2. QED
    BY <1>18, <2>1, DivModUnique
<1>20. QED
  BY <1>8, <1>14, <1>15, <1>17, <1>19

\* A sequence after another
LEMMA ConcatIs ==
    ASSUME NEW S, NEW s \in Seq(S), NEW t \in Seq(S)
    PROVE  /\ s \o t \in Seq(S) /\ Len(s \o t) = Len(s) + Len(t)
           /\ \A i \in 1..Len(s) : (s \o t)[i] = s[i]
           /\ \A i \in 1..Len(t) : (s \o t)[Len(s) + i] = t[i]
<1>1. s \o t \in Seq(S) /\ Len(s \o t) = Len(s) + Len(t)
  OBVIOUS
<1>2. \A i \in 1..Len(s) : (s \o t)[i] = s[i]
  OBVIOUS
<1>3. ASSUME NEW i \in 1..Len(t)
      PROVE  (s \o t)[Len(s) + i] = t[i]
  <2>1. Len(s) \in Nat /\ Len(t) \in Nat
    OBVIOUS
  <2>2. Len(s) + i \in 1..(Len(s) + Len(t)) /\ ~(Len(s) + i <= Len(s)) /\ Len(s) + i - Len(s) = i
    BY <2>1
  <2>3. QED
    BY <2>2
<1>4. QED
  BY <1>1, <1>2, <1>3

\* The columns above the k-th are the same
AreEqualAbove(f, g, k, n) == \A i \in (k + 1)..n : f[i] = g[i]

\* The n elements h in the place of those of s after the k-th
Splice(s, k, h, n, N) == SubSeq(s, 1, k) \o h \o SubSeq(s, k + n + 1, N)

\* The others stay
LEMMA Spliced ==
    ASSUME NEW S, NEW N \in Nat, NEW s \in [1..N -> S], NEW n \in Nat, NEW h \in [1..n -> S],
           NEW k \in Nat, k + n <= N
    PROVE  /\ Splice(s, k, h, n, N) \in [1..N -> S]
           /\ AreEqual(s, Splice(s, k, h, n, N), k) /\ AreUpper(Splice(s, k, h, n, N), k, h, n)
           /\ AreEqualAbove(s, Splice(s, k, h, n, N), k + n, N)
<1> DEFINE t == Splice(s, k, h, n, N)
<1>1. s \in Seq(S) /\ Len(s) = N /\ h \in Seq(S) /\ Len(h) = n
  BY SequenceIs
<1> DEFINE lower == SubSeq(s, 1, k)
           upper == SubSeq(s, k + n + 1, N)
<1>2. lower \in Seq(S) /\ Len(lower) = k /\ \A i \in 1..k : lower[i] = s[i]
  BY <1>1
<1>3. upper \in Seq(S) /\ Len(upper) = N - (k + n) /\ \A i \in 1..(N - (k + n)) : upper[i] = s[k + n + i]
  <2>1. CASE k + n + 1 <= N
    <3>1. upper \in Seq(S) /\ Len(upper) = N - (k + n)
      BY <1>1, <2>1
    <3>2. ASSUME NEW i \in 1..(N - (k + n))
          PROVE  upper[i] = s[k + n + i]
      <4>1. upper[i] = s[k + n + 1 + i - 1] /\ k + n + 1 + i - 1 = k + n + i
        BY <1>1, <2>1
      <4>2. QED
        BY <4>1
    <3>3. QED
      BY <3>1, <3>2
  <2>2. CASE k + n = N
    <3>1. upper = <<>> /\ N - (k + n) = 0 /\ 1..0 = {}
      BY <1>1, <2>2
    <3>2. QED
      BY <3>1
  <2>3. QED
    BY <2>1, <2>2
<1>4. t = lower \o h \o upper
  BY DEF Splice
<1> HIDE DEF lower, upper, t
<1> DEFINE w == lower \o h
<1>5. w \in Seq(S) /\ Len(w) = k + n /\ (\A i \in 1..k : w[i] = s[i]) /\ \A i \in 1..n : w[k + i] = h[i]
  <2>1. /\ w \in Seq(S) /\ Len(w) = k + n
        /\ \A i \in 1..k : w[i] = lower[i]
        /\ \A i \in 1..n : w[k + i] = h[i]
    <3>1. lower \in Seq(S) /\ h \in Seq(S)
      BY <1>1, <1>2
    <3>2. /\ w \in Seq(S) /\ Len(w) = Len(lower) + Len(h)
          /\ \A i \in 1..Len(lower) : w[i] = lower[i]
          /\ \A i \in 1..Len(h) : w[Len(lower) + i] = h[i]
      BY <3>1, ConcatIs
    <3> HIDE DEF w
    <3>3. QED
      BY <1>1, <1>2, <3>2
  <2>2. QED
    BY <1>2, <2>1
<1>6. t = w \o upper
  BY <1>4
<1> HIDE DEF w
<1>7. /\ t \in Seq(S) /\ Len(t) = N
      /\ \A i \in 1..(k + n) : t[i] = w[i]
      /\ \A i \in 1..(N - (k + n)) : t[k + n + i] = upper[i]
  <2>1. N - (k + n) \in Nat /\ k + n \in Nat /\ k + n + (N - (k + n)) = N
    OBVIOUS
  <2>2. /\ w \o upper \in Seq(S) /\ Len(w \o upper) = k + n + (N - (k + n))
        /\ \A i \in 1..(k + n) : (w \o upper)[i] = w[i]
        /\ \A i \in 1..(N - (k + n)) : (w \o upper)[k + n + i] = upper[i]
    <3>1. w \in Seq(S) /\ upper \in Seq(S)
      BY <1>3, <1>5
    <3>2. /\ w \o upper \in Seq(S) /\ Len(w \o upper) = Len(w) + Len(upper)
          /\ \A i \in 1..Len(w) : (w \o upper)[i] = w[i]
          /\ \A i \in 1..Len(upper) : (w \o upper)[Len(w) + i] = upper[i]
      BY <3>1, ConcatIs
    <3>3. Len(w) = k + n /\ Len(upper) = N - (k + n)
      BY <1>3, <1>5
    <3>4. QED
      BY <3>2, <3>3
  <2>3. QED
    BY <1>6, <2>1, <2>2
<1>8. \A i \in 1..(k + n) : t[i] = w[i]
  BY <1>7
<1>9. \A i \in (k + n + 1)..N : t[i] = s[i]
  <2>1. ASSUME NEW i \in (k + n + 1)..N
        PROVE  t[i] = s[i]
    <3>1. i - (k + n) \in 1..(N - (k + n)) /\ k + n + (i - (k + n)) = i
      OBVIOUS
    <3>2. t[k + n + (i - (k + n))] = upper[i - (k + n)]
      BY <1>7, <3>1
    <3>3. upper[i - (k + n)] = s[k + n + (i - (k + n))]
      BY <1>3, <3>1
    <3>4. QED
      BY <3>1, <3>2, <3>3
  <2>2. QED
    BY <2>1
<1>10. AreEqual(s, t, k)
  <2>1. \A i \in 1..k : i \in 1..(k + n)
    OBVIOUS
  <2>2. QED
    BY <1>5, <1>8, <2>1 DEF AreEqual
<1>11. AreUpper(t, k, h, n)
  <2>1. \A i \in 1..n : k + i \in 1..(k + n)
    OBVIOUS
  <2>2. QED
    BY <1>5, <1>8, <2>1 DEF AreUpper
<1>12. t \in [1..N -> S]
  BY <1>7, SequenceOf
<1>13. QED
  BY <1>9, <1>10, <1>11, <1>12 DEF t, AreEqualAbove

\* The two halves of a product
LongTwice == [1..(2 * Limbs) -> Limb]

\* One round of mul_long_long: what is lost is a carry, if the highest qword is in use
LEMMA AddRoundIs ==
    ASSUME NEW a \in LongNumber, NEW b \in LongNumber, NEW acc \in LongTwice, NEW i \in 1..Limbs
    PROVE  /\ AddRound(acc, i, a, b) \in LongTwice
           /\ AreZero(acc, i - 1 + Limbs, 2 * Limbs) =>
                /\ AreZero(AddRound(acc, i, a, b), i + Limbs, 2 * Limbs)
                /\ \E c \in Limb :
                     /\ a[Limbs] = 0 => c = 0
                     /\ Val(LimbBase, AddRound(acc, i, a, b), 2 * Limbs)
                          = Val(LimbBase, acc, 2 * Limbs)
                            + Power(LimbBase, i - 1)
                              * (b[i] * Val(LimbBase, a, Limbs) - Power(LimbBase, Limbs) * c)
<1> DEFINE B == LimbBase
           n == Limbs
           k == i - 1
           u == [j \in 1..n |-> acc[k + j]]
           s == [j \in DOMAIN a |-> acc[i + j - 1] + a[j] * b[i]]
           h == Settled(B, s, n, 0)
           c == Carries(B, s, n, 0)
           new == AddRound(acc, i, a, b)
<1>1. /\ n \in Nat /\ 2 * n \in Nat /\ k \in Nat /\ k + n <= 2 * n /\ B \in Base /\ B \in Int /\ 0 \in Limb
      /\ k + n + 1 = i + n /\ n \in 1..n /\ k + n \in 1..(2 * n)
      /\ DOMAIN a = 1..n /\ Len(a) = n /\ Digital(B, a, n) /\ b[i] \in 0..(B - 1)
      /\ acc \in [1..(2 * n) -> Limb] /\ Len(acc) = 2 * n
  <2>1. n \in Nat \ {0} /\ B \in Base /\ 0 \in Limb
    BY LongBase
  <2>2. n \in Nat /\ 2 * n \in Nat /\ k \in Nat /\ k + n <= 2 * n /\ k + n + 1 = i + n /\ n \in 1..n /\ k + n \in 1..(2 * n)
    BY <2>1
  <2>3. DOMAIN a = 1..n /\ Len(a) = n /\ Digital(B, a, n) /\ b[i] \in 0..(B - 1)
    BY LongDigits DEF LongNumber, Limb
  <2>4. acc \in [1..(2 * n) -> Limb] /\ Len(acc) = 2 * n
    BY <2>2 DEF LongTwice
  <2>5. B \in Int
    BY <2>1 DEF Base
  <2>6. QED
    BY <2>1, <2>2, <2>3, <2>4, <2>5
<1>2. /\ \A j \in 1..n : u[j] = acc[k + j] /\ k + j \in 1..(2 * n) /\ i + j - 1 = k + j
      /\ DOMAIN s = 1..n /\ Len(s) = n
      /\ \A j \in 1..n : s[j] = acc[i + j - 1] + a[j] * b[i]
  <2>1. \A j \in 1..n : u[j] = acc[k + j] /\ k + j \in 1..(2 * n) /\ i + j - 1 = k + j
    BY <1>1
  <2>2. /\ DOMAIN s = 1..n /\ Len(s) = n
        /\ \A j \in 1..n : s[j] = acc[i + j - 1] + a[j] * b[i]
    BY <1>1
  <2>3. QED
    BY <2>1, <2>2
<1>3. new = SubSeq(acc, 1, i - 1) \o Front(AdcChain(s, 0)) \o SubSeq(acc, i + n, 2 * n)
  BY <1>1 DEF AddRound
<1> HIDE DEF u, s, new
<1>4. Digital(B, u, n) /\ AreUpper(acc, k, u, n)
  BY <1>1, <1>2 DEF Digital, AreUpper, Limb
<1>5. \A j \in 1..n : s[j] = u[j] + b[i] * a[j]
  <2>1. ASSUME NEW j \in 1..n
        PROVE  s[j] = u[j] + b[i] * a[j]
    <3>1. PICK x \in Int, y \in Int : x = a[j] /\ y = b[i]
      BY <1>1 DEF Digital
    <3>2. s[j] = u[j] + x * y /\ x * y = y * x
      BY <1>2, <3>1
    <3>3. QED
      BY <3>1, <3>2
  <2>2. QED
    BY <2>1
<1>6. Columnar(B, s, n) /\ Val(B, s, n) = Val(B, u, n) + b[i] * Val(B, a, n)
  <2>1. B \in Base /\ n \in Nat /\ b[i] \in 0..(B - 1) /\ Digital(B, u, n) /\ Digital(B, a, n)
    BY <1>1, <1>4
  <2>2. QED
    BY <1>5, <2>1, RowVal
<1>7. Front(AdcChain(s, 0)) = h
  BY <1>1, <1>2, <1>6, AdcChainIs
<1>8. /\ h \in [1..n -> Limb] /\ c[n + 1] \in Limb
      /\ Val(B, h, n) + Power(B, n) * c[n + 1] = Val(B, s, n) + 0
  <2>1. B \in Base /\ n \in Nat /\ 0 \in 0..(B - 1) /\ Columnar(B, s, n)
    BY <1>1, <1>6 DEF Limb
  <2>2. QED
    BY <2>1, SettledAre DEF Limb
<1>9. c \in [1..(n + 1) -> Limb] /\ c[n + 1] = (s[n] + c[n]) \div B
  <2>1. B \in Base /\ n \in Nat /\ 0 \in 0..(B - 1) /\ Columnar(B, s, n)
    BY <1>1, <1>6 DEF Limb
  <2>2. /\ c \in [1..(n + 1) -> 0..(B - 1)]
        /\ \A j \in 1..n : c[j + 1] = (s[j] + c[j]) \div B
    BY <2>1, CarriesAre
  <2>3. QED
    BY <1>1, <2>2 DEF Limb
<1> HIDE DEF h, c
<1>10. /\ new \in LongTwice
       /\ AreEqual(acc, new, k) /\ AreUpper(new, k, h, n)
       /\ \A j \in (k + n + 1)..(2 * n) : new[j] = acc[j]
  <2>1. new = SubSeq(acc, 1, k) \o h \o SubSeq(acc, k + n + 1, 2 * n)
    BY <1>1, <1>3, <1>7
  <2>2. /\ new \in [1..(2 * n) -> Limb]
        /\ AreEqual(acc, new, k) /\ AreUpper(new, k, h, n)
        /\ \A j \in (k + n + 1)..(2 * n) : new[j] = acc[j]
    <3>1. PICK N \in Nat : N = 2 * n
      BY <1>1
    <3>2. /\ n \in Nat /\ k \in Nat /\ k + n <= N
          /\ acc \in [1..N -> Limb] /\ h \in [1..n -> Limb]
      BY <1>1, <1>8, <3>1
    <3>3. new = Splice(acc, k, h, n, N)
      BY <2>1, <3>1 DEF Splice
    <3> HIDE DEF k
    <3>4. /\ new \in [1..N -> Limb]
          /\ AreEqual(acc, new, k) /\ AreUpper(new, k, h, n)
          /\ AreEqualAbove(acc, new, k + n, N)
      BY <3>2, <3>3, Spliced
    <3>5. QED
      BY <3>1, <3>4 DEF AreEqualAbove
  <2>3. QED
    BY <2>2 DEF LongTwice
<1>11. ASSUME AreZero(acc, i - 1 + n, 2 * n)
       PROVE  /\ AreZero(new, i + n, 2 * n)
              /\ a[n] = 0 => c[n + 1] = 0
              /\ Val(B, new, 2 * n) = Val(B, acc, 2 * n) + Power(B, k) * (b[i] * Val(B, a, n) - Power(B, n) * c[n + 1])
  <2>1. \A j \in (k + n)..(2 * n) : acc[j] = 0
    BY <1>11 DEF AreZero
  <2>2. AreZero(acc, k + n + 1, 2 * n) /\ AreZero(new, k + n + 1, 2 * n)
    <3>1. \A j \in (k + n + 1)..(2 * n) : j \in (k + n)..(2 * n)
      BY <1>1
    <3>2. QED
      BY <1>10, <2>1, <3>1 DEF AreZero
  <2>3. Val(B, new, 2 * n) = Val(B, acc, 2 * n) + Power(B, k) * (Val(B, h, n) - Val(B, u, n))
    <3>1. \A j \in 1..(2 * n) : acc[j] \in Int /\ new[j] \in Int
      BY <1>1, <1>10 DEF LongTwice, Limb
    <3>2. B \in Int /\ 2 * n \in Nat /\ n \in Nat /\ k \in Nat /\ k + n <= 2 * n
      BY <1>1
    <3>3. AreEqual(acc, new, k) /\ AreUpper(acc, k, u, n) /\ AreUpper(new, k, h, n)
      BY <1>4, <1>10
    <3>4. QED
      BY <2>2, <3>1, <3>2, <3>3, ValMiddle
  <2>4. Val(B, h, n) - Val(B, u, n) = b[i] * Val(B, a, n) - Power(B, n) * c[n + 1]
    <3>1. Val(B, u, n) \in Int /\ Val(B, a, n) \in Int /\ Power(B, n) \in Int /\ Val(B, h, n) \in Int
      <4>1. Digital(B, h, n)
        BY <1>8 DEF Digital, Limb
      <4>2. QED
        BY <1>1, <1>4, <4>1, DigitsAreColumns, PowerInt
    <3>2. b[i] * Val(B, a, n) \in Int /\ Power(B, n) * c[n + 1] \in Int
      <4>1. b[i] \in Int /\ c[n + 1] \in Int
        BY <1>1, <1>8 DEF Limb
      <4>2. QED
        BY <3>1, <4>1
    <3>3. QED
      BY <1>6, <1>8, <3>1, <3>2
  <2>5. ASSUME a[n] = 0
        PROVE  c[n + 1] = 0
    <3>1. s[n] = 0
      <4>1. u[n] = 0
        <5>1. k + n \in (k + n)..(2 * n)
          BY <1>1
        <5>2. QED
          BY <1>1, <1>2, <2>1, <5>1
      <4>2. s[n] = 0 + b[i] * 0
        BY <1>1, <1>5, <2>5, <4>1
      <4>3. QED
        BY <1>1, <4>2
    <3>2. PICK x \in 0..(B - 1) : x = c[n] /\ c[n + 1] = (0 + x) \div B
      <4>1. n \in 1..(n + 1)
        BY <1>1
      <4>2. QED
        BY <1>9, <3>1, <4>1 DEF Limb
    <3>3. x = B * 0 + x /\ 0 + x = x /\ B \in Nat \ {0} /\ x \in Int
      BY <1>1 DEF Base
    <3>4. x \div B = 0
      BY <3>3, DivModUnique
    <3>5. QED
      BY <3>2, <3>3, <3>4
  <2>6. AreZero(new, i + n, 2 * n)
    BY <1>1, <2>2
  <2>7. QED
    BY <2>3, <2>4, <2>5, <2>6
<1>12. c[n + 1] \in Limb
  BY <1>8
<1>13. QED
  BY <1>10, <1>11, <1>12 DEF new

\* mul_long_long: a * b is exact in the lower half, and everywhere if the highest qword of
\* a is free; else carries may be missing, and the highest qword of the product is zero
LEMMA LongTimesIs ==
    ASSUME NEW a \in LongNumber, NEW b \in LongNumber
    PROVE  /\ LongTimes(a, b) \in LongTwice /\ LongTimes(a, b)[2 * Limbs] = 0
           /\ \E e \in Nat :
                /\ a[Limbs] = 0 => e = 0
                /\ LongValue(LongTimes(a, b)) = LongValue(a) * LongValue(b) - Modulus * e
<1> DEFINE B == LimbBase
           n == Limbs
           step == [i \in 1..n |-> [x \in LongTwice |-> AddRound(x, i, a, b)]]
           acc == CHOOSE acc : acc = [i \in 0..Len(b) |->
                     IF i = 0 THEN LongZero(2 * Len(a)) ELSE AddRound(acc[i - 1], i, a, b)]
           A == Val(B, a, n)
           M == Power(B, n)
<1>1. /\ n \in Nat /\ 2 * n \in Nat /\ B \in Base /\ B \in Int /\ 0 \in Limb
      /\ Len(a) = n /\ Len(b) = n /\ Digital(B, a, n) /\ Digital(B, b, n)
  <2>1. n \in Nat /\ B \in Base /\ 0 \in Limb
    BY LongBase
  <2>2. 2 * n \in Nat /\ B \in Int
    BY <2>1 DEF Base
  <2>3. QED
    BY <2>1, <2>2, LongDigits
<1>2. LongZero(2 * n) \in LongTwice /\ \A j \in 1..(2 * n) : LongZero(2 * n)[j] = 0
  BY <1>1 DEF LongZero, LongTwice
<1>3. step \in [1..n -> [LongTwice -> LongTwice]] /\ \A i \in 1..n, x \in LongTwice : step[i][x] = AddRound(x, i, a, b)
  BY AddRoundIs
<1> HIDE DEF step
<1>4. PICK f \in [0..n -> LongTwice] : f[0] = LongZero(2 * n) /\ \A i \in 1..n : f[i] = step[i][f[i - 1]]
  <2>1. Rising(n, LongTwice, LongZero(2 * n), step) # {}
    BY <1>1, <1>2, <1>3, RecursionUp
  <2>2. QED
    BY <2>1 DEF Rising
<1>5. /\ \A i \in 0..n : i # 0 => i \in 1..n
      /\ \A i \in 1..n : i - 1 \in 0..n /\ i \in 0..n /\ i # 0
      /\ 0 \in 0..n /\ n \in 0..n
  BY <1>1
<1>6. \A i \in 1..n : f[i] = AddRound(f[i - 1], i, a, b)
  BY <1>3, <1>4, <1>5
<1> DEFINE h == [i \in 0..Len(b) |-> IF i = 0 THEN LongZero(2 * Len(a)) ELSE AddRound(f[i - 1], i, a, b)]
<1>7. f = h
  <2>1. f = [i \in 0..n |-> f[i]]
    BY <1>4
  <2>2. h = [i \in 0..n |-> h[i]]
    BY <1>1
  <2>3. \A i \in 0..n : f[i] = h[i]
    BY <1>1, <1>4, <1>5, <1>6
  <2> HIDE DEF h
  <2>4. QED
    BY <2>1, <2>2, <2>3, Extensional
<1>8. acc = [i \in 0..Len(b) |-> IF i = 0 THEN LongZero(2 * Len(a)) ELSE AddRound(acc[i - 1], i, a, b)]
  BY <1>7
<1>9. LongTimes(a, b) = acc[n]
  BY <1>1 DEF LongTimes
<1> HIDE DEF acc, h
<1>10. acc[0] = LongZero(2 * n) /\ \A i \in 1..n : acc[i] = AddRound(acc[i - 1], i, a, b)
  BY <1>1, <1>5, <1>8
<1>11. A \in Int /\ M \in Int
  BY <1>1, DigitsAreColumns, PowerInt
<1> HIDE DEF A, M
<1> DEFINE Good(i) == /\ acc[i] \in LongTwice /\ AreZero(acc[i], i + n, 2 * n)
                      /\ \E e \in Nat : /\ a[n] = 0 => e = 0
                                        /\ Val(B, acc[i], 2 * n) = Val(B, b, i) * A - M * e
           S == { i \in 0..n : Good(i) }
<1>12. 0 \in S
  <2>1. acc[0] \in LongTwice /\ \A j \in 1..(2 * n) : acc[0][j] = 0
    BY <1>2, <1>10
  <2>2. AreZero(acc[0], 0 + n, 2 * n)
    <3>1. \A j \in (0 + n)..(2 * n) : j \in 1..(2 * n)
      BY LongBase
    <3>2. QED
      BY <2>1, <3>1 DEF AreZero
  <2>3. Val(B, acc[0], 2 * n) = 0
    BY <1>1, <2>1, ValZero
  <2>4. Val(B, b, 0) = 0
    BY <1>1, ValFew
  <2>5. 0 \in Nat /\ 0 = 0 * A - M * 0
    BY <1>11
  <2>6. QED
    BY <1>5, <2>1, <2>2, <2>3, <2>4, <2>5
<1>13. ASSUME NEW k \in Int, 0 <= k, k < n, k \in S
       PROVE  k + 1 \in S
  <2>1. PICK i \in 1..n : i = k + 1 /\ i - 1 = k /\ k + 1 - 1 = k
    BY <1>1, <1>13
  <2>2. acc[i] = AddRound(acc[k], i, a, b)
    BY <1>10, <2>1
  <2>3. PICK e \in Nat : /\ a[n] = 0 => e = 0
                         /\ Val(B, acc[k], 2 * n) = Val(B, b, k) * A - M * e
    BY <1>13
  <2>4. acc[k] \in LongTwice /\ AreZero(acc[k], i - 1 + n, 2 * n)
    BY <1>13, <2>1
  <2>5. PICK c \in Limb : /\ a[n] = 0 => c = 0
                          /\ Val(B, AddRound(acc[k], i, a, b), 2 * n)
                              = Val(B, acc[k], 2 * n) + Power(B, i - 1) * (b[i] * Val(B, a, n) - Power(B, n) * c)
    BY <2>4, AddRoundIs
  <2>6. acc[i] \in LongTwice /\ AreZero(acc[i], i + n, 2 * n)
    BY <2>2, <2>4, AddRoundIs
  <2>7. PICK p \in Nat, x \in Int, C \in Nat, V \in Int, W \in Int :
             /\ p = Power(B, k) /\ x = b[i] /\ C = c
             /\ V = Val(B, b, k) /\ W = Val(B, b, i)
             /\ W = V + p * x
    <3>1. k \in Nat /\ i \in Nat \ {0} /\ i - 1 = k /\ \A j \in 1..i : b[j] \in Int
      <4>1. \A j \in 1..i : j \in 1..n
        BY <1>1
      <4>2. QED
        BY <1>1, <1>13, <2>1, <4>1 DEF Digital
    <3>2. \A j \in 1..k : b[j] \in Int
      BY <3>1
    <3>3. Val(B, b, i) = Val(B, b, i - 1) + Power(B, i - 1) * b[i]
      BY <1>1, <3>1, ValLast
    <3>4. Val(B, b, k) \in Int /\ Val(B, b, i) \in Int
      BY <1>1, <3>1, <3>2, ValInt
    <3>5. Power(B, k) \in Nat
      <4>1. B \in Nat \ {0}
        BY <1>1 DEF Base
      <4> HIDE DEF B
      <4>2. QED
        BY <3>1, <4>1, PowerBase
    <3>6. b[i] \in Int /\ c \in Nat
      BY <1>1 DEF Digital, Limb
    <3>7. QED
      BY <3>1, <3>3, <3>4, <3>5, <3>6
  <2>8. Val(B, acc[i], 2 * n) = V * A - M * e + p * (x * A - M * C)
    BY <2>1, <2>2, <2>3, <2>5, <2>7 DEF A, M
  <2>9. V * A - M * e + p * (x * A - M * C) = W * A - M * (e + p * C)
    <3>1. W * A = V * A + p * (x * A)
      <4>1. (V + p * x) * A = V * A + p * (x * A)
        BY <1>11
      <4>2. QED
        BY <2>7, <4>1
    <3>2. M * (e + p * C) = M * e + p * (M * C)
      BY <1>11
    <3>3. p * (x * A - M * C) = p * (x * A) - p * (M * C)
      BY <1>11
    <3>4. V * A \in Int /\ p * (x * A) \in Int /\ M * e \in Int /\ p * (M * C) \in Int
      BY <1>11
    <3>5. QED
      BY <3>1, <3>2, <3>3, <3>4
  <2>10. e + p * C \in Nat /\ (a[n] = 0 => e + p * C = 0)
    <3>1. \A y, z \in Nat : y * z \in Nat /\ y * 0 = 0
      OBVIOUS
    <3>2. PICK y \in Nat : y = p * C
      BY <2>7, <3>1
    <3>3. e + y \in Nat
      BY <2>3
    <3>4. a[n] = 0 => e = 0 /\ y = 0
      BY <2>3, <2>5, <2>7, <3>1, <3>2
    <3>5. QED
      BY <3>2, <3>3, <3>4
  <2>11. Good(i)
    BY <2>6, <2>7, <2>8, <2>9, <2>10
  <2>12. QED
    BY <1>5, <2>1, <2>11
<1>14. \A i \in Int : 0 <= i /\ i < n /\ i \in S => i + 1 \in S
  BY <1>13
<1>15. Good(n)
  <2>1. 0 \in Int /\ n \in Int /\ 0 <= n /\ n \in 0..n
    BY <1>1
  <2>2. 0..n \subseteq S
    <3> HIDE DEF S
    <3>1. QED
      BY <1>12, <1>14, <2>1, Upwards
  <2>3. n \in S
    BY <2>1, <2>2
  <2> HIDE DEF Good
  <2>4. QED
    BY <2>3
<1>16. LongValue(acc[n]) = Val(B, acc[n], 2 * n)
  <2>1. Len(acc[n]) = 2 * n
    <3>1. acc[n] \in LongTwice
      BY <1>15
    <3>2. QED
      BY <1>1, <3>1 DEF LongTwice
  <2>2. QED
    BY <2>1 DEF LongValue, Val, Tails
<1>17. LongValue(a) = A /\ LongValue(b) = Val(B, b, n)
  BY <1>1, LongValueIs DEF A
<1>18. Val(B, b, n) * A = A * Val(B, b, n)
  <2>1. Val(B, b, n) \in Int
    BY <1>1, DigitsAreColumns
  <2>2. QED
    BY <1>11, <2>1
<1>19. acc[n][2 * n] = 0
  <2>1. 2 * n \in (n + n)..(2 * n)
    BY <1>1
  <2>2. QED
    BY <1>15, <2>1 DEF AreZero
<1>20. QED
  BY <1>9, <1>15, <1>16, <1>17, <1>18, <1>19, LongBase DEF M

\* What add_long_long, sub_long_long and mul_long_long leave is the sum, the difference and
\* the product of integers in the width of the numbers.  The double product is all there if
\* the first factor leaves its highest qword free; else it may be less by the carries that
\* were dropped, and it is if it needs the highest qword, which is never written (add.asm:22-47, subtract.asm:35-70,
\* multiply.asm:42-104)
THEOREM LongNumbersAreExact ==
    ASSUME NEW a \in LongNumber, NEW b \in LongNumber
    PROVE  LongExact(a, b)
<1>1. PICK e \in Nat : /\ a[Limbs] = 0 => e = 0
                       /\ LongValue(LongTimes(a, b)) = LongValue(a) * LongValue(b) - Modulus * e
  BY LongTimesIs
<1>2. LongValue(a) \in Nat /\ LongValue(b) \in Nat /\ Modulus \in Nat \ {0} /\ Modulus \in Int /\ Len(a) = Limbs
  BY LongDigits, LongBase, LongValueIs, DigitsAreColumns
<1>3. PICK p \in Int, t \in Int : p = LongValue(a) * LongValue(b) /\ t = LongValue(LongTimes(a, b)) /\ t = p - Modulus * e
  <2>1. LongValue(a) * LongValue(b) \in Int /\ Modulus * e \in Int
    BY <1>2
  <2>2. QED
    BY <1>1, <2>1
<1>4. a[Limbs] = 0 => t = p
  <2>1. Modulus * 0 = 0
    BY <1>2
  <2>2. QED
    BY <1>1, <1>3, <2>1
<1>5. t % Modulus = p % Modulus
  <2>1. PICK q \in Int, r \in 0..(Modulus - 1) : r = p % Modulus /\ p = Modulus * q + r
    BY <1>2, DivMod
  <2>2. PICK k \in Int : k = q - e
    OBVIOUS
  <2>3. t = Modulus * k + r
    <3>1. Modulus * (q - e) = Modulus * q - Modulus * e /\ Modulus * q \in Int /\ Modulus * e \in Int
      BY <1>2
    <3>2. QED
      BY <1>3, <2>1, <2>2, <3>1
  <2>4. t % Modulus = r
    BY <1>2, <2>3, DivModUnique
  <2>5. QED
    BY <2>1, <2>4
<1>6. /\ LongValue(LongPlus(a, b)) = (LongValue(a) + LongValue(b)) % Modulus
      /\ LongValue(LongMinus(a, b)) = (LongValue(a) - LongValue(b)) % Modulus
  BY LongPlusIs, LongMinusIs
<1>7. t <= p
  <2>1. Modulus * e \in Nat
    BY <1>2
  <2>2. QED
    BY <1>3, <2>1
<1>8. Last(LongTimes(a, b)) = 0
  <2>1. LongTimes(a, b) \in LongTwice /\ LongTimes(a, b)[2 * Limbs] = 0
    BY LongTimesIs
  <2>2. Len(LongTimes(a, b)) = 2 * Limbs
    BY <2>1, LongBase DEF LongTwice
  <2>3. QED
    BY <2>1, <2>2 DEF Last
<1>9. QED
  BY <1>2, <1>3, <1>4, <1>5, <1>6, <1>7, <1>8 DEF LongExact

\* The highest of some digits
LEMMA Greatest ==
    ASSUME NEW n \in Nat, NEW T \in SUBSET (1..n), T # {}
    PROVE  \E k \in T : \A i \in T : i <= k
<1> DEFINE U == { j \in Nat : n - j \in T }
<1>1. U \in SUBSET Nat /\ U # {}
  <2>1. PICK i \in T : TRUE
    OBVIOUS
  <2>2. n - i \in Nat /\ n - (n - i) = i
    OBVIOUS
  <2>3. QED
    BY <2>1, <2>2
<1>2. PICK m \in U : \A j \in U : m <= j
  <2> HIDE DEF U
  <2>1. QED
    BY <1>1, Least
<1>3. n - m \in T /\ m \in Nat
  BY <1>2
<1>4. ASSUME NEW i \in T
      PROVE  i <= n - m
  <2>1. i \in 1..n /\ n - i \in Nat /\ n - (n - i) = i
    OBVIOUS
  <2>2. n - i \in U
    BY <2>1
  <2>3. m <= n - i
    BY <1>2, <2>2
  <2>4. QED
    BY <1>3, <2>1, <2>3
<1>5. QED
  BY <1>3, <1>4

\* Numbers of n digits with the same value have the same digits
LEMMA ValUnique ==
    ASSUME NEW B \in Base, NEW n \in Nat, NEW f, NEW g, Digital(B, f, n), Digital(B, g, n),
           Val(B, f, n) = Val(B, g, n)
    PROVE  \A i \in 1..n : f[i] = g[i]
<1> DEFINE T == { i \in 1..n : f[i] # g[i] }
<1>1. SUFFICES ASSUME T # {} PROVE FALSE
  OBVIOUS
<1>2. PICK k \in T : \A i \in T : i <= k
  BY <1>1, Greatest
<1>3. k \in 1..n /\ f[k] # g[k] /\ \A i \in (k + 1)..n : f[i] = g[i]
  <2>1. k \in 1..n /\ f[k] # g[k]
    OBVIOUS
  <2>2. \A i \in (k + 1)..n : i \in 1..n /\ ~(i <= k)
    BY <2>1
  <2>3. QED
    BY <1>2, <2>1, <2>2
<1> HIDE DEF T
<1>4. \A i \in 1..n : f[i] \in 0..(B - 1) /\ g[i] \in 0..(B - 1)
  BY DEF Digital
<1>5. Val(B, f, n) \in Nat /\ Val(B, g, n) \in Nat
  BY DigitsAreColumns
<1>6. CASE f[k] < g[k]
  <2>1. Val(B, f, n) < Val(B, g, n)
    BY <1>3, <1>4, <1>6, ValOrder
  <2>2. QED
    BY <1>5, <2>1
<1>7. CASE g[k] < f[k]
  <2>1. \A i \in (k + 1)..n : g[i] = f[i]
    BY <1>3
  <2>2. Val(B, g, n) < Val(B, f, n)
    BY <1>3, <1>4, <1>7, <2>1, ValOrder
  <2>3. QED
    BY <1>5, <2>2
<1>8. f[k] \in Int /\ g[k] \in Int
  BY <1>3, <1>4 DEF Base
<1>9. QED
  BY <1>3, <1>6, <1>7, <1>8

\* Two long numbers of one value are the same
LEMMA LongUnique ==
    ASSUME NEW a \in LongNumber, NEW b \in LongNumber, LongValue(a) = LongValue(b)
    PROVE  a = b
<1>1. \A i \in 1..Limbs : a[i] = b[i]
  BY LongBase, LongDigits, LongValueIs, ValUnique
<1>2. a = [i \in 1..Limbs |-> a[i]] /\ b = [i \in 1..Limbs |-> b[i]]
  BY DEF LongNumber
<1>3. QED
  BY <1>1, <1>2, Extensional

\* div_long_short: the quotient and the remainder
LEMMA LongDivideShortIs ==
    ASSUME NEW a \in LongNumber, NEW d \in Limb \ {0}
    PROVE  /\ Front(LongDivideShort(a, d)) \in LongNumber
           /\ Last(LongDivideShort(a, d)) \in 0..(d - 1)
           /\ LongValue(a) = d * LongValue(Front(LongDivideShort(a, d))) + Last(LongDivideShort(a, d))
<1> DEFINE n == Limbs
           B == LimbBase
           rdx == CHOOSE rdx : rdx = [i \in 1..(Len(a) + 1) |->
                     IF i > Len(a) THEN 0 ELSE (a[i] + rdx[i + 1] * LimbBase) % d]
           q == [i \in DOMAIN a |-> (a[i] + rdx[i + 1] * LimbBase) \div d]
<1>1. n \in Nat /\ B \in Base /\ Len(a) = n /\ DOMAIN a = 1..n /\ Digital(B, a, n)
  BY LongBase, LongDigits
<1>2. d \in Nat \ {0} /\ d \in 1..(B - 1)
  BY LongBase DEF Limb
<1>3. LongDivideShort(a, d) = q \o <<rdx[1]>>
  BY DEF LongDivideShort
<1>4. PICK r : r \in Dividing(B, a, n, d)
  BY <1>1, <1>2, DividingExists
<1>5. /\ r \in [1..(n + 1) -> 0..(d - 1)] /\ r[n + 1] = 0
      /\ \A i \in 1..n : r[i] = (a[i] + r[i + 1] * B) % d
  BY <1>4 DEF Dividing
<1>6. /\ \A i \in 1..(n + 1) : i > n => i = n + 1
      /\ \A i \in 1..(n + 1) : ~(i > n) => i \in 1..n
      /\ \A i \in 1..n : i \in 1..(n + 1) /\ i + 1 \in 1..(n + 1) /\ ~(i > n)
      /\ 1 \in 1..(n + 1) /\ n + 1 \in 1..(n + 1) /\ n + 1 > n
  BY <1>1
<1> DEFINE h == [i \in 1..(Len(a) + 1) |-> IF i > Len(a) THEN 0 ELSE (a[i] + r[i + 1] * LimbBase) % d]
<1>7. r = h
  <2>1. r = [i \in 1..(n + 1) |-> r[i]]
    BY <1>5
  <2>2. h = [i \in 1..(n + 1) |-> h[i]]
    BY <1>1
  <2>3. \A i \in 1..(n + 1) : r[i] = h[i]
    BY <1>1, <1>5, <1>6
  <2> HIDE DEF h
  <2>4. QED
    BY <2>1, <2>2, <2>3, Extensional
<1>8. rdx = [i \in 1..(Len(a) + 1) |-> IF i > Len(a) THEN 0 ELSE (a[i] + rdx[i + 1] * LimbBase) % d]
  BY <1>7
<1> HIDE DEF rdx, h
<1>9. /\ rdx = [i \in 1..(n + 1) |-> rdx[i]] /\ rdx[n + 1] = 0
      /\ \A i \in 1..n : rdx[i] = (a[i] + rdx[i + 1] * B) % d
  BY <1>1, <1>6, <1>8
<1>10. \A i \in 1..(n + 1) : rdx[i] = r[i]
  <2> DEFINE S == { i \in 1..(n + 1) : rdx[i] = r[i] }
  <2>1. n + 1 \in S /\ 1 \in Int /\ n + 1 \in Int /\ 1 <= n + 1
    BY <1>1, <1>5, <1>6, <1>9
  <2>2. ASSUME NEW i \in Int, 1 <= i, i < n + 1, i + 1 \in S
        PROVE  i \in S
    <3>1. i \in 1..n
      BY <1>1, <2>2
    <3>2. QED
      BY <1>5, <1>6, <1>9, <2>2, <3>1
  <2>3. \A i \in Int : 1 <= i /\ i < n + 1 /\ i + 1 \in S => i \in S
    BY <2>2
  <2>4. 1..(n + 1) \subseteq S
    <3> HIDE DEF S
    <3>1. QED
      BY <2>1, <2>3, Downwards
  <2>5. QED
    BY <2>4
<1>11. \A i \in 1..n : q[i] = (a[i] + r[i + 1] * B) \div d
  BY <1>1, <1>6, <1>10
<1>12. q = [i \in 1..n |-> q[i]]
  BY <1>1
<1> HIDE DEF q
<1>13. /\ Digital(B, q, n) /\ r[1] \in 0..(d - 1)
       /\ Val(B, a, n) = d * Val(B, q, n) + r[1]
  <2>1. AreQuotients(B, q, a, r, n, d)
    BY <1>11 DEF AreQuotients
  <2>2. n \in Nat /\ B \in Base /\ Digital(B, a, n) /\ d \in Nat \ {0}
    BY <1>1, <1>2
  <2>3. QED
    BY <1>4, <2>1, <2>2, DividedVal
<1>14. q \in [1..n -> Limb] /\ rdx[1] = r[1] /\ r[1] \in Limb
  <2>1. q \in [1..n -> Limb]
    BY <1>12, <1>13 DEF Digital, Limb
  <2>2. r[1] \in Limb
    BY <1>2, <1>13, LongBase DEF Limb
  <2>3. QED
    BY <1>6, <1>10, <2>1, <2>2
<1>15. Front(LongDivideShort(a, d)) = q /\ Last(LongDivideShort(a, d)) = r[1]
  BY <1>1, <1>3, <1>14, FrontAndLast
<1>16. q \in LongNumber /\ LongValue(q) = Val(B, q, n) /\ LongValue(a) = Val(B, a, n)
  BY <1>1, <1>14, LongDigits, LongValueIs DEF LongNumber
<1>17. QED
  BY <1>13, <1>15, <1>16

\* A power of a larger base
LEMMA PowerLargerBase ==
    ASSUME NEW B \in Nat \ {0}, NEW C \in Nat, B <= C, NEW n \in Nat
    PROVE  Power(B, n) <= Power(C, n)
<1> DEFINE S == { i \in Nat : Power(B, i) <= Power(C, i) }
<1>1. 0 \in S /\ 0 \in Int /\ n \in Int /\ 0 <= n
  <2>1. Power(B, 0) = 1 /\ Power(C, 0) = 1
    BY PowerIs
  <2>2. QED
    BY <2>1
<1>2. ASSUME NEW i \in Int, 0 <= i, i < n, i \in S
      PROVE  i + 1 \in S
  <2>1. C \in Nat \ {0} /\ i \in Nat /\ i + 1 \in Nat
    BY <1>2
  <2>2. PICK p \in Nat, q \in Nat : p = Power(B, i) /\ q = Power(C, i)
    BY <2>1, PowerBase
  <2>3. Power(B, i + 1) = B * p /\ Power(C, i + 1) = C * q
    BY <2>1, <2>2, PowerIs
  <2>4. p <= q
    BY <1>2, <2>2
  <2>5. B * p <= B * q /\ B * q <= C * q
    BY <2>4
  <2>6. B * p \in Int /\ B * q \in Int /\ C * q \in Int
    OBVIOUS
  <2>7. B * p <= C * q
    BY <2>5, <2>6
  <2>8. QED
    BY <2>1, <2>3, <2>7
<1>3. \A i \in Int : 0 <= i /\ i < n /\ i \in S => i + 1 \in S
  BY <1>2
<1>4. 0..n \subseteq S
  <2> HIDE DEF S
  <2>1. QED
    BY <1>1, <1>3, Upwards
<1>5. n \in 0..n
  OBVIOUS
<1>6. QED
  BY <1>4, <1>5

\* A power of a power
LEMMA PowerOfPower ==
    ASSUME NEW B \in Nat \ {0}, NEW m \in Nat, NEW n \in Nat
    PROVE  Power(Power(B, m), n) = Power(B, m * n)
<1> DEFINE P == Power(B, m)
           S == { i \in Nat : Power(P, i) = Power(B, m * i) }
<1>1. P \in Nat \ {0}
  BY PowerBase
<1> HIDE DEF P
<1>2. 0 \in S /\ 0 \in Int /\ n \in Int /\ 0 <= n
  <2>1. Power(P, 0) = 1 /\ Power(B, 0) = 1 /\ m * 0 = 0
    BY <1>1, PowerIs
  <2>2. QED
    BY <2>1
<1>3. ASSUME NEW i \in Int, 0 <= i, i < n, i \in S
      PROVE  i + 1 \in S
  <2>1. i \in Nat /\ i + 1 \in Nat /\ m * i \in Nat /\ m * (i + 1) = m * i + m
    BY <1>3
  <2>2. PICK k \in Nat : k = m * i
    BY <2>1
  <2>3. Power(P, i + 1) = P * Power(P, i)
    BY <1>1, <2>1, PowerIs
  <2>4. Power(B, k + m) = Power(B, k) * P
    BY PowerMore DEF P
  <2>5. PICK q \in Nat : q = Power(B, k)
    BY PowerBase
  <2>6. P * q = q * P
    BY <1>1
  <2>7. Power(P, i) = q
    BY <1>3, <2>2, <2>5
  <2>8. QED
    BY <2>1, <2>2, <2>3, <2>4, <2>5, <2>6, <2>7
<1>4. \A i \in Int : 0 <= i /\ i < n /\ i \in S => i + 1 \in S
  BY <1>3
<1>5. 0..n \subseteq S
  <2> HIDE DEF S
  <2>1. QED
    BY <1>2, <1>4, Upwards
<1>6. n \in 0..n
  OBVIOUS
<1>7. QED
  BY <1>5, <1>6 DEF P

-----------------------------------------------------------------------------
(* Text: the remainders by a radix until the quotient is zero.             *)

\* v is divided by R again and again, r is what remains
AreRemainders(R, v, r, n) == \A i \in 1..n : v[i - 1] = R * v[i] + r[i]

\* After enough divisions nothing is left
LEMMA RunsOut ==
    ASSUME NEW R \in Base, NEW n \in Nat, NEW v \in [0..n -> Nat], NEW r \in [1..n -> 0..(R - 1)],
           AreRemainders(R, v, r, n), v[0] < Power(R, n)
    PROVE  v[n] = 0
<1> DEFINE S == { i \in 0..n : v[i] * Power(R, i) <= v[0] }
<1>1. 0 \in S /\ 0 \in Int /\ n \in Int /\ 0 <= n /\ n \in 0..n /\ 0 \in 0..n /\ R \in Nat \ {0} /\ R \in Int
  <2>1. 0 \in 0..n /\ n \in 0..n /\ R \in Int /\ R \in Nat \ {0}
    BY DEF Base
  <2>2. Power(R, 0) = 1
    BY <2>1, PowerIs
  <2>3. v[0] * 1 = v[0] /\ v[0] <= v[0]
    BY <2>1
  <2>4. QED
    BY <2>1, <2>2, <2>3
<1>2. ASSUME NEW i \in Int, 0 <= i, i < n, i \in S
      PROVE  i + 1 \in S
  <2>1. i \in Nat /\ i \in 0..n /\ i + 1 \in 0..n /\ i + 1 \in 1..n /\ i + 1 - 1 = i
    BY <1>2
  <2>2. PICK p \in Nat : p = Power(R, i)
    BY <1>1, <2>1, PowerBase
  <2>3. Power(R, i + 1) = R * p
    BY <1>1, <2>1, <2>2, PowerIs
  <2>4. PICK x \in Nat, y \in Nat, z \in Nat : x = v[i] /\ y = v[i + 1] /\ z = r[i + 1] /\ x = R * y + z
    <3>1. v[i] \in Nat /\ v[i + 1] \in Nat /\ r[i + 1] \in 0..(R - 1) /\ v[i + 1 - 1] = R * v[i + 1] + r[i + 1]
      BY <2>1 DEF AreRemainders
    <3>2. QED
      BY <1>1, <2>1, <3>1
  <2>5. R * y <= x /\ R * y \in Nat
    <3>1. R * y \in Nat
      BY <1>1
    <3>2. QED
      BY <2>4, <3>1
  <2>6. (R * y) * p <= x * p /\ (R * y) * p = y * (R * p) /\ x * p \in Int /\ (R * y) * p \in Int
    BY <1>1, <2>5
  <2>7. x * p <= v[0] /\ v[0] \in Int
    <3>1. v[i] * Power(R, i) <= v[0]
      BY <1>2
    <3>2. QED
      BY <1>1, <2>2, <2>4, <3>1
  <2>8. y * (R * p) <= v[0]
    BY <2>6, <2>7
  <2>9. QED
    BY <2>1, <2>3, <2>4, <2>8
<1>3. \A i \in Int : 0 <= i /\ i < n /\ i \in S => i + 1 \in S
  BY <1>2
<1>4. n \in S
  <2>1. 0..n \subseteq S
    <3> HIDE DEF S
    <3>1. QED
      BY <1>1, <1>3, Upwards
  <2>2. QED
    BY <1>1, <2>1
<1>5. PICK p \in Nat, x \in Nat, y \in Nat : p = Power(R, n) /\ x = v[n] /\ y = v[0] /\ x * p <= y /\ y < p
  BY <1>1, <1>4, PowerBase
<1>6. ~(1 <= x)
  <2>1. SUFFICES ASSUME 1 <= x PROVE FALSE
    OBVIOUS
  <2>2. 1 * p <= x * p
    BY <2>1
  <2>3. QED
    BY <1>5, <2>2
<1>7. QED
  BY <1>5, <1>6

\* The least of some numbers
LEMMA MinIs ==
    ASSUME NEW T \in SUBSET Nat, T # {}
    PROVE  Min(T) \in T /\ \A i \in T : Min(T) <= i
<1>1. \E m \in T : \A i \in T : m <= i
  BY Least
<1>2. QED
  BY <1>1 DEF Min

\* set_zero gives 0 and is_zero recognises it
LEMMA LongZeroIs ==
    /\ LongZero(Limbs) \in LongNumber /\ LongValue(LongZero(Limbs)) = 0
    /\ \A a \in LongNumber : LongIsZero(a) <=> LongValue(a) = 0
<1>1. LongZero(Limbs) \in LongNumber /\ \A j \in 1..Limbs : LongZero(Limbs)[j] = 0
  BY LongBase DEF LongZero, LongNumber
<1>2. LongValue(LongZero(Limbs)) = 0
  <2>1. Limbs \in Nat /\ LimbBase \in Int
    BY LongBase DEF Base
  <2>2. Val(LimbBase, LongZero(Limbs), Limbs) = 0
    BY <1>1, <2>1, ValZero
  <2>3. QED
    BY <1>1, <2>2, LongDigits, LongValueIs
<1>3. ASSUME NEW a \in LongNumber
      PROVE  LongIsZero(a) <=> LongValue(a) = 0
  <2>1. LongIsZero(a) <=> a = LongZero(Limbs)
    BY LongDigits DEF LongIsZero
  <2>2. LongValue(a) = 0 => a = LongZero(Limbs)
    BY <1>1, <1>2, LongUnique
  <2>3. QED
    BY <1>2, <2>1, <2>2
<1>4. QED
  BY <1>1, <1>2, <1>3

\* A long number is below the modulus
LEMMA LongBounds ==
    ASSUME NEW a \in LongNumber
    PROVE  LongValue(a) \in 0..(Modulus - 1) /\ LongValue(a) \in Nat
BY LongBase, LongDigits, LongValueIs, DigitsAreColumns

\* write_long: the quotients until zero, and the remainders backwards
LEMMA WriteLongIs ==
    ASSUME NEW a \in LongNumber
    PROVE  \E n \in Nat \ {0} : \E left \in [0..n -> LongNumber] :
             /\ WriteLong(a) \in [1..n -> 0..(Decimal - 1)]
             /\ left[0] = a /\ LongValue(left[n]) = 0
             /\ \A i \in 1..n : LongValue(left[i - 1]) = Decimal * LongValue(left[i]) + WriteLong(a)[n + 1 - i]
             /\ n # 1 => LongValue(left[n - 1]) # 0
<1> DEFINE K == LimbText * Limbs
           step == [i \in 1..K |-> [x \in LongNumber |-> Front(LongDivideShort(x, Decimal))]]
           left == CHOOSE left : left = [k \in 0..(LimbText * Len(a)) |->
                      IF k = 0 THEN a ELSE Front(LongDivideShort(left[k - 1], Decimal))]
           turns == Min({ k \in 1..(LimbText * Len(a)) : LongIsZero(left[k]) })
           text == WriteLong(a)
<1>1. Len(a) = Limbs /\ K \in Nat \ {0} /\ K \in Nat
  <2>1. Limbs \in Nat \ {0} /\ LimbText \in Nat \ {0}
    BY LongBase
  <2>2. QED
    BY <2>1, LongDigits
<1>2. Decimal \in Limb \ {0} /\ Decimal \in Base
  <2>1. 0 \notin Base
    BY DEF Base
  <2>2. QED
    BY <2>1, LongBase
<1>3. /\ step \in [1..K -> [LongNumber -> LongNumber]]
      /\ \A i \in 1..K, x \in LongNumber : step[i][x] = Front(LongDivideShort(x, Decimal))
  BY <1>2, LongDivideShortIs
<1> HIDE DEF step
<1>4. PICK f \in [0..K -> LongNumber] : f[0] = a /\ \A i \in 1..K : f[i] = step[i][f[i - 1]]
  <2>1. Rising(K, LongNumber, a, step) # {}
    BY <1>1, <1>3, RecursionUp
  <2>2. QED
    BY <2>1 DEF Rising
<1>5. LimbText * Len(a) = K
  BY <1>1
<1>6. text = [i \in 1..turns |-> Last(LongDivideShort(left[turns - i], Decimal))]
  BY DEF WriteLong
<1>7. turns = Min({ k \in 1..K : LongIsZero(left[k]) })
  BY <1>5
<1> HIDE DEF turns, text
<1> DEFINE h == [k \in 0..(LimbText * Len(a)) |-> IF k = 0 THEN a ELSE Front(LongDivideShort(f[k - 1], Decimal))]
<1>8. f = h
  <2>1. f = [k \in 0..K |-> f[k]]
    BY <1>4
  <2>2. h = [k \in 0..K |-> h[k]]
    BY <1>5
  <2>3. \A k \in 0..K : f[k] = h[k]
    <3>1. ASSUME NEW k \in 0..K, k # 0
          PROVE  f[k] = Front(LongDivideShort(f[k - 1], Decimal))
      <4>1. k \in 1..K /\ k - 1 \in 0..K
        BY <1>1, <3>1
      <4>2. QED
        BY <1>3, <1>4, <4>1
    <3>2. QED
      BY <1>4, <1>5, <3>1
  <2> HIDE DEF h, K
  <2>4. QED
    BY <2>1, <2>2, <2>3, Extensional
<1>9. left = [k \in 0..(LimbText * Len(a)) |-> IF k = 0 THEN a ELSE Front(LongDivideShort(left[k - 1], Decimal))]
  BY <1>8
<1> HIDE DEF left, h
<1>10. /\ left = [k \in 0..K |-> left[k]] /\ left[0] = a
       /\ \A k \in 1..K : left[k] = Front(LongDivideShort(left[k - 1], Decimal))
  <2>1. 0 \in 0..K /\ \A k \in 1..K : k \in 0..K /\ k # 0
    BY <1>1
  <2>2. left = [k \in 0..K |-> IF k = 0 THEN a ELSE Front(LongDivideShort(left[k - 1], Decimal))]
    BY <1>5, <1>9
  <2> HIDE DEF K
  <2>3. QED
    BY <2>1, <2>2
<1> HIDE DEF K
<1>11. left \in [0..K -> LongNumber]
  <2> DEFINE S == { k \in 0..K : left[k] \in LongNumber }
  <2>1. 0 \in S /\ 0 \in Int /\ K \in Int /\ 0 <= K
    BY <1>1, <1>10
  <2>2. ASSUME NEW k \in Int, 0 <= k, k < K, k \in S
        PROVE  k + 1 \in S
    <3>1. k + 1 \in 1..K /\ k + 1 \in 0..K /\ k + 1 - 1 = k
      BY <1>1, <2>2
    <3>2. left[k + 1] = Front(LongDivideShort(left[k], Decimal))
      BY <1>10, <3>1
    <3>3. QED
      BY <1>2, <2>2, <3>1, <3>2, LongDivideShortIs
  <2>3. \A k \in Int : 0 <= k /\ k < K /\ k \in S => k + 1 \in S
    BY <2>2
  <2>4. 0..K \subseteq S
    <3> HIDE DEF S
    <3>1. QED
      BY <2>1, <2>3, Upwards
  <2>5. QED
    BY <1>10, <2>4
<1> DEFINE rest == [i \in 1..K |-> Last(LongDivideShort(left[i - 1], Decimal))]
           value == [i \in 0..K |-> LongValue(left[i])]
<1>12. /\ rest \in [1..K -> 0..(Decimal - 1)]
       /\ \A i \in 1..K : rest[i] = Last(LongDivideShort(left[i - 1], Decimal))
  <2>1. ASSUME NEW i \in 1..K
        PROVE  Last(LongDivideShort(left[i - 1], Decimal)) \in 0..(Decimal - 1)
    <3>1. i - 1 \in 0..K
      BY <1>1
    <3>2. QED
      BY <1>2, <1>11, <3>1, LongDivideShortIs
  <2>2. QED
    BY <2>1
<1>13. value \in [0..K -> Nat] /\ \A i \in 0..K : value[i] = LongValue(left[i])
  BY <1>11, LongBounds
<1> HIDE DEF rest, value
<1>14. ASSUME NEW i \in 1..K
       PROVE  LongValue(left[i - 1]) = Decimal * LongValue(left[i]) + rest[i]
  <2>1. i - 1 \in 0..K /\ i \in 0..K
    BY <1>1
  <2>2. left[i - 1] \in LongNumber
    BY <1>11, <2>1
  <2>3. LongValue(left[i - 1]) = Decimal * LongValue(Front(LongDivideShort(left[i - 1], Decimal))) + Last(LongDivideShort(left[i - 1], Decimal))
    BY <1>2, <2>2, LongDivideShortIs
  <2>4. QED
    BY <1>10, <1>12, <2>3
<1>15. AreRemainders(Decimal, value, rest, K)
  <2>1. \A i \in 1..K : i - 1 \in 0..K /\ i \in 0..K
    BY <1>1
  <2>2. QED
    BY <1>13, <1>14, <2>1 DEF AreRemainders
<1>16. LongValue(left[K]) = 0
  <2>1. value[0] < Power(Decimal, K)
    <3>1. value[0] = LongValue(a) /\ LongValue(a) < Power(LimbBase, Limbs)
      <4>1. 0 \in 0..K
        BY <1>1
      <4>2. LongValue(a) < Modulus
        BY LongBounds, LongBase
      <4>3. QED
        BY <1>10, <1>13, <4>1, <4>2, LongBase
    <3>2. Power(LimbBase, Limbs) <= Power(Power(Decimal, LimbText), Limbs)
      <4>1. Power(Decimal, LimbText) \in Nat /\ LimbBase <= Power(Decimal, LimbText)
        <5>1. Decimal \in Nat \ {0} /\ LimbText \in Nat
          BY LongBase DEF Base
        <5>2. QED
          BY <5>1, PowerBase, LongAssumption
      <4>2. QED
        BY <4>1, LongBase, PowerLargerBase
    <3>3. Power(Power(Decimal, LimbText), Limbs) = Power(Decimal, K)
      <4>1. Decimal \in Nat \ {0} /\ LimbText \in Nat /\ Limbs \in Nat
        BY LongBase DEF Base
      <4>2. QED
        BY <4>1, PowerOfPower DEF K
    <3>4. Power(LimbBase, Limbs) \in Int /\ Power(Decimal, K) \in Int /\ LongValue(a) \in Int
      <4>1. Decimal \in Int
        BY LongBase DEF Base
      <4>2. QED
        BY <1>1, <4>1, LongBase, LongBounds, PowerInt
    <3>5. QED
      BY <3>1, <3>2, <3>3, <3>4
  <2>2. value[K] = 0
    BY <1>1, <1>2, <1>12, <1>13, <1>15, <2>1, RunsOut
  <2>3. K \in 0..K
    BY <1>1
  <2>4. QED
    BY <1>13, <2>2, <2>3
<1> DEFINE T == { k \in 1..K : LongIsZero(left[k]) }
<1>17. turns \in T /\ \A k \in T : turns <= k
  <2>1. T \in SUBSET Nat
    BY <1>1
  <2>2. K \in T
    <3>1. K \in 1..K /\ K \in 0..K
      BY <1>1
    <3>2. left[K] \in LongNumber
      BY <1>11, <3>1
    <3>3. QED
      BY <1>16, <3>1, <3>2, LongZeroIs
  <2> HIDE DEF T
  <2>3. Min(T) \in T /\ \A k \in T : Min(T) <= k
    BY <2>1, <2>2, MinIs
  <2>4. QED
    BY <1>7, <2>3 DEF T
<1>18. turns \in Nat \ {0} /\ turns \in 1..K /\ turns \in 0..K
  BY <1>1, <1>17
<1>19. LongValue(left[turns]) = 0
  BY <1>11, <1>17, <1>18, LongZeroIs
<1>20. turns # 1 => LongValue(left[turns - 1]) # 0
  <2>1. SUFFICES ASSUME turns # 1, LongValue(left[turns - 1]) = 0 PROVE FALSE
    OBVIOUS
  <2>2. turns - 1 \in 1..K /\ turns - 1 \in 0..K /\ ~(turns <= turns - 1)
    BY <1>1, <1>18, <2>1
  <2>3. left[turns - 1] \in LongNumber
    BY <1>11, <2>2
  <2>4. turns - 1 \in T
    BY <2>1, <2>2, <2>3, LongZeroIs
  <2>5. QED
    BY <1>17, <2>2, <2>4
<1> HIDE DEF T
<1> DEFINE before == [k \in 0..turns |-> left[k]]
<1>21. /\ before \in [0..turns -> LongNumber] /\ before[0] = a /\ before[turns] = left[turns]
       /\ before[turns - 1] = left[turns - 1]
       /\ \A i \in 1..turns : before[i] = left[i] /\ before[i - 1] = left[i - 1] /\ i \in 1..K
  <2>1. /\ \A k \in 0..turns : k \in 0..K
        /\ \A i \in 1..turns : i \in 0..turns /\ i - 1 \in 0..turns /\ i \in 1..K
        /\ 0 \in 0..turns /\ turns \in 0..turns /\ turns - 1 \in 0..turns
    BY <1>1, <1>18
  <2>2. QED
    BY <1>10, <1>11, <2>1
<1> HIDE DEF before
<1>22. ASSUME NEW i \in 1..turns
       PROVE  text[turns + 1 - i] = rest[i] /\ text[i] = rest[turns + 1 - i]
  <2>1. /\ turns + 1 - i \in 1..turns /\ turns - (turns + 1 - i) = i - 1 /\ i \in 1..K
        /\ turns + 1 - i \in 1..K
    BY <1>1, <1>18
  <2>2. text[turns + 1 - i] = Last(LongDivideShort(left[i - 1], Decimal))
    <3>1. text[turns + 1 - i] = Last(LongDivideShort(left[turns - (turns + 1 - i)], Decimal))
      BY <1>6, <2>1
    <3>2. QED
      BY <2>1, <3>1
  <2>3. rest[i] = Last(LongDivideShort(left[i - 1], Decimal))
    BY <1>12, <2>1
  <2>4. rest[turns + 1 - i] = text[i]
    <3>1. PICK j \in 1..K : j = turns + 1 - i
      BY <2>1
    <3>2. rest[j] = Last(LongDivideShort(left[j - 1], Decimal))
      BY <1>12
    <3>3. turns - i = j - 1
      BY <1>18, <3>1
    <3>4. text[i] = Last(LongDivideShort(left[j - 1], Decimal))
      BY <1>6, <3>3
    <3>5. QED
      BY <3>1, <3>2, <3>4
  <2>5. QED
    BY <2>2, <2>3, <2>4
<1>23. text \in [1..turns -> 0..(Decimal - 1)]
  <2>1. \A i \in 1..turns : turns + 1 - i \in 1..K
    BY <1>1, <1>18
  <2>2. \A i \in 1..turns : text[i] \in 0..(Decimal - 1)
    BY <1>12, <1>22, <2>1
  <2>3. text = [i \in 1..turns |-> text[i]]
    BY <1>6
  <2>4. QED
    BY <2>2, <2>3
<1>24. \A i \in 1..turns : LongValue(before[i - 1]) = Decimal * LongValue(before[i]) + text[turns + 1 - i]
  BY <1>14, <1>21, <1>22
<1>25. /\ turns \in Nat \ {0} /\ before \in [0..turns -> LongNumber]
       /\ text \in [1..turns -> 0..(Decimal - 1)]
       /\ before[0] = a /\ LongValue(before[turns]) = 0
       /\ turns # 1 => LongValue(before[turns - 1]) # 0
  BY <1>18, <1>19, <1>20, <1>21, <1>23
<1>26. QED
  BY <1>24, <1>25 DEF text

\* What is less than the modulus
LEMMA ModSmall ==
    ASSUME NEW B \in Nat \ {0}, NEW x \in 0..(B - 1)
    PROVE  x % B = x /\ x \div B = 0
<1>1. x = B * 0 + x /\ B \in Nat \ {0} /\ x \in Int
  OBVIOUS
<1>2. QED
  BY <1>1, DivModUnique

\* read_long of digits: a prefix that has a value in the width is read as this value
LEMMA ReadLongIs ==
    ASSUME NEW n \in Nat \ {0}, NEW text \in [1..n -> 0..(Decimal - 1)],
           NEW w \in [0..n -> 0..(Modulus - 1)], w[0] = 0,
           \A i \in 1..n : w[i] = Decimal * w[i - 1] + text[i]
    PROVE  ReadLong(text) \in LongNumber /\ LongValue(ReadLong(text)) = w[n]
<1> DEFINE step == [i \in 1..n |-> [x \in LongNumber |-> LongPlusShort(LongTimesShort(x, Decimal), text[i])]]
           a == CHOOSE a : a = [k \in 0..Len(text) |->
                   IF k = 0 THEN LongZero(Limbs)
                   ELSE LongPlusShort(LongTimesShort(a[k - 1], Decimal), text[k])]
<1>1. Len(text) = n /\ n \in Nat /\ Decimal \in Limb /\ Decimal \in Nat /\ Modulus \in Nat \ {0}
  BY LongBase, SequenceIs DEF Base
<1>2. \A i \in 1..n : text[i] \in Limb /\ text[i] \in Nat
  <2>1. 0..(Decimal - 1) \subseteq Limb
    BY <1>1, LongBase DEF Limb
  <2>2. \A i \in 1..n : text[i] \in 0..(Decimal - 1)
    OBVIOUS
  <2>3. 0..(Decimal - 1) \subseteq Nat
    BY <1>1
  <2>4. QED
    BY <2>1, <2>2, <2>3
<1>3. ASSUME NEW x \in LongNumber, NEW d \in Limb
      PROVE  /\ LongPlusShort(LongTimesShort(x, Decimal), d) \in LongNumber
             /\ LongValue(LongPlusShort(LongTimesShort(x, Decimal), d)) = (((LongValue(x) * Decimal) % Modulus) + d) % Modulus
  <2>1. LongTimesShort(x, Decimal) \in LongNumber /\ LongValue(LongTimesShort(x, Decimal)) = (LongValue(x) * Decimal) % Modulus
    BY <1>1, LongTimesShortIs
  <2>2. QED
    BY <2>1, LongPlusShortIs
<1>4. /\ step \in [1..n -> [LongNumber -> LongNumber]]
      /\ \A i \in 1..n, x \in LongNumber : step[i][x] = LongPlusShort(LongTimesShort(x, Decimal), text[i])
  BY <1>2, <1>3
<1> HIDE DEF step
<1>5. PICK f \in [0..n -> LongNumber] : f[0] = LongZero(Limbs) /\ \A i \in 1..n : f[i] = step[i][f[i - 1]]
  <2>1. Rising(n, LongNumber, LongZero(Limbs), step) # {}
    BY <1>1, <1>4, LongZeroIs, RecursionUp
  <2>2. QED
    BY <2>1 DEF Rising
<1>6. /\ \A i \in 1..n : i \in 0..n /\ i - 1 \in 0..n /\ i # 0
      /\ \A i \in 0..n : i # 0 => i \in 1..n
      /\ 0 \in 0..n /\ n \in 0..n
  OBVIOUS
<1>7. \A i \in 1..n : f[i] = LongPlusShort(LongTimesShort(f[i - 1], Decimal), text[i])
  BY <1>4, <1>5, <1>6
<1> DEFINE h == [k \in 0..Len(text) |->
                   IF k = 0 THEN LongZero(Limbs)
                   ELSE LongPlusShort(LongTimesShort(f[k - 1], Decimal), text[k])]
<1>8. f = h
  <2>1. f = [k \in 0..n |-> f[k]]
    BY <1>5
  <2>2. h = [k \in 0..n |-> h[k]] /\ \A k \in 0..n : f[k] = h[k]
    BY <1>1, <1>5, <1>6, <1>7
  <2> HIDE DEF h
  <2>3. QED
    BY <2>1, <2>2, Extensional
<1>9. a = [k \in 0..Len(text) |-> IF k = 0 THEN LongZero(Limbs)
                                  ELSE LongPlusShort(LongTimesShort(a[k - 1], Decimal), text[k])]
  BY <1>8
<1>10. ReadLong(text) = a[n]
  BY <1>1 DEF ReadLong
<1> HIDE DEF a, h
<1>11. a[0] = LongZero(Limbs) /\ \A k \in 1..n : a[k] = LongPlusShort(LongTimesShort(a[k - 1], Decimal), text[k])
  BY <1>1, <1>6, <1>9
<1> DEFINE S == { k \in 0..n : a[k] \in LongNumber /\ LongValue(a[k]) = w[k] }
<1>12. 0 \in S /\ 0 \in Int /\ n \in Int /\ 0 <= n
  BY <1>6, <1>11, LongZeroIs
<1>13. ASSUME NEW k \in Int, 0 <= k, k < n, k \in S
       PROVE  k + 1 \in S
  <2>1. k + 1 \in 1..n /\ k + 1 \in 0..n /\ k \in 0..n /\ k + 1 - 1 = k
    BY <1>13
  <2>2. a[k + 1] = LongPlusShort(LongTimesShort(a[k], Decimal), text[k + 1])
    BY <1>11, <2>1
  <2>3. PICK x \in 0..(Modulus - 1), y \in 0..(Modulus - 1), d \in Nat :
             /\ x = w[k] /\ y = w[k + 1] /\ d = text[k + 1] /\ y = Decimal * x + d
    <3>1. w[k] \in 0..(Modulus - 1) /\ w[k + 1] \in 0..(Modulus - 1) /\ text[k + 1] \in Nat
      BY <1>2, <2>1
    <3>2. w[k + 1] = Decimal * w[k + 1 - 1] + text[k + 1]
      BY <2>1
    <3>3. QED
      BY <2>1, <3>1, <3>2
  <2>4. /\ a[k + 1] \in LongNumber
        /\ LongValue(a[k + 1]) = (((x * Decimal) % Modulus) + d) % Modulus
    BY <1>2, <1>3, <1>13, <2>1, <2>2, <2>3
  <2>5. PICK z \in Int : z = x * Decimal
    BY <1>1
  <2>6. z \in 0..(Modulus - 1) /\ z + d = y
    <3>1. Decimal * x = z
      BY <1>1, <2>5
    <3>2. 0 <= z
      BY <1>1, <2>5
    <3>3. y = z + d
      BY <2>3, <3>1
    <3>4. z <= Modulus - 1
      BY <1>1, <3>3
    <3>5. QED
      BY <1>1, <3>2, <3>3, <3>4
  <2>7. \A t \in 0..(Modulus - 1) : t % Modulus = t
    BY <1>1, ModSmall
  <2>8. z % Modulus = z /\ y % Modulus = y
    BY <2>6, <2>7
  <2>9. LongValue(a[k + 1]) = y
    BY <2>4, <2>5, <2>6, <2>8
  <2>10. QED
    BY <2>1, <2>3, <2>4, <2>9
<1>14. \A k \in Int : 0 <= k /\ k < n /\ k \in S => k + 1 \in S
  BY <1>13
<1>15. 0..n \subseteq S
  <2> HIDE DEF S
  <2>1. QED
    BY <1>12, <1>14, Upwards
<1>16. QED
  BY <1>6, <1>10, <1>15

\* Every number of the assembler's programs is printed as text without leading zeros that
\* is read as the number (multiply.asm:257-333)
THEOREM LongTextIsReadBack ==
    ASSUME NEW a \in LongNumber
    PROVE  LongRoundTrip(a)
<1> DEFINE text == WriteLong(a)
<1>1. PICK n \in Nat \ {0} : \E left \in [0..n -> LongNumber] :
        /\ text \in [1..n -> 0..(Decimal - 1)]
        /\ left[0] = a /\ LongValue(left[n]) = 0
        /\ \A i \in 1..n : LongValue(left[i - 1]) = Decimal * LongValue(left[i]) + text[n + 1 - i]
        /\ n # 1 => LongValue(left[n - 1]) # 0
  BY WriteLongIs
<1>2. PICK left \in [0..n -> LongNumber] :
        /\ text \in [1..n -> 0..(Decimal - 1)]
        /\ left[0] = a /\ LongValue(left[n]) = 0
        /\ \A i \in 1..n : LongValue(left[i - 1]) = Decimal * LongValue(left[i]) + text[n + 1 - i]
        /\ n # 1 => LongValue(left[n - 1]) # 0
  BY <1>1
<1> HIDE DEF text
<1> DEFINE w == [i \in 0..n |-> LongValue(left[n - i])]
<1>3. /\ \A i \in 0..n : n - i \in 0..n
      /\ \A i \in 1..n : /\ i \in 0..n /\ i - 1 \in 0..n
                         /\ n - i = n + 1 - i - 1 /\ n - (i - 1) = n + 1 - i /\ n + 1 - i \in 1..n
                         /\ n + 1 - (n + 1 - i) = i
      /\ n - 0 = n /\ n - n = 0 /\ 0 \in 0..n /\ n \in 0..n
  OBVIOUS
<1>4. w \in [0..n -> 0..(Modulus - 1)] /\ \A i \in 0..n : w[i] = LongValue(left[n - i])
  BY <1>3, LongBounds
<1> HIDE DEF w
<1>5. ASSUME NEW i \in 1..n
      PROVE  w[i] = Decimal * w[i - 1] + text[i]
  <2>1. PICK j \in 1..n : j = n + 1 - i
    BY <1>3
  <2>2. LongValue(left[j - 1]) = Decimal * LongValue(left[j]) + text[n + 1 - j]
    BY <1>2
  <2>3. w[i] = LongValue(left[j - 1]) /\ w[i - 1] = LongValue(left[j]) /\ n + 1 - j = i
    BY <1>3, <1>4, <2>1
  <2>4. QED
    BY <2>2, <2>3
<1>6. w[0] = 0 /\ w[n] = LongValue(a)
  BY <1>2, <1>3, <1>4
<1>7. ReadLong(text) \in LongNumber /\ LongValue(ReadLong(text)) = w[n]
  BY <1>2, <1>4, <1>5, <1>6, ReadLongIs
<1>8. ReadLong(text) = a
  BY <1>6, <1>7, LongUnique
<1>9. text[1] = 0 => Len(text) = 1
  <2>1. SUFFICES ASSUME text[1] = 0, n # 1 PROVE FALSE
    BY <1>2, SequenceIs
  <2>2. w[1] = Decimal * w[0] + text[1]
    <3>1. 1 \in 1..n /\ 1 - 1 = 0
      OBVIOUS
    <3>2. QED
      BY <1>5, <3>1
  <2>3. w[1] = 0
    <3>1. Decimal * 0 = 0
      BY LongBase DEF Base
    <3>2. QED
      BY <1>6, <2>1, <2>2, <3>1
  <2>4. w[1] = LongValue(left[n - 1])
    <3>1. 1 \in 0..n
      OBVIOUS
    <3>2. QED
      BY <1>4, <3>1
  <2>5. QED
    BY <1>2, <2>1, <2>3, <2>4
<1>10. QED
  BY <1>8, <1>9 DEF LongRoundTrip, text

-----------------------------------------------------------------------------
(* checked<T> for a type of any width: the runs try the operands of one    *)
(* width, the theorems are about all operands of all widths.               *)

\* A power of two is a natural number other than zero: it counts the subsets of a set
LEMMA PowerPositive ==
    ASSUME NEW n \in Nat
    PROVE  2^n \in Nat \ {0}
<1>1. IsFiniteSet(1..n) /\ Cardinality(1..n) = n
  BY FS_Interval
<1>2. IsFiniteSet(SUBSET (1..n)) /\ Cardinality(SUBSET (1..n)) = 2^n
  BY <1>1, FS_SUBSET
<1>3. SUBSET (1..n) # {}
  OBVIOUS
<1>4. QED
  BY <1>2, <1>3, FS_CardinalityType, FS_EmptySet

\* The bounds of the types
LEMMA Bounds ==
    /\ SMax \in Nat /\ SMin = -SMax - 1
    /\ UMax \in Nat
<1>1. Width \in Nat /\ Width - 1 \in Nat
  BY CheckedAssumption
<1>2. 2^(Width - 1) \in Nat \ {0} /\ 2^Width \in Nat \ {0}
  BY <1>1, PowerPositive
<1>3. \A n \in Nat \ {0} : n - 1 \in Nat /\ -n = -(n - 1) - 1
  OBVIOUS
<1>4. QED
  BY <1>2, <1>3 DEF SMax, SMin, UMax

\* Which integers the types have
LEMMA Types ==
    ASSUME NEW i
    PROVE  /\ i \in SignedType <=> i \in Int /\ -SMax - 1 <= i /\ i <= SMax
           /\ i \in UnsignedType <=> i \in Nat /\ i <= UMax
BY Bounds DEF SignedType, UnsignedType

\* What an operation that was tested ends with
LEMMA Tested ==
    ASSUME NEW T, NEW i, NEW r,
           \/ r = ResultIn(T, i) /\ i \in T
           \/ r = Throwing /\ i \notin T
    PROVE  Checks(r, i) /\ (r = Throwing <=> i \notin T)
BY DEF ResultIn, Checks, Returns, Throwing

\* The test of a product by a quotient (checked.cpp:161)
LEMMA ProductTest ==
    ASSUME NEW a \in Nat, NEW b \in Nat \ {0}, NEW m \in Nat
    PROVE  a > m \div b <=> a * b > m
<1>1. a <= m \div b => a * b <= m
  OBVIOUS
<1>2. a > m \div b => a * b > m
  OBVIOUS
<1>3. m \div b \in Nat /\ a * b \in Nat
  OBVIOUS
<1>4. QED
  BY <1>1, <1>2, <1>3

\* A quotient is not further from zero than the dividend, and nearer if the divisor is
\* not one
LEMMA QuotientBound ==
    ASSUME NEW a \in Nat, NEW b \in Nat \ {0}
    PROVE  /\ a \div b \in Nat /\ a \div b <= a
           /\ b # 1 /\ a # 0 => a \div b < a
           /\ b = 1 => a \div b = a
<1>1. a \div b \in Nat /\ a \div b <= a
  OBVIOUS
<1>2. b # 1 /\ a # 0 => a \div b < a
  OBVIOUS
<1>3. b = 1 => a \div b = a
  OBVIOUS
<1>4. QED
  BY <1>1, <1>2, <1>3

\* The absolute value of a product
LEMMA AbsProduct ==
    ASSUME NEW a \in Int, NEW b \in Int
    PROVE  /\ AbsVal(a) \in Nat /\ AbsVal(b) \in Nat /\ AbsVal(a * b) = AbsVal(a) * AbsVal(b)
           /\ a # 0 => AbsVal(a) # 0
<1>1. CASE a < 0 /\ b < 0
  <2>1. a * b = (-a) * (-b) /\ (-a) * (-b) >= 0
    BY <1>1
  <2>2. QED
    BY <1>1, <2>1 DEF AbsVal
<1>2. CASE a < 0 /\ b >= 0
  <2>1. a * b = -((-a) * b) /\ (-a) * b >= 0
    BY <1>2
  <2>2. QED
    BY <1>2, <2>1 DEF AbsVal
<1>3. CASE a >= 0 /\ b < 0
  <2>1. a * b = -(a * (-b)) /\ a * (-b) >= 0
    BY <1>3
  <2>2. QED
    BY <1>3, <2>1 DEF AbsVal
<1>4. CASE a >= 0 /\ b >= 0
  <2>1. a * b >= 0
    BY <1>4
  <2>2. QED
    BY <1>4, <2>1 DEF AbsVal
<1>5. QED
  BY <1>1, <1>2, <1>3, <1>4

-----------------------------------------------------------------------------
(* The operations.                                                         *)

\* Sums: one with a positive right operand throws whatever it is (checked.cpp:112)
LEMMA AddSignedCorrect ==
    ASSUME NEW a \in SignedType, NEW b \in SignedType
    PROVE  /\ Checks(AddSigned(a, b), a + b)
           /\ AddSigned(a, b) = Throwing <=> b > 0 \/ a + b \notin SignedType
<1>1. a \in Int /\ b \in Int /\ SMax \in Nat /\ SMin = -SMax - 1 /\ a <= SMax
  BY Bounds, Types
<1>2. CASE b > 0
  BY <1>1, <1>2 DEF AddSigned, Checks
<1>3. CASE b <= 0
  <2>1. b < 0 /\ a < SMin - b <=> a + b \notin SignedType
    BY <1>1, <1>3, Types
  <2>2. \/ AddSigned(a, b) = ResultIn(SignedType, a + b) /\ a + b \in SignedType
        \/ AddSigned(a, b) = Throwing /\ a + b \notin SignedType
    BY <1>1, <1>3, <2>1 DEF AddSigned
  <2>3. QED
    BY <1>1, <1>3, <2>2, Tested
<1>4. QED
  BY <1>1, <1>2, <1>3

\* Differences
LEMMA SubSignedCorrect ==
    ASSUME NEW a \in SignedType, NEW b \in SignedType
    PROVE  /\ Checks(SubSigned(a, b), a - b)
           /\ SubSigned(a, b) = Throwing <=> a - b \notin SignedType
<1>1. /\ a \in Int /\ b \in Int /\ SMax \in Nat /\ SMin = -SMax - 1
      /\ -SMax - 1 <= a /\ a <= SMax
  BY Bounds, Types
<1>2. (b < 0 /\ a > SMax + b) \/ (b > 0 /\ a < SMin + b) <=> a - b \notin SignedType
  BY <1>1, Types
<1>3. \/ SubSigned(a, b) = ResultIn(SignedType, a - b) /\ a - b \in SignedType
      \/ SubSigned(a, b) = Throwing /\ a - b \notin SignedType
  BY <1>2 DEF SubSigned
<1>4. QED
  BY <1>3, Tested

\* Products: the absolute value of the least int is not defined, and the least value as
\* a product throws (checked.cpp:161)
LEMMA MulSignedCorrect ==
    ASSUME NEW a \in SignedType, NEW b \in SignedType, NEW narrow \in BOOLEAN,
           narrow \/ SMin \notin {a, b}
    PROVE  /\ Checks(MulSigned(narrow, a, b), a * b)
           /\ MulSigned(narrow, a, b) = Throwing <=> a * b \notin SignedType \ {SMin}
<1>1. a \in Int /\ b \in Int /\ SMax \in Nat /\ SMin = -SMax - 1
  BY Bounds, Types
<1>2. AbsDefined(narrow, a) /\ AbsDefined(narrow, b)
  BY DEF AbsDefined
<1>3. a * b \in Int
  BY <1>1
<1>4. PICK p \in Int : p = a * b
  BY <1>3
<1>5. CASE a = 0 \/ b = 0
  <2>1. p = 0 /\ p \in SignedType /\ p # SMin
    BY <1>1, <1>4, <1>5, Types
  <2>2. MulSigned(narrow, a, b) = ResultIn(SignedType, p)
    BY <1>4, <1>5 DEF MulSigned
  <2>3. QED
    BY <1>4, <2>1, <2>2, Tested
<1>6. CASE a # 0 /\ b # 0
  <2>1. /\ AbsVal(a) \in Nat /\ AbsVal(b) \in Nat \ {0}
        /\ AbsVal(p) = AbsVal(a) * AbsVal(b)
    BY <1>1, <1>4, <1>6, AbsProduct
  <2>2. AbsVal(a) > SMax \div AbsVal(b) <=> AbsVal(p) > SMax
    BY <1>1, <2>1, ProductTest
  <2>3. CASE AbsVal(p) > SMax
    <3>1. MulSigned(narrow, a, b) = Throwing
      BY <1>2, <1>6, <2>2, <2>3 DEF MulSigned
    <3>2. p \in SignedType => p = SMin
      BY <1>1, <2>3, Types DEF AbsVal
    <3>3. QED
      BY <1>4, <3>1, <3>2 DEF Checks
  <2>4. CASE ~(AbsVal(p) > SMax)
    <3>1. MulSigned(narrow, a, b) = ResultIn(SignedType, p)
      BY <1>2, <1>4, <1>6, <2>2, <2>4 DEF MulSigned
    <3>2. p \in SignedType /\ p # SMin
      BY <1>1, <2>4, Types DEF AbsVal
    <3>3. QED
      BY <1>4, <3>1, <3>2, Tested
  <2>5. QED
    BY <2>3, <2>4
<1>7. QED
  BY <1>5, <1>6

\* Quotients by what is not zero: only the least value by -1 does not fit
LEMMA DivSignedCorrect ==
    ASSUME NEW a \in SignedType, NEW b \in SignedType, b # 0
    PROVE  /\ Checks(DivSigned(a, b), Quotient(a, b))
           /\ DivSigned(a, b) = Throwing <=> Quotient(a, b) \notin SignedType
<1>1. /\ a \in Int /\ b \in Int /\ SMax \in Nat /\ SMin = -SMax - 1
      /\ -SMax - 1 <= a /\ a <= SMax
  BY Bounds, Types
<1>2. /\ AbsVal(a) \in Nat /\ AbsVal(b) \in Nat \ {0}
      /\ AbsVal(a) <= SMax + 1 /\ (AbsVal(a) = SMax + 1 => a = SMin)
      /\ (AbsVal(b) = 1 => b = 1 \/ b = -1)
  BY <1>1 DEF AbsVal
<1>3. PICK q \in Nat : q = AbsVal(a) \div AbsVal(b)
  BY <1>2, QuotientBound
<1>4. /\ q <= AbsVal(a)
      /\ AbsVal(b) # 1 /\ AbsVal(a) # 0 => q < AbsVal(a)
      /\ AbsVal(b) = 1 => q = AbsVal(a)
  BY <1>2, <1>3, QuotientBound
<1>5. Quotient(a, b) = IF (a < 0) = (b < 0) THEN q ELSE -q
  BY <1>3 DEF Quotient
<1>6. b = -1 /\ a = SMin <=> Quotient(a, b) \notin SignedType
  <2>1. ASSUME b = -1, a = SMin
        PROVE  Quotient(a, b) \notin SignedType
    <3>0. b + 1 = 0 /\ a + SMax + 1 = 0
      BY <1>1, <2>1
    <3>1. AbsVal(b) = 1 /\ AbsVal(a) = SMax + 1 /\ a < 0 /\ b < 0
      <4>1. \A i \in Int : i + 1 = 0 => i < 0 /\ AbsVal(i) = 1
        BY DEF AbsVal
      <4>2. \A i \in Int, m \in Nat : i + m + 1 = 0 => i < 0 /\ AbsVal(i) = m + 1
        BY DEF AbsVal
      <4>3. QED
        BY <1>1, <3>0, <4>1, <4>2
    <3>2. Quotient(a, b) = SMax + 1
      BY <1>4, <1>5, <3>1
    <3>3. QED
      BY <1>1, <3>2, Types
  <2>2. ASSUME ~(b = -1 /\ a = SMin)
        PROVE  Quotient(a, b) \in SignedType
    <3>1. CASE q <= SMax
      BY <1>1, <1>5, <3>1, Types
    <3>2. CASE q > SMax
      <4>1. AbsVal(a) = SMax + 1 /\ AbsVal(b) = 1 /\ q = SMax + 1
        BY <1>1, <1>2, <1>4, <3>2
      <4>2. a = SMin /\ b = 1
        BY <1>2, <2>2, <4>1
      <4>3. Quotient(a, b) = -SMax - 1
        BY <1>1, <1>5, <4>1, <4>2
      <4>4. QED
        BY <1>1, <4>3, Types
    <3>3. QED
      BY <1>1, <3>1, <3>2
  <2>3. QED
    BY <2>1, <2>2
<1>7. \/ DivSigned(a, b) = ResultIn(SignedType, Quotient(a, b)) /\ Quotient(a, b) \in SignedType
      \/ DivSigned(a, b) = Throwing /\ Quotient(a, b) \notin SignedType
  BY <1>6 DEF DivSigned
<1>8. QED
  BY <1>7, Tested

\* The opposite
LEMMA MinusSignedCorrect ==
    ASSUME NEW a \in SignedType
    PROVE  /\ Checks(MinusSigned(a), -a)
           /\ MinusSigned(a) = Throwing <=> -a \notin SignedType
<1>1. a \in Int /\ SMax \in Nat /\ SMin = -SMax - 1 /\ -SMax - 1 <= a /\ a <= SMax
  BY Bounds, Types
<1>2. a = SMin <=> -a \notin SignedType
  BY <1>1, Types
<1>3. \/ MinusSigned(a) = ResultIn(SignedType, -a) /\ -a \in SignedType
      \/ MinusSigned(a) = Throwing /\ -a \notin SignedType
  BY <1>2 DEF MinusSigned
<1>4. QED
  BY <1>3, Tested

\* Unsigned sums and differences
LEMMA LinearUnsignedCorrect ==
    ASSUME NEW a \in UnsignedType, NEW b \in UnsignedType
    PROVE  /\ Checks(AddUnsigned(a, b), a + b)
           /\ AddUnsigned(a, b) = Throwing <=> a + b \notin UnsignedType
           /\ Checks(SubUnsigned(a, b), a - b)
           /\ SubUnsigned(a, b) = Throwing <=> a - b \notin UnsignedType
<1>1. a \in Nat /\ b \in Nat /\ UMax \in Nat /\ a <= UMax
  BY Bounds, Types
<1>2. (UMax - a < b <=> a + b \notin UnsignedType) /\ (a < b <=> a - b \notin UnsignedType)
  BY <1>1, Types
<1>3. /\ \/ AddUnsigned(a, b) = ResultIn(UnsignedType, a + b) /\ a + b \in UnsignedType
         \/ AddUnsigned(a, b) = Throwing /\ a + b \notin UnsignedType
      /\ \/ SubUnsigned(a, b) = ResultIn(UnsignedType, a - b) /\ a - b \in UnsignedType
         \/ SubUnsigned(a, b) = Throwing /\ a - b \notin UnsignedType
  BY <1>2 DEF AddUnsigned, SubUnsigned
<1>4. QED
  BY <1>3, Tested

\* Unsigned products
LEMMA MulUnsignedCorrect ==
    ASSUME NEW a \in UnsignedType, NEW b \in UnsignedType
    PROVE  /\ Checks(MulUnsigned(a, b), a * b)
           /\ MulUnsigned(a, b) = Throwing <=> a * b \notin UnsignedType
<1>1. a \in Nat /\ b \in Nat /\ UMax \in Nat
  BY Bounds, Types
<1>2. PICK p \in Nat : p = a * b
  BY <1>1
<1>3. (a # 0 /\ b # 0 /\ a > UMax \div b) <=> p \notin UnsignedType
  <2>1. CASE a = 0 \/ b = 0
    <3>1. p = 0
      BY <1>1, <1>2, <2>1
    <3>2. QED
      BY <1>1, <2>1, <3>1, Types
  <2>2. CASE a # 0 /\ b # 0
    <3>1. a > UMax \div b <=> p > UMax
      BY <1>1, <1>2, <2>2, ProductTest
    <3>2. QED
      BY <1>1, <2>2, <3>1, Types
  <2>3. QED
    BY <2>1, <2>2
<1>4. \/ MulUnsigned(a, b) = ResultIn(UnsignedType, p) /\ p \in UnsignedType
      \/ MulUnsigned(a, b) = Throwing /\ p \notin UnsignedType
  BY <1>2, <1>3 DEF MulUnsigned
<1>5. QED
  BY <1>2, <1>4, Tested

\* Unsigned quotients by what is not zero always fit
LEMMA DivUnsignedCorrect ==
    ASSUME NEW a \in UnsignedType, NEW b \in UnsignedType, b # 0
    PROVE  Checks(DivUnsigned(a, b), a \div b) /\ DivUnsigned(a, b) # Throwing
<1>1. a \in Nat /\ b \in Nat \ {0} /\ UMax \in Nat /\ a <= UMax
  BY Bounds, Types
<1>2. a \div b \in Nat /\ a \div b <= a
  BY <1>1, QuotientBound
<1>3. a \div b \in UnsignedType
  BY <1>1, <1>2, Types
<1>4. DivUnsigned(a, b) = ResultIn(UnsignedType, a \div b)
  BY DEF DivUnsigned
<1>5. QED
  BY <1>3, <1>4, Tested

\* An operation of checked<T> returns the integer it should or throws, whatever the width
\* of T, except that quotients by zero are left to the processor and products of the least
\* int to std::abs (checked.cpp:89-203)
THEOREM CheckedNoSilentOverflow ==
    ASSUME NEW a, NEW b
    PROVE  NoSilentOverflow(a, b)
BY AddSignedCorrect, SubSignedCorrect, MulSignedCorrect, DivSignedCorrect, MinusSignedCorrect,
   LinearUnsignedCorrect, MulUnsignedCorrect, DivUnsignedCorrect DEF NoSilentOverflow

\* Whatever the width of T, checked<T> throws when the result does not fit, and besides for
\* every signed sum with a positive right operand and every signed product that is the
\* least value, and for nothing else (checked.cpp:89-203)
THEOREM CheckedThrowsExactly ==
    ASSUME NEW a, NEW b
    PROVE  ThrowsExactly(a, b)
BY AddSignedCorrect, SubSignedCorrect, MulSignedCorrect, DivSignedCorrect, MinusSignedCorrect,
   LinearUnsignedCorrect, MulUnsignedCorrect, DivUnsignedCorrect DEF ThrowsExactly

-----------------------------------------------------------------------------
(* big_integer: the digits.                                                *)

\* The digits without a zero in front
Digits  == Seq(Digit) \ {<<>>}
Numeral == { s \in Digits : s[Len(s)] = 0 => s = <<0>> }

\* big_integer's base
LEMMA BigBase ==
    /\ BASE \in Base /\ BASE \in Int /\ BASE \in Nat \ {0} /\ Digit = 0..(BASE - 1)
    /\ Radix \in Base /\ Radix \in Digit \ {0} /\ 0 \in Digit /\ 1 \in Digit
<1>1. BASE \in Nat \ {0}
  BY BigIntegerAssumption, PowerPositive DEF BASE
<1>2. Radix \in 2..(BASE - 1)
  BY BigIntegerAssumption DEF BASE
<1>3. Digit = 0..(BASE - 1)
  BY DEF Digit
<1> HIDE DEF BASE
<1>4. BASE >= 3
  BY <1>1, <1>2
<1>5. BASE \in Base /\ BASE \in Int /\ Radix \in Base
  BY <1>1, <1>2, <1>4 DEF Base
<1>6. Radix \in Digit \ {0} /\ 0 \in Digit /\ 1 \in Digit
  BY <1>1, <1>2, <1>3, <1>4
<1>7. QED
  BY <1>1, <1>3, <1>5, <1>6

\* The value of digits
LEMMA DigitsAre ==
    ASSUME NEW s \in Seq(Digit)
    PROVE  /\ Len(s) \in Nat /\ s \in [1..Len(s) -> Digit] /\ DOMAIN s = 1..Len(s)
           /\ Digital(BASE, s, Len(s)) /\ Magnitude(s) = Val(BASE, s, Len(s))
           /\ Magnitude(s) \in Nat /\ Magnitude(s) < Power(BASE, Len(s))
           /\ s # <<>> => Len(s) \in Nat \ {0}
<1>1. Len(s) \in Nat /\ s \in [1..Len(s) -> Digit] /\ DOMAIN s = 1..Len(s)
  BY SequenceOf
<1>2. Digital(BASE, s, Len(s))
  BY <1>1, BigBase DEF Digital
<1>3. Magnitude(s) = Val(BASE, s, Len(s))
  BY DEF Magnitude, Val, Tails
<1>4. Val(BASE, s, Len(s)) \in Nat /\ Val(BASE, s, Len(s)) < Power(BASE, Len(s))
  BY <1>1, <1>2, BigBase, DigitsAreColumns
<1>5. s # <<>> => Len(s) # 0
  BY EmptySeq
<1>6. QED
  BY <1>1, <1>2, <1>3, <1>4, <1>5

\* One digit
LEMMA OneDigit ==
    ASSUME NEW d \in Digit
    PROVE  <<d>> \in Numeral /\ Magnitude(<<d>>) = d
<1>1. <<d>> \in Seq(Digit) /\ Len(<<d>>) = 1 /\ <<d>>[1] = d /\ <<d>> # <<>>
  OBVIOUS
<1>2. <<d>> \in Numeral
  BY <1>1 DEF Numeral, Digits
<1>3. Magnitude(<<d>>) = Val(BASE, <<d>>, 1)
  BY <1>1, DigitsAre
<1>4. Val(BASE, <<d>>, 1) = d
  <2>1. d \in Int
    BY BigBase
  <2>2. QED
    BY <1>1, <2>1, BigBase, ValFew
<1>5. QED
  BY <1>2, <1>3, <1>4

\* The greatest of some numbers
LEMMA MaxIs ==
    ASSUME NEW n \in Nat, NEW T \in SUBSET (0..n), T # {}
    PROVE  Max(T) \in T /\ \A i \in T : i <= Max(T)
<1>1. \E m \in T : \A i \in T : m >= i
  <2> DEFINE U == { i \in 1..(n + 1) : i - 1 \in T }
  <2>1. PICK t \in T : TRUE
    OBVIOUS
  <2>2. t + 1 \in U /\ n + 1 \in Nat /\ U \in SUBSET (1..(n + 1))
    BY <2>1
  <2>3. PICK k \in U : \A i \in U : i <= k
    BY <2>2, Greatest
  <2>4. k - 1 \in T /\ k \in Int
    BY <2>2, <2>3
  <2>5. ASSUME NEW i \in T
        PROVE  k - 1 >= i
    <3>1. i \in 0..n /\ i + 1 \in 1..(n + 1) /\ i + 1 - 1 = i
      OBVIOUS
    <3>2. i + 1 \in U
      BY <3>1
    <3>3. i + 1 <= k
      BY <2>3, <3>2
    <3>4. QED
      BY <2>4, <3>1, <3>3
  <2>6. QED
    BY <2>4, <2>5
<1>2. Max(T) \in T /\ \A i \in T : Max(T) >= i
  BY <1>1 DEF Max
<1>3. QED
  BY <1>2

\* erase_leading_zeroes: what is left is the same number
LEMMA TrimIs ==
    ASSUME NEW s \in Digits
    PROVE  Trim(s) \in Numeral /\ Magnitude(Trim(s)) = Magnitude(s) /\ Len(Trim(s)) <= Len(s)
<1> DEFINE n == Len(s)
           T == {1} \cup { i \in DOMAIN s : s[i] # 0 }
           k == Max(T)
           t == SubSeq(s, 1, k)
<1>1. s \in Seq(Digit) /\ s # <<>>
  BY DEF Digits
<1>2. /\ n \in Nat \ {0} /\ DOMAIN s = 1..n /\ s \in [1..n -> Digit] /\ Digital(BASE, s, n)
      /\ Magnitude(s) = Val(BASE, s, n)
  BY <1>1, DigitsAre
<1> HIDE DEF n
<1>3. k \in T /\ \A i \in T : i <= k
  <2>1. n \in Nat /\ T \in SUBSET (0..n) /\ T # {}
    BY <1>2
  <2> HIDE DEF T
  <2>2. QED
    BY <2>1, MaxIs
<1>4. Trim(s) = t
  BY DEF Trim
<1>5. k \in 1..n /\ k \in Nat /\ k \in 0..n /\ n \in Nat
  BY <1>2, <1>3
<1>6. ASSUME NEW i \in (k + 1)..n
      PROVE  s[i] = 0
  <2>1. i \in 1..n /\ ~(i <= k)
    BY <1>2, <1>5
  <2>2. QED
    BY <1>2, <1>3, <2>1
<1>7. k = 1 \/ s[k] # 0
  BY <1>3
<1> HIDE DEF k, T
<1>8. t \in Seq(Digit) /\ Len(t) = k /\ \A i \in 1..k : t[i] = s[i]
  BY <1>1, <1>5 DEF n
<1> HIDE DEF t
<1>9. t # <<>> /\ k \in 1..k
  BY <1>5, <1>8
<1>10. t[Len(t)] = 0 => t = <<0>>
  <2>1. SUFFICES ASSUME t[k] = 0 PROVE t = <<0>>
    BY <1>8
  <2>2. k = 1
    BY <1>7, <1>8, <1>9, <2>1
  <2>3. <<0>> \in Seq(Digit) /\ Len(<<0>>) = 1 /\ <<0>>[1] = 0
    BY BigBase
  <2>4. \A i \in 1..Len(t) : t[i] = <<0>>[i]
    BY <1>8, <2>1, <2>2, <2>3
  <2>5. QED
    BY <1>8, <2>2, <2>3, <2>4, SequenceSame
<1>11. Magnitude(t) = Magnitude(s)
  <2>1. Magnitude(t) = Val(BASE, t, k)
    BY <1>8, DigitsAre
  <2>2. \A i \in 1..n : s[i] \in Int
    BY <1>2, BigBase
  <2>3. Val(BASE, s, n) = Val(BASE, s, k)
    <3>1. \A i \in (k + 1)..n : s[i] = 0
      BY <1>6
    <3>2. BASE \in Int /\ n \in Nat /\ k \in 0..n
      BY <1>5, BigBase
    <3>3. QED
      BY <2>2, <3>1, <3>2, ValPadded
  <2>4. Val(BASE, t, k) = Val(BASE, s, k)
    <3>1. \A i \in 1..k : t[i] \in Int /\ t[i] = s[i]
      <4>1. \A i \in 1..k : i \in 1..n
        BY <1>5
      <4>2. QED
        BY <1>8, <2>2, <4>1
    <3>2. BASE \in Int /\ k \in Nat
      BY <1>5, BigBase
    <3>3. QED
      BY <3>1, <3>2, ValSame
  <2>5. QED
    BY <1>2, <2>1, <2>3, <2>4
<1>12. t \in Numeral
  BY <1>8, <1>9, <1>10 DEF Numeral, Digits
<1>13. QED
  BY <1>4, <1>5, <1>8, <1>11, <1>12 DEF n

\* The columns become digits: those of Settled, and the last carry if there is one
LEMMA CarriedIs ==
    ASSUME NEW n \in Nat \ {0}, NEW s, DOMAIN s = 1..n, Len(s) = n, Columnar(BASE, s, n), NEW carry0 \in Digit
    PROVE  /\ Carried(s, carry0) \in Digits
           /\ Magnitude(Carried(s, carry0)) = Val(BASE, s, n) + carry0
           /\ \/ Len(Carried(s, carry0)) = n
              \/ Len(Carried(s, carry0)) = n + 1 /\ Carried(s, carry0)[n + 1] # 0
<1> DEFINE c == Carries(BASE, s, n, carry0)
           d == Settled(BASE, s, n, carry0)
           t == Carried(s, carry0)
           m == Len(t)
           e == IF c[n + 1] # 0 THEN <<c[n + 1]>> ELSE <<>>
<1>1. /\ d \in [1..n -> Digit] /\ Digital(BASE, d, n) /\ c[n + 1] \in Digit
      /\ Val(BASE, d, n) + Power(BASE, n) * c[n + 1] = Val(BASE, s, n) + carry0
  <2>1. BASE \in Base /\ n \in Nat /\ carry0 \in 0..(BASE - 1) /\ Digit = 0..(BASE - 1)
    BY BigBase
  <2>2. QED
    BY <2>1, SettledAre
<1>2. t = d \o e
  BY DEF Carried, Carries, Settled
<1> HIDE DEF c, d, t
<1>3. d \in Seq(Digit) /\ Len(d) = n
  BY <1>1, SequenceIs
<1>4. BASE \in Int /\ n \in Nat /\ Power(BASE, n) \in Int /\ Val(BASE, d, n) \in Int
  BY <1>1, BigBase, PowerInt, DigitsAreColumns
<1>5. CASE c[n + 1] = 0
  <2>1. t = d
    BY <1>2, <1>3, <1>5
  <2>2. Power(BASE, n) * 0 = 0
    BY <1>4
  <2>3. Val(BASE, s, n) + carry0 = Val(BASE, d, n)
    BY <1>1, <1>4, <1>5, <2>2
  <2>4. d \in Digits
    <3>1. d # <<>>
      BY <1>3
    <3>2. QED
      BY <1>3, <3>1 DEF Digits
  <2>5. Magnitude(d) = Val(BASE, d, n)
    BY <1>3, DigitsAre
  <2>6. QED
    BY <1>3, <2>1, <2>3, <2>4, <2>5 DEF t
<1>6. CASE c[n + 1] # 0
  <2>1. e = <<c[n + 1]>> /\ e \in Seq(Digit) /\ Len(e) = 1 /\ e[1] = c[n + 1]
    BY <1>1, <1>6
  <2> HIDE DEF e
  <2>2. /\ t \in Seq(Digit) /\ m = n + 1
        /\ \A i \in 1..n : t[i] = d[i]
        /\ t[n + 1] = c[n + 1]
    <3>1. /\ d \o e \in Seq(Digit) /\ Len(d \o e) = Len(d) + Len(e)
          /\ \A i \in 1..Len(d) : (d \o e)[i] = d[i]
          /\ \A i \in 1..Len(e) : (d \o e)[Len(d) + i] = e[i]
      BY <1>3, <2>1, ConcatIs
    <3>2. 1 \in 1..Len(e)
      BY <2>1
    <3>3. QED
      BY <1>2, <1>3, <2>1, <3>1, <3>2
  <2>3. t \in Digits
    <3>1. t # <<>>
      BY <2>2
    <3>2. QED
      BY <2>2, <3>1 DEF Digits
  <2>4. Digital(BASE, t, m) /\ Magnitude(t) = Val(BASE, t, m)
    BY <2>2, DigitsAre
  <2>5. Val(BASE, t, m) = Val(BASE, t, n) + Power(BASE, n) * t[m]
    <3>1. m \in Nat \ {0} /\ m - 1 = n
      BY <2>2
    <3>2. \A i \in 1..m : t[i] \in Int
      BY <2>4, BigBase DEF Digital
    <3>3. Val(BASE, t, m) = Val(BASE, t, m - 1) + Power(BASE, m - 1) * t[m]
      BY <1>4, <3>1, <3>2, ValLast
    <3>4. QED
      BY <3>1, <3>3
  <2>6. Val(BASE, t, n) = Val(BASE, d, n)
    <3>1. \A i \in 1..n : t[i] \in Int /\ t[i] = d[i]
      BY <1>1, <2>2, BigBase
    <3>2. BASE \in Int /\ n \in Nat
      BY <1>4
    <3>3. QED
      BY <3>1, <3>2, ValSame
  <2>7. QED
    BY <1>1, <1>6, <2>2, <2>3, <2>4, <2>5, <2>6 DEF t
<1>7. QED
  BY <1>5, <1>6

\* A number as large as that has its last digit
LEMMA LargeIsNumeral ==
    ASSUME NEW s \in Digits, Power(BASE, Len(s) - 1) <= Magnitude(s)
    PROVE  s \in Numeral
<1> DEFINE n == Len(s)
<1>1. /\ n \in Nat \ {0} /\ s \in [1..n -> Digit] /\ Digital(BASE, s, n)
      /\ Magnitude(s) = Val(BASE, s, n)
  BY DigitsAre DEF Digits
<1> HIDE DEF n
<1>2. s[n] # 0
  <2>1. SUFFICES ASSUME s[n] = 0 PROVE FALSE
    OBVIOUS
  <2>2. PICK k \in Nat : k = n - 1 /\ k + 1 = n
    BY <1>1
  <2>3. \A i \in 1..n : s[i] \in Int
    BY <1>1, BigBase
  <2>4. Val(BASE, s, n) = Val(BASE, s, k)
    <3>1. \A i \in (k + 1)..n : s[i] = 0
      <4>1. \A i \in (k + 1)..n : i = n
        BY <1>1, <2>2
      <4>2. QED
        BY <2>1, <4>1
    <3>2. BASE \in Int /\ n \in Nat /\ k \in 0..n
      BY <1>1, <2>2, BigBase
    <3>3. QED
      BY <2>3, <3>1, <3>2, ValPadded
  <2>5. Digital(BASE, s, k)
    BY <1>1, <2>2 DEF Digital
  <2>6. Val(BASE, s, k) \in Nat /\ Val(BASE, s, k) < Power(BASE, k)
    BY <2>5, BigBase, DigitsAreColumns
  <2>7. Power(BASE, k) \in Int /\ Power(BASE, k) <= Val(BASE, s, n)
    BY <1>1, <2>2, BigBase, PowerInt DEF n
  <2>8. QED
    BY <2>4, <2>6, <2>7
<1>3. QED
  BY <1>2 DEF Numeral, n

\* And digits without a zero in front are as large as that
LEMMA NumeralIsLarge ==
    ASSUME NEW s \in Numeral
    PROVE  /\ s \in Digits /\ s \in Seq(Digit) /\ Len(s) \in Nat \ {0}
           /\ s # <<0>> => s[Len(s)] # 0 /\ Power(BASE, Len(s) - 1) <= Magnitude(s) /\ Magnitude(s) # 0
           /\ s = <<0>> => Magnitude(s) = 0 /\ Len(s) = 1
<1> DEFINE n == Len(s)
<1>1. s \in Digits /\ s \in Seq(Digit)
  BY DEF Numeral, Digits
<1>2. /\ n \in Nat \ {0} /\ s \in [1..n -> Digit] /\ Digital(BASE, s, n)
      /\ Magnitude(s) = Val(BASE, s, n)
  BY <1>1, DigitsAre DEF Digits
<1> HIDE DEF n
<1>3. ASSUME s # << 0 >>
      PROVE  s[n] # 0 /\ Power(BASE, n - 1) <= Magnitude(s) /\ Magnitude(s) # 0
  <2>1. s[n] # 0
    BY <1>3 DEF Numeral, n
  <2>2. Power(BASE, n - 1) <= Val(BASE, s, n)
    <3>1. \A i \in 1..n : s[i] \in 0..(BASE - 1)
      BY <1>2 DEF Digital
    <3>2. QED
      BY <1>2, <2>1, <3>1, BigBase, ValLarge
  <2>3. Power(BASE, n - 1) \in Nat \ {0}
    <3>1. n - 1 \in Nat
      BY <1>2
    <3>2. QED
      BY <3>1, BigBase, PowerBase
  <2>4. Magnitude(s) \in Nat
    BY <1>1, DigitsAre
  <2>5. QED
    BY <1>2, <2>1, <2>2, <2>3, <2>4
<1>4. s = <<0>> => Magnitude(s) = 0 /\ n = 1
  BY BigBase, OneDigit DEF n
<1>5. QED
  BY <1>1, <1>2, <1>3, <1>4 DEF n

\* A digit is added
LEMMA AddLongShortIs ==
    ASSUME NEW a \in Numeral, NEW d \in Digit
    PROVE  AddLongShort(a, d) \in Numeral /\ Magnitude(AddLongShort(a, d)) = Magnitude(a) + d
<1> DEFINE n == Len(a)
           s == Carried(a, d)
<1>1. a \in Seq(Digit) /\ n \in Nat \ {0} /\ (a # <<0>> => Power(BASE, n - 1) <= Magnitude(a))
  BY NumeralIsLarge
<1>2. DOMAIN a = 1..n /\ Digital(BASE, a, n) /\ Magnitude(a) = Val(BASE, a, n) /\ Magnitude(a) \in Nat
  BY <1>1, DigitsAre
<1> HIDE DEF n
<1>3. Columnar(BASE, a, n)
  BY <1>1, <1>2, BigBase, DigitsAreColumns
<1>4. /\ s \in Digits /\ Magnitude(s) = Magnitude(a) + d
      /\ Len(s) = n \/ (Len(s) = n + 1 /\ s[n + 1] # 0)
  <2>1. n \in Nat \ {0} /\ Len(a) = n /\ DOMAIN a = 1..n /\ Columnar(BASE, a, n) /\ d \in Digit
    BY <1>1, <1>2, <1>3 DEF n
  <2>2. /\ s \in Digits /\ Magnitude(s) = Val(BASE, a, n) + d
        /\ Len(s) = n \/ (Len(s) = n + 1 /\ s[n + 1] # 0)
    BY <2>1, CarriedIs
  <2>3. QED
    BY <1>2, <2>2
<1> HIDE DEF s
<1>5. d \in Nat /\ Power(BASE, n - 1) \in Int
  <2>1. n - 1 \in Nat
    BY <1>1
  <2>2. QED
    BY <2>1, BigBase, PowerInt
<1>6. s \in Numeral
  <2>1. CASE Len(s) = n + 1
    <3>1. s[Len(s)] # 0
      BY <1>1, <1>4, <2>1
    <3>2. QED
      BY <1>4, <3>1 DEF Numeral
  <2>2. CASE Len(s) = n /\ a # <<0>>
    <3>1. Power(BASE, n - 1) <= Magnitude(s)
      BY <1>1, <1>2, <1>4, <1>5, <2>2
    <3>2. QED
      BY <1>4, <2>2, <3>1, LargeIsNumeral
  <2>3. CASE Len(s) = n /\ a = <<0>>
    <3>1. n = 1
      BY <2>3 DEF n
    <3>2. s \in Seq(Digit) /\ Len(s) = 1 /\ s[1] \in Digit
      BY <1>4, <2>3, <3>1 DEF Digits
    <3>3. s = <<s[1]>>
      BY <3>2
    <3>4. QED
      BY <3>2, <3>3, OneDigit
  <2>4. QED
    BY <1>4, <2>1, <2>2, <2>3
<1>7. QED
  BY <1>4, <1>6 DEF AddLongShort, s

\* What is above the digits is zero
LEMMA PaddedIs ==
    ASSUME NEW s \in Seq(Digit), NEW n \in Nat, NEW f, \A i \in 1..n : f[i] = At(s, i)
    PROVE  /\ Digital(BASE, f, n)
           /\ Len(s) <= n => Val(BASE, f, n) = Magnitude(s)
<1> DEFINE m == Len(s)
<1>1. m \in Nat /\ s \in [1..m -> Digit] /\ Magnitude(s) = Val(BASE, s, m) /\ Digital(BASE, s, m)
  BY DigitsAre
<1>2. /\ \A i \in 1..n : i <= m => f[i] = s[i] /\ i \in 1..m
      /\ \A i \in 1..n : ~(i <= m) => f[i] = 0
  BY <1>1 DEF At
<1> HIDE DEF m
<1>3. \A i \in 1..n : f[i] \in Digit
  BY <1>1, <1>2, BigBase
<1>4. Digital(BASE, f, n)
  BY <1>3, BigBase DEF Digital
<1>5. ASSUME m <= n
      PROVE  Val(BASE, f, n) = Val(BASE, s, m)
  <2>1. \A i \in 1..n : f[i] \in Int
    BY <1>3, BigBase
  <2>2. Val(BASE, f, n) = Val(BASE, f, m)
    <3>1. BASE \in Int /\ n \in Nat /\ m \in 0..n
      BY <1>1, <1>5, BigBase
    <3>2. \A i \in (m + 1)..n : f[i] = 0
      <4>1. \A i \in (m + 1)..n : i \in 1..n /\ ~(i <= m)
        BY <1>1
      <4>2. QED
        BY <1>2, <4>1
    <3>3. QED
      BY <2>1, <3>1, <3>2, ValPadded
  <2>3. Val(BASE, f, m) = Val(BASE, s, m)
    <3>1. BASE \in Int /\ m \in Nat
      BY <1>1, BigBase
    <3>2. \A i \in 1..m : i \in 1..n /\ i <= m
      BY <1>1, <1>5
    <3>3. \A i \in 1..m : f[i] \in Int /\ f[i] = s[i]
      BY <1>2, <2>1, <3>2
    <3>4. QED
      BY <3>1, <3>3, ValSame
  <2>4. QED
    BY <2>2, <2>3
<1>6. QED
  BY <1>1, <1>4, <1>5 DEF m

\* Two numbers' sizes
LEMMA MaxOfTwo ==
    ASSUME NEW m \in Nat, NEW n \in Nat
    PROVE  Max({m, n}) \in {m, n} /\ m <= Max({m, n}) /\ n <= Max({m, n})
<1>1. PICK k \in Nat : k = m + n
  OBVIOUS
<1>2. {m, n} \in SUBSET (0..k) /\ {m, n} # {} /\ k \in Nat
  BY <1>1
<1>3. Max({m, n}) \in {m, n} /\ \A i \in {m, n} : i <= Max({m, n})
  BY <1>2, MaxIs
<1>4. QED
  BY <1>3

\* Digits are added
LEMMA AddLongLongIs ==
    ASSUME NEW a \in Numeral, NEW b \in Numeral
    PROVE  AddLongLong(a, b) \in Numeral /\ Magnitude(AddLongLong(a, b)) = Magnitude(a) + Magnitude(b)
<1>1. a \in Seq(Digit) /\ b \in Seq(Digit) /\ Len(a) \in Nat \ {0} /\ Len(b) \in Nat \ {0}
  BY NumeralIsLarge
<1>2. CASE Len(b) = 1
  <2>1. b[1] \in Digit /\ b = <<b[1]>>
    <3>1. b \in Seq(Digit) /\ Len(b) = 1 /\ 1 \in 1..Len(b)
      BY <1>1, <1>2
    <3>2. b[1] \in Digit
      BY <3>1
    <3>3. b = <<b[1]>>
      BY <3>1
    <3>4. QED
      BY <3>2, <3>3
  <2>2. Magnitude(b) = b[1]
    BY <2>1, OneDigit
  <2>3. AddLongLong(a, b) = AddLongShort(a, b[1])
    BY <1>2 DEF AddLongLong
  <2>4. QED
    BY <2>1, <2>2, <2>3, AddLongShortIs
<1>3. CASE Len(b) # 1
  <2> DEFINE n == Max({Len(a), Len(b)})
             f == [i \in 1..n |-> At(a, i)]
             g == [i \in 1..n |-> At(b, i)]
             s == Columns(a, b)
  <2>1. n \in Nat \ {0} /\ n \in Nat /\ Len(a) <= n /\ Len(b) <= n
    BY <1>1, MaxOfTwo
  <2>2. s = [i \in 1..n |-> At(a, i) + At(b, i)]
    BY DEF Columns
  <2> HIDE DEF n
  <2>3. /\ \A i \in 1..n : f[i] = At(a, i)
        /\ \A i \in 1..n : g[i] = At(b, i)
        /\ DOMAIN s = 1..n /\ Len(s) = n
        /\ \A i \in 1..n : s[i] = f[i] + g[i]
    BY <2>1, <2>2
  <2> HIDE DEF f, g, s
  <2>4. Digital(BASE, f, n) /\ Val(BASE, f, n) = Magnitude(a)
    BY <1>1, <2>1, <2>3, PaddedIs
  <2>5. Digital(BASE, g, n) /\ Val(BASE, g, n) = Magnitude(b)
    BY <1>1, <2>1, <2>3, PaddedIs
  <2>6. Columnar(BASE, s, n) /\ Val(BASE, s, n) = Magnitude(a) + Magnitude(b)
    BY <2>1, <2>3, <2>4, <2>5, BigBase, SumVal
  <2>7. Carried(s, 0) \in Digits /\ Magnitude(Carried(s, 0)) = Magnitude(a) + Magnitude(b)
    <3>1. n \in Nat \ {0} /\ DOMAIN s = 1..n /\ Len(s) = n /\ Columnar(BASE, s, n) /\ 0 \in Digit
      BY <2>1, <2>3, <2>6, BigBase
    <3>2. Carried(s, 0) \in Digits /\ Magnitude(Carried(s, 0)) = Val(BASE, s, n) + 0
      BY <3>1, CarriedIs
    <3>3. Magnitude(a) \in Nat /\ Magnitude(b) \in Nat
      BY <1>1, DigitsAre
    <3>4. QED
      BY <2>6, <3>2, <3>3
  <2>8. AddLongLong(a, b) = Trim(Carried(s, 0))
    BY <1>3 DEF AddLongLong, s
  <2>9. QED
    BY <2>7, <2>8, TrimIs
<1>4. QED
  BY <1>2, <1>3

\* Digits are multiplied by one
LEMMA MulLongShortIs ==
    ASSUME NEW a \in Digits, NEW d \in Digit
    PROVE  MulLongShort(a, d) \in Numeral /\ Magnitude(MulLongShort(a, d)) = Magnitude(a) * d
<1> DEFINE n == Len(a)
           s == [i \in DOMAIN a |-> a[i] * d]
<1>1. /\ n \in Nat \ {0} /\ n \in Nat /\ DOMAIN a = 1..n /\ Digital(BASE, a, n)
      /\ Magnitude(a) = Val(BASE, a, n) /\ Magnitude(a) \in Nat
  BY DigitsAre DEF Digits
<1> HIDE DEF n
<1>2. DOMAIN s = 1..n /\ Len(s) = n /\ \A i \in 1..n : s[i] = a[i] * d
  BY <1>1
<1> HIDE DEF s
<1>3. Columnar(BASE, s, n) /\ Val(BASE, s, n) = Magnitude(a) * d
  <2>1. BASE \in Base /\ n \in Nat /\ Digital(BASE, a, n) /\ d \in 0..(BASE - 1)
    BY <1>1, BigBase
  <2>2. Columnar(BASE, s, n) /\ Val(BASE, s, n) = Val(BASE, a, n) * d
    BY <1>2, <2>1, MultipleVal
  <2>3. QED
    BY <1>1, <2>2
<1>4. Carried(s, 0) \in Digits /\ Magnitude(Carried(s, 0)) = Magnitude(a) * d
  <2>1. n \in Nat \ {0} /\ DOMAIN s = 1..n /\ Len(s) = n /\ Columnar(BASE, s, n) /\ 0 \in Digit
    BY <1>1, <1>2, <1>3, BigBase
  <2>2. Carried(s, 0) \in Digits /\ Magnitude(Carried(s, 0)) = Val(BASE, s, n) + 0
    BY <2>1, CarriedIs
  <2>3. Magnitude(a) * d \in Int
    <3>1. d \in Int
      BY BigBase
    <3>2. QED
      BY <1>1, <3>1
  <2>4. QED
    BY <1>3, <2>2, <2>3
<1>5. MulLongShort(a, d) = Trim(Carried(s, 0))
  BY DEF MulLongShort, s
<1>6. QED
  BY <1>4, <1>5, TrimIs

\* Digits are subtracted; what is left of a borrow is an exception
LEMMA SubLongLongIs ==
    ASSUME NEW a \in Digits, NEW b \in Digits
    PROVE  /\ SubLongLong(a, b) \in Numeral \cup {<<>>}
           /\ Len(b) <= Len(a) /\ Magnitude(b) <= Magnitude(a) =>
                SubLongLong(a, b) \in Numeral /\ Magnitude(SubLongLong(a, b)) = Magnitude(a) - Magnitude(b)
<1> DEFINE n == Len(a)
           borrow == CHOOSE borrow : borrow = [i \in 1..(Len(a) + 1) |->
                         IF i > 1 /\ a[i - 1] < At(b, i - 1) + borrow[i - 1] THEN 1 ELSE 0]
           d == [i \in DOMAIN a |-> (a[i] - At(b, i) - borrow[i]) % BASE]
           g == [i \in 1..n |-> At(b, i)]
<1>1. /\ n \in Nat \ {0} /\ n \in Nat /\ DOMAIN a = 1..n /\ Digital(BASE, a, n)
      /\ Magnitude(a) = Val(BASE, a, n) /\ Magnitude(a) \in Nat
  BY DigitsAre DEF Digits
<1>2. b \in Seq(Digit) /\ Len(b) \in Nat /\ Magnitude(b) \in Nat
  BY DigitsAre DEF Digits
<1>3. SubLongLong(a, b) = IF borrow[n + 1] = 1 THEN <<>> ELSE Trim(d)
  BY DEF SubLongLong
<1>4. \A i \in 1..n : g[i] = At(b, i)
  OBVIOUS
<1>5. Len(a) = n
  OBVIOUS
<1> HIDE DEF n, g
<1>6. Digital(BASE, g, n) /\ (Len(b) <= n => Val(BASE, g, n) = Magnitude(b))
  BY <1>1, <1>2, <1>4, PaddedIs
<1>7. PICK c : c \in Borrowing(a, g, n)
  BY <1>1, BorrowingExists
<1>8. /\ c \in [1..(n + 1) -> 0..1] /\ c[1] = 0
      /\ \A i \in 1..n : c[i + 1] = IF a[i] < g[i] + c[i] THEN 1 ELSE 0
  BY <1>7 DEF Borrowing
<1>9. /\ \A i \in 1..(n + 1) : ~(i > 1) => i = 1
      /\ \A i \in 1..(n + 1) : i > 1 => i - 1 \in 1..n /\ i - 1 + 1 = i
      /\ \A i \in 1..n : i + 1 \in 1..(n + 1) /\ i + 1 > 1 /\ i + 1 - 1 = i /\ i \in 1..(n + 1)
      /\ 1 \in 1..(n + 1) /\ n + 1 \in 1..(n + 1) /\ ~(1 > 1)
  BY <1>1
<1> DEFINE h == [i \in 1..(Len(a) + 1) |->
                    IF i > 1 /\ a[i - 1] < At(b, i - 1) + c[i - 1] THEN 1 ELSE 0]
<1>10. c = h
  <2>1. c = [i \in 1..(n + 1) |-> c[i]]
    BY <1>8
  <2>2. h = [i \in 1..(n + 1) |-> h[i]]
    BY <1>5
  <2>3. ASSUME NEW i \in 1..(n + 1)
        PROVE  c[i] = h[i]
    <3>1. h[i] = IF i > 1 /\ a[i - 1] < At(b, i - 1) + c[i - 1] THEN 1 ELSE 0
      BY <1>5
    <3> HIDE DEF h
    <3>2. CASE i > 1
      <4>1. PICK j \in 1..n : j = i - 1 /\ i = j + 1
        BY <1>9, <3>2
      <4>2. c[j + 1] = IF a[j] < At(b, j) + c[j] THEN 1 ELSE 0
        BY <1>4, <1>8
      <4>3. QED
        BY <3>1, <3>2, <4>1, <4>2
    <3>3. CASE ~(i > 1)
      BY <1>8, <1>9, <3>1, <3>3
    <3>4. QED
      BY <3>2, <3>3
  <2> HIDE DEF h
  <2>4. \A i \in 1..(n + 1) : c[i] = h[i]
    BY <2>3
  <2>5. QED
    BY <2>1, <2>2, <2>4, Extensional
<1>11. borrow = [i \in 1..(Len(a) + 1) |-> IF i > 1 /\ a[i - 1] < At(b, i - 1) + borrow[i - 1] THEN 1 ELSE 0]
  BY <1>10
<1> HIDE DEF borrow, h
<1>12. /\ borrow = [i \in 1..(n + 1) |-> borrow[i]]
       /\ \A i \in 1..(n + 1) : borrow[i] = IF i > 1 /\ a[i - 1] < At(b, i - 1) + borrow[i - 1] THEN 1 ELSE 0
  BY <1>5, <1>11
<1>13. borrow \in Borrowing(a, g, n)
  <2>1. borrow \in [1..(n + 1) -> 0..1]
    BY <1>12
  <2>2. borrow[1] = 0
    BY <1>9, <1>12
  <2>3. ASSUME NEW i \in 1..n
        PROVE  borrow[i + 1] = IF a[i] < g[i] + borrow[i] THEN 1 ELSE 0
    <3>1. PICK j \in 1..(n + 1) : j = i + 1 /\ j > 1 /\ j - 1 = i
      BY <1>9
    <3>2. borrow[j] = IF j > 1 /\ a[j - 1] < At(b, j - 1) + borrow[j - 1] THEN 1 ELSE 0
      BY <1>12
    <3>3. QED
      BY <1>4, <3>1, <3>2
  <2>4. QED
    BY <2>1, <2>2, <2>3 DEF Borrowing
<1>14. d = [i \in 1..n |-> d[i]] /\ \A i \in 1..n : d[i] = (a[i] - g[i] - borrow[i]) % BASE
  BY <1>1, <1>4
<1> HIDE DEF d
<1>15. /\ Digital(BASE, d, n) /\ borrow[n + 1] \in 0..1
       /\ Val(BASE, d, n) = Val(BASE, a, n) - Val(BASE, g, n) + Power(BASE, n) * borrow[n + 1]
  BY <1>1, <1>6, <1>13, <1>14, BigBase, BorrowedVal
<1>16. d \in Digits /\ Len(d) = n
  <2>1. \A i \in 1..n : d[i] \in Digit
    BY <1>15, BigBase DEF Digital
  <2>2. d \in [1..n -> Digit]
    BY <1>14, <2>1
  <2>3. d \in Seq(Digit) /\ Len(d) = n
    BY <1>1, <2>2, SequenceIs
  <2>4. d # <<>>
    BY <1>1, <2>3
  <2>5. QED
    BY <2>3, <2>4 DEF Digits
<1>17. Magnitude(d) = Val(BASE, d, n) /\ Val(BASE, d, n) < Power(BASE, n) /\ Val(BASE, d, n) \in Nat
  BY <1>16, DigitsAre DEF Digits
<1>18. SubLongLong(a, b) \in Numeral \cup {<<>>}
  BY <1>3, <1>16, TrimIs
<1>19. ASSUME Len(b) <= Len(a), Magnitude(b) <= Magnitude(a)
       PROVE  SubLongLong(a, b) \in Numeral /\ Magnitude(SubLongLong(a, b)) = Magnitude(a) - Magnitude(b)
  <2>1. Val(BASE, d, n) = Magnitude(a) - Magnitude(b) + Power(BASE, n) * borrow[n + 1]
    BY <1>1, <1>5, <1>6, <1>15, <1>19
  <2>2. Power(BASE, n) \in Int
    BY <1>1, BigBase, PowerInt
  <2>3. borrow[n + 1] = 0
    <3>1. SUFFICES ASSUME borrow[n + 1] = 1 PROVE FALSE
      BY <1>15
    <3>2. Power(BASE, n) * 1 = Power(BASE, n)
      BY <2>2
    <3>3. QED
      BY <1>1, <1>2, <1>17, <1>19, <2>1, <2>2, <3>1, <3>2
  <2>4. Power(BASE, n) * 0 = 0
    BY <2>2
  <2>5. Magnitude(d) = Magnitude(a) - Magnitude(b)
    BY <1>1, <1>2, <1>17, <2>1, <2>3, <2>4
  <2>6. SubLongLong(a, b) = Trim(d)
    BY <1>3, <2>3
  <2>7. QED
    BY <1>16, <2>5, <2>6, TrimIs
<1>20. QED
  BY <1>18, <1>19

\* The longer number is the larger one
LEMMA LongerIsLarger ==
    ASSUME NEW a \in Numeral, NEW b \in Numeral, Len(b) < Len(a)
    PROVE  Magnitude(b) < Magnitude(a)
<1>1. Len(a) \in Nat \ {0} /\ Len(b) \in Nat \ {0} /\ a # <<0>>
  BY NumeralIsLarge
<1>2. Power(BASE, Len(a) - 1) <= Magnitude(a)
  BY <1>1, NumeralIsLarge
<1>3. Magnitude(b) < Power(BASE, Len(b)) /\ Magnitude(b) \in Nat /\ Magnitude(a) \in Nat
  BY NumeralIsLarge, DigitsAre
<1>4. PICK n \in Nat : n = Len(a) - 1
  BY <1>1
<1>5. Power(BASE, Len(b)) <= Power(BASE, n)
  <2>1. BASE \in Nat \ {0} /\ Len(b) \in Nat /\ n \in Nat /\ Len(b) <= n
    BY <1>1, <1>4, BigBase
  <2>2. QED
    BY <2>1, PowerOrder
<1>6. Power(BASE, Len(b)) \in Int /\ Power(BASE, n) \in Int
  BY <1>1, BigBase, PowerInt
<1>7. QED
  BY <1>2, <1>3, <1>4, <1>5, <1>6

\* compare_by_abs compares the numbers
LEMMA CompareByAbsIs ==
    ASSUME NEW a \in Numeral, NEW b \in Numeral
    PROVE  /\ CompareByAbs(a, b) \in {-1, 0, 1}
           /\ CompareByAbs(a, b) = 1 <=> Magnitude(b) < Magnitude(a)
           /\ CompareByAbs(a, b) = 0 <=> Magnitude(a) = Magnitude(b)
           /\ CompareByAbs(a, b) = -1 <=> Magnitude(a) < Magnitude(b)
           /\ Magnitude(a) = Magnitude(b) => a = b
           /\ Magnitude(a) <= Magnitude(b) => Len(a) <= Len(b)
<1> DEFINE n == Len(a)
           differ == { i \in DOMAIN a : a[i] # b[i] }
<1>1. /\ a \in Seq(Digit) /\ b \in Seq(Digit) /\ n \in Nat \ {0} /\ n \in Nat /\ Len(b) \in Nat
      /\ Magnitude(a) \in Nat /\ Magnitude(b) \in Nat
  BY NumeralIsLarge, DigitsAre
<1>2. CASE Len(b) < n
  <2>1. Magnitude(b) < Magnitude(a)
    BY <1>2, LongerIsLarger
  <2>2. CompareByAbs(a, b) = 1
    BY <1>1, <1>2 DEF CompareByAbs
  <2>3. QED
    BY <1>1, <1>2, <2>1, <2>2
<1>3. CASE n < Len(b)
  <2>1. Magnitude(a) < Magnitude(b)
    BY <1>3, LongerIsLarger
  <2>2. CompareByAbs(a, b) = -1
    BY <1>1, <1>3 DEF CompareByAbs
  <2>3. QED
    BY <1>1, <1>3, <2>1, <2>2
<1>4. CASE Len(b) = n
  <2>1. /\ DOMAIN a = 1..n /\ Digital(BASE, a, n) /\ Digital(BASE, b, n)
        /\ Magnitude(a) = Val(BASE, a, n) /\ Magnitude(b) = Val(BASE, b, n)
    BY <1>1, <1>4, DigitsAre
  <2>2. CompareByAbs(a, b) = IF differ = {} THEN 0 ELSE IF a[Max(differ)] > b[Max(differ)] THEN 1 ELSE -1
    BY <1>4 DEF CompareByAbs
  <2>3. CASE differ = {}
    <3>1. a = b
      <4>1. \A i \in 1..Len(a) : a[i] = b[i]
        BY <2>1, <2>3
      <4> HIDE DEF differ
      <4>2. QED
        BY <1>1, <1>4, <4>1, SequenceSame
    <3>2. QED
      BY <1>1, <1>4, <2>2, <2>3, <3>1
  <2>4. CASE differ # {}
    <3>1. PICK k \in 1..n : k = Max(differ) /\ a[k] # b[k] /\ \A i \in (k + 1)..n : a[i] = b[i]
      <4>1. differ \in SUBSET (0..n) /\ n \in Nat
        BY <1>1, <2>1
      <4> DEFINE k == Max(differ)
      <4>2. k \in differ /\ \A i \in differ : i <= k
        <5> HIDE DEF differ
        <5>1. QED
          BY <2>4, <4>1, MaxIs
      <4> HIDE DEF k
      <4>3. k \in 1..n /\ a[k] # b[k]
        BY <2>1, <4>2
      <4>4. \A i \in (k + 1)..n : i \in 1..n /\ ~(i <= k)
        BY <1>1, <4>3
      <4>5. \A i \in (k + 1)..n : a[i] = b[i]
        BY <2>1, <4>2, <4>4
      <4>6. QED
        BY <4>3, <4>5 DEF k
    <3> HIDE DEF differ, n
    <3>2. a[k] \in Int /\ b[k] \in Int
      BY <2>1, BigBase DEF Digital
    <3>3. /\ \A i \in 1..n : a[i] \in 0..(BASE - 1) /\ b[i] \in 0..(BASE - 1)
          /\ \A i \in (k + 1)..n : b[i] = a[i]
      BY <2>1, <3>1 DEF Digital
    <3>4. CASE a[k] < b[k]
      <4>1. Val(BASE, a, n) < Val(BASE, b, n)
        BY <1>1, <3>1, <3>3, <3>4, BigBase, ValOrder
      <4>2. CompareByAbs(a, b) = -1
        BY <2>2, <2>4, <3>1, <3>2, <3>4
      <4>3. QED
        BY <1>1, <1>4, <2>1, <4>1, <4>2 DEF n
    <3>5. CASE b[k] < a[k]
      <4>1. Val(BASE, b, n) < Val(BASE, a, n)
        BY <1>1, <3>1, <3>3, <3>5, BigBase, ValOrder
      <4>2. CompareByAbs(a, b) = 1
        BY <2>2, <2>4, <3>1, <3>2, <3>5
      <4>3. QED
        BY <1>1, <1>4, <2>1, <4>1, <4>2 DEF n
    <3>6. QED
      BY <3>1, <3>2, <3>4, <3>5
  <2>5. QED
    BY <2>3, <2>4
<1>5. QED
  BY <1>1, <1>2, <1>3, <1>4

\* A row of the product is added; the place for its carry was zero
LEMMA AddRowIs ==
    ASSUME NEW a \in Digits, NEW b \in Digits, NEW N \in Nat, N = Len(a) + Len(b) + 1,
           NEW acc \in [1..N -> Digit], NEW i \in 1..Len(a)
    PROVE  /\ AddRow(acc, i, a, b) \in [1..N -> Digit]
           /\ AreZero(acc, i + Len(b), N) =>
                /\ AreZero(AddRow(acc, i, a, b), i + 1 + Len(b), N)
                /\ Val(BASE, AddRow(acc, i, a, b), N)
                     = Val(BASE, acc, N) + Power(BASE, i - 1) * (a[i] * Magnitude(b))
<1> DEFINE n == Len(b)
           k == i - 1
           s == [j \in DOMAIN b |-> acc[i + j - 1] + a[i] * b[j]]
           u == [j \in 1..n |-> acc[k + j]]
           row == Carried(s, 0)
           m == Len(row)
           w == [j \in 1..m |-> acc[k + j]]
           new == AddRow(acc, i, a, b)
<1>1. /\ n \in Nat \ {0} /\ n \in Nat /\ DOMAIN b = 1..n /\ Digital(BASE, b, n)
      /\ Magnitude(b) = Val(BASE, b, n) /\ Magnitude(b) \in Nat
      /\ Len(a) \in Nat /\ a[i] \in Digit /\ a[i] \in 0..(BASE - 1) /\ a[i] \in Int
  <2>1. b \in Seq(Digit) /\ b # <<>> /\ a \in Seq(Digit)
    BY DEF Digits
  <2>2. a[i] \in Digit /\ Len(a) \in Nat
    BY <2>1, DigitsAre
  <2>3. QED
    BY <2>1, <2>2, BigBase, DigitsAre
<1>2. acc \in Seq(Digit) /\ Len(acc) = N
  BY SequenceIs
<1>3. new = SubSeq(acc, 1, i - 1) \o row \o SubSeq(acc, i + m, N)
  BY <1>2 DEF AddRow
<1>4. DOMAIN s = 1..n /\ Len(s) = n /\ \A j \in 1..n : s[j] = acc[i + j - 1] + a[i] * b[j]
  BY <1>1
<1>5. \A j \in 1..n : u[j] = acc[k + j]
  OBVIOUS
<1>6. Len(b) = n
  OBVIOUS
<1> HIDE DEF n, s, u
<1>7. k \in Nat /\ k + n + 1 <= N /\ k + 1 = i /\ k + n + 1 \in 1..N /\ k + n + 1 = i + n
  BY <1>1, <1>6
<1>8. \A j \in 1..n : k + j \in 1..N /\ i + j - 1 = k + j
  BY <1>1, <1>7
<1>9. Digital(BASE, u, n)
  BY <1>5, <1>8, BigBase DEF Digital
<1>10. \A j \in 1..n : s[j] = u[j] + a[i] * b[j]
  BY <1>4, <1>5, <1>8
<1>11. Columnar(BASE, s, n) /\ Val(BASE, s, n) = Val(BASE, u, n) + a[i] * Magnitude(b)
  <2>1. BASE \in Base /\ n \in Nat /\ Digital(BASE, u, n) /\ Digital(BASE, b, n) /\ a[i] \in 0..(BASE - 1)
    BY <1>1, <1>9, BigBase
  <2>2. Columnar(BASE, s, n) /\ Val(BASE, s, n) = Val(BASE, u, n) + a[i] * Val(BASE, b, n)
    BY <1>10, <2>1, RowVal
  <2>3. QED
    BY <1>1, <2>2
<1>12. /\ row \in Digits /\ Magnitude(row) = Val(BASE, s, n) + 0
       /\ m = n \/ m = n + 1
  <2>1. n \in Nat \ {0} /\ DOMAIN s = 1..n /\ Len(s) = n /\ Columnar(BASE, s, n) /\ 0 \in Digit
    BY <1>1, <1>4, <1>11, BigBase
  <2>2. QED
    BY <2>1, CarriedIs
<1> HIDE DEF row
<1>13. row \in [1..m -> Digit] /\ m \in Nat /\ Magnitude(row) = Val(BASE, row, m) /\ Digital(BASE, row, m)
  BY <1>12, DigitsAre DEF Digits
<1> HIDE DEF m, new, k
<1>14. /\ new \in [1..N -> Digit] /\ AreEqual(acc, new, k) /\ AreUpper(new, k, row, m)
       /\ AreEqualAbove(acc, new, k + m, N)
  <2>1. k + m <= N /\ k \in Nat /\ m \in Nat
    BY <1>1, <1>7, <1>12, <1>13
  <2>2. i - 1 = k /\ i + m = k + m + 1
    BY <1>7, <1>13
  <2>3. new = Splice(acc, k, row, m, N)
    BY <1>3, <2>2 DEF Splice
  <2>4. QED
    BY <1>13, <2>1, <2>3, Spliced
<1>15. ASSUME AreZero(acc, i + n, N)
       PROVE  /\ AreZero(new, i + 1 + n, N)
              /\ Val(BASE, new, N) = Val(BASE, acc, N) + Power(BASE, k) * (a[i] * Magnitude(b))
  <2>1. /\ \A j \in (i + n)..N : acc[j] = 0
        /\ \A j \in (k + m + 1)..N : new[j] = acc[j]
    BY <1>14, <1>15 DEF AreZero, AreEqualAbove
  <2>2. \A j \in (i + 1 + n)..N : j \in (i + n)..N /\ j \in (k + m + 1)..N
    BY <1>1, <1>7, <1>12
  <2>3. AreZero(new, i + 1 + n, N)
    BY <2>1, <2>2 DEF AreZero
  <2>4. AreZero(acc, k + m + 1, N) /\ AreZero(new, k + m + 1, N)
    <3>1. \A j \in (k + m + 1)..N : j \in (i + n)..N
      BY <1>1, <1>7, <1>12
    <3>2. QED
      BY <2>1, <3>1 DEF AreZero
  <2>5. AreUpper(acc, k, w, m) /\ \A j \in 1..m : w[j] = acc[k + j]
    BY DEF AreUpper
  <2> HIDE DEF w
  <2>6. Val(BASE, new, N) = Val(BASE, acc, N) + Power(BASE, k) * (Val(BASE, row, m) - Val(BASE, w, m))
    <3>1. BASE \in Int /\ k \in Nat /\ m \in Nat /\ N \in Nat /\ k + m <= N
      BY <1>1, <1>7, <1>12, <1>13, BigBase
    <3>2. \A j \in 1..N : acc[j] \in Int /\ new[j] \in Int
      BY <1>14, BigBase
    <3>3. /\ AreEqual(acc, new, k) /\ AreUpper(acc, k, w, m) /\ AreUpper(new, k, row, m)
      BY <1>14, <2>5
    <3>4. AreZero(acc, k + m + 1, N) /\ AreZero(new, k + m + 1, N)
      BY <2>4
    <3>5. QED
      BY <3>1, <3>2, <3>3, <3>4, ValMiddle, SMTT(60)
  <2>7. Val(BASE, w, m) = Val(BASE, u, n)
    <3>1. \A j \in 1..n : j \in 1..m
      BY <1>1, <1>12
    <3>2. \A j \in 1..n : w[j] \in Int /\ w[j] = u[j]
      BY <1>5, <1>9, <2>5, <3>1, BigBase DEF Digital
    <3>3. Val(BASE, w, n) = Val(BASE, u, n)
      <4>1. BASE \in Int /\ n \in Nat
        BY <1>1, BigBase
      <4>2. QED
        BY <3>2, <4>1, ValSame
    <3>4. CASE m = n + 1
      <4>1. w[m] = 0
        <5>1. m \in 1..m /\ k + m = i + n /\ i + n \in (i + n)..N
          BY <1>1, <1>7, <3>4
        <5>2. QED
          BY <2>1, <2>5, <5>1
      <4>2. \A j \in 1..m : w[j] \in Int
        <5>1. \A j \in 1..m : j \in 1..n \/ j = m
          BY <1>1, <3>4
        <5>2. QED
          BY <3>2, <4>1, <5>1
      <4>3. \A j \in (n + 1)..m : w[j] = 0
        <5>1. \A j \in (n + 1)..m : j = m
          BY <1>1, <3>4
        <5>2. QED
          BY <4>1, <5>1
      <4>4. BASE \in Int /\ m \in Nat /\ n \in 0..m
        BY <1>1, <3>4, BigBase
      <4>5. Val(BASE, w, m) = Val(BASE, w, n)
        BY <4>2, <4>3, <4>4, ValPadded
      <4>6. QED
        BY <3>3, <4>5
    <3>5. QED
      BY <1>12, <3>3, <3>4
  <2>8. Val(BASE, row, m) - Val(BASE, w, m) = a[i] * Magnitude(b)
    <3>1. Val(BASE, u, n) \in Int /\ a[i] * Magnitude(b) \in Int
      <4>1. Val(BASE, u, n) \in Nat
        BY <1>1, <1>9, BigBase, DigitsAreColumns
      <4>2. QED
        BY <1>1, <4>1
    <3>2. QED
      BY <1>11, <1>12, <1>13, <2>7, <3>1
  <2>9. QED
    BY <2>3, <2>6, <2>8
<1>16. QED
  BY <1>14, <1>15 DEF new, k, n

\* Digits are multiplied
LEMMA MulLongLongIs ==
    ASSUME NEW a \in Digits, NEW b \in Digits
    PROVE  /\ MulLongLong(a, b) \in Numeral
           /\ Magnitude(MulLongLong(a, b)) = Magnitude(a) * Magnitude(b)
<1>1. /\ a \in Seq(Digit) /\ b \in Seq(Digit) /\ Len(a) \in Nat \ {0} /\ Len(b) \in Nat \ {0}
      /\ Magnitude(a) \in Nat /\ Magnitude(b) \in Nat
  BY DigitsAre DEF Digits
<1>2. CASE Len(b) = 1
  <2>1. b[1] \in Digit /\ b = <<b[1]>>
    <3>1. b \in Seq(Digit) /\ Len(b) = 1 /\ 1 \in 1..Len(b)
      BY <1>1, <1>2
    <3>2. b[1] \in Digit
      BY <3>1
    <3>3. b = <<b[1]>>
      BY <3>1
    <3>4. QED
      BY <3>2, <3>3
  <2>2. Magnitude(b) = b[1]
    BY <2>1, OneDigit
  <2>3. MulLongLong(a, b) = MulLongShort(a, b[1])
    BY <1>2 DEF MulLongLong
  <2>4. QED
    BY <2>1, <2>2, <2>3, MulLongShortIs
<1>3. CASE Len(b) # 1
  <2> DEFINE n == Len(a)
             N == Len(a) + Len(b) + 1
             Y == [1..N -> Digit]
             zero == [k \in 1..(Len(a) + Len(b) + 1) |-> 0]
             step == [i \in 1..n |-> [x \in Y |-> AddRow(x, i, a, b)]]
             acc == CHOOSE acc : acc = [i \in 0..Len(a) |->
                       IF i = 0 THEN [k \in 1..(Len(a) + Len(b) + 1) |-> 0] ELSE AddRow(acc[i - 1], i, a, b)]
             V == Magnitude(b)
  <2>1. n \in Nat \ {0} /\ n \in Nat /\ N \in Nat \ {0} /\ N \in Nat /\ N = n + Len(b) + 1 /\ V \in Nat
    BY <1>1
  <2>2. MulLongLong(a, b) = Trim(acc[n])
    BY <1>3 DEF MulLongLong
  <2>3. zero \in Y /\ \A k \in 1..N : zero[k] = 0
    BY BigBase
  <2>4. \A i \in 1..n, x \in Y : AddRow(x, i, a, b) \in Y
    BY <2>1, AddRowIs
  <2>5. step \in [1..n -> [Y -> Y]] /\ \A i \in 1..n, x \in Y : step[i][x] = AddRow(x, i, a, b)
    BY <2>4
  <2> HIDE DEF n, N, step, V
  <2>6. PICK f \in [0..n -> Y] : f[0] = zero /\ \A i \in 1..n : f[i] = step[i][f[i - 1]]
    <3>1. Rising(n, Y, zero, step) # {}
      BY <2>1, <2>3, <2>5, RecursionUp
    <3>2. QED
      BY <3>1 DEF Rising
  <2>7. /\ \A i \in 0..n : i # 0 => i \in 1..n
        /\ \A i \in 1..n : i - 1 \in 0..n /\ i \in 0..n /\ i # 0
        /\ 0 \in 0..n /\ n \in 0..n
    BY <2>1
  <2>8. \A i \in 1..n : f[i] = AddRow(f[i - 1], i, a, b)
    BY <2>5, <2>6, <2>7
  <2> DEFINE h == [i \in 0..Len(a) |-> IF i = 0 THEN [k \in 1..(Len(a) + Len(b) + 1) |-> 0] ELSE AddRow(f[i - 1], i, a, b)]
  <2>9. f = h
    <3>1. f = [i \in 0..n |-> f[i]]
      BY <2>6
    <3>2. h = [i \in 0..n |-> h[i]]
      BY DEF n
    <3>3. \A i \in 0..n : h[i] = IF i = 0 THEN zero ELSE AddRow(f[i - 1], i, a, b)
      BY DEF n
    <3> HIDE DEF h, zero
    <3>4. \A i \in 0..n : f[i] = h[i]
      BY <2>6, <2>7, <2>8, <3>3
    <3>5. QED
      BY <3>1, <3>2, <3>4, Extensional
  <2>10. acc = [i \in 0..Len(a) |-> IF i = 0 THEN [k \in 1..(Len(a) + Len(b) + 1) |-> 0] ELSE AddRow(acc[i - 1], i, a, b)]
    BY <2>9
  <2> HIDE DEF acc, h
  <2>11. acc[0] = zero /\ \A i \in 1..n : acc[i] = AddRow(acc[i - 1], i, a, b)
    <3>1. acc = [i \in 0..n |-> IF i = 0 THEN zero ELSE AddRow(acc[i - 1], i, a, b)]
      BY <2>10 DEF n
    <3> HIDE DEF zero
    <3>2. QED
      BY <2>7, <3>1
  <2> HIDE DEF zero
  <2> DEFINE Good(i) == /\ acc[i] \in Y /\ AreZero(acc[i], i + 1 + Len(b), N)
                        /\ Val(BASE, acc[i], N) = Val(BASE, a, i) * V
             S == { i \in 0..n : Good(i) }
  <2>12. 0 \in S
    <3>1. acc[0] \in Y /\ \A j \in 1..N : acc[0][j] = 0
      BY <2>3, <2>11
    <3>2. AreZero(acc[0], 0 + 1 + Len(b), N)
      <4>1. \A j \in (0 + 1 + Len(b))..N : j \in 1..N
        BY <1>1, <2>1
      <4>2. QED
        BY <3>1, <4>1 DEF AreZero
    <3>3. Val(BASE, acc[0], N) = 0
      BY <2>1, <3>1, BigBase, ValZero
    <3>4. Val(BASE, a, 0) = 0 /\ 0 * V = 0
      BY <2>1, BigBase, ValFew
    <3>5. QED
      BY <2>7, <3>1, <3>2, <3>3, <3>4
  <2>13. ASSUME NEW k \in Int, 0 <= k, k < n, k \in S
         PROVE  k + 1 \in S
    <3>1. PICK i \in 1..n : i = k + 1 /\ i - 1 = k /\ k + 1 - 1 = k
      <4>1. k + 1 \in 1..n /\ k + 1 - 1 = k
        <5> HIDE DEF S
        <5>1. QED
          BY <2>1, <2>13
      <4>2. QED
        BY <4>1
    <3>2. acc[i] = AddRow(acc[k], i, a, b)
      BY <2>11, <3>1
    <3>3. /\ acc[k] \in Y /\ AreZero(acc[k], i + Len(b), N)
          /\ Val(BASE, acc[k], N) = Val(BASE, a, k) * V
      BY <2>13, <3>1
    <3>4. /\ AddRow(acc[k], i, a, b) \in Y
          /\ AreZero(AddRow(acc[k], i, a, b), i + 1 + Len(b), N)
          /\ Val(BASE, AddRow(acc[k], i, a, b), N)
               = Val(BASE, acc[k], N) + Power(BASE, i - 1) * (a[i] * Magnitude(b))
      <4>1. i \in 1..Len(a) /\ N \in Nat /\ N = Len(a) + Len(b) + 1 /\ acc[k] \in [1..N -> Digit]
        BY <2>1, <3>3 DEF n
      <4>2. QED
        BY <3>3, <4>1, AddRowIs
    <3>5. PICK p \in Int, x \in Int, v \in Int, w \in Int :
               /\ p = Power(BASE, k) /\ x = a[i]
               /\ v = Val(BASE, a, k) /\ w = Val(BASE, a, i)
               /\ w = v + p * x
      <4>1. k \in Nat /\ i \in Nat \ {0} /\ i - 1 = k
        BY <2>13, <3>1
      <4>2. \A j \in 1..n : a[j] \in Int
        BY <1>1, BigBase DEF n
      <4>3. \A j \in 1..i : a[j] \in Int
        BY <2>1, <4>2
      <4>4. \A j \in 1..k : a[j] \in Int
        <5>1. \A j \in 1..k : j \in 1..i
          BY <3>1
        <5>2. QED
          BY <4>3, <5>1
      <4>5. Val(BASE, a, i) = Val(BASE, a, i - 1) + Power(BASE, i - 1) * a[i]
        BY <4>1, <4>3, BigBase, ValLast
      <4>6. Val(BASE, a, k) \in Int /\ Val(BASE, a, i) \in Int /\ Power(BASE, k) \in Int
        BY <4>1, <4>3, <4>4, BigBase, ValInt, PowerInt
      <4>7. QED
        BY <4>1, <4>2, <4>5, <4>6
    <3>6. Val(BASE, acc[i], N) = v * V + p * (x * V)
      BY <3>1, <3>2, <3>3, <3>4, <3>5 DEF V
    <3>7. (v + p * x) * V = v * V + p * (x * V)
      BY <2>1
    <3>8. Good(i)
      BY <3>2, <3>4, <3>5, <3>6, <3>7
    <3>9. QED
      BY <2>7, <3>1, <3>8
  <2>14. \A i \in Int : 0 <= i /\ i < n /\ i \in S => i + 1 \in S
    BY <2>13
  <2>15. Good(n)
    <3>1. 0 \in Int /\ n \in Int /\ 0 <= n /\ n \in 0..n
      BY <2>1
    <3>2. 0..n \subseteq S
      <4> HIDE DEF S
      <4>1. QED
        BY <2>12, <2>14, <3>1, Upwards
    <3>3. QED
      BY <3>1, <3>2
  <2>16. acc[n] \in Digits /\ Len(acc[n]) = N
    <3>1. acc[n] \in Seq(Digit) /\ Len(acc[n]) = N
      <4>1. PICK z \in [1..N -> Digit] : z = acc[n]
        BY <2>15
      <4>2. z \in Seq(Digit) /\ Len(z) = N
        <5>1. N \in Nat
          BY <2>1
        <5>2. QED
          BY <5>1, SequenceIs
      <4>3. QED
        BY <4>1, <4>2
    <3>2. acc[n] # <<>>
      BY <2>1, <3>1
    <3>3. QED
      BY <3>1, <3>2 DEF Digits
  <2>17. Magnitude(acc[n]) = Magnitude(a) * V
    <3>1. Magnitude(acc[n]) = Val(BASE, acc[n], N)
      BY <2>16, DigitsAre DEF Digits
    <3>2. Magnitude(a) = Val(BASE, a, n)
      BY <1>1, DigitsAre DEF n
    <3>3. QED
      BY <2>15, <3>1, <3>2
  <2>18. QED
    BY <2>2, <2>16, <2>17, TrimIs DEF V
<1>4. QED
  BY <1>2, <1>3

\* get_remainder
LEMMA ShortDivideIs ==
    ASSUME NEW a \in Digits, NEW d \in Digit \ {0}
    PROVE  /\ ShortDivide(a, d).quotient \in Numeral /\ ShortDivide(a, d).remainder \in 0..(d - 1)
           /\ Magnitude(a) = d * Magnitude(ShortDivide(a, d).quotient) + ShortDivide(a, d).remainder
<1> DEFINE n == Len(a)
           rest == CHOOSE rest : rest = [i \in 1..(Len(a) + 1) |->
                     IF i > Len(a) THEN 0 ELSE (a[i] + rest[i + 1] * BASE) % d]
           q == [i \in DOMAIN a |-> (a[i] + rest[i + 1] * BASE) \div d]
<1>1. /\ n \in Nat \ {0} /\ n \in Nat /\ BASE \in Base /\ Len(a) = n /\ DOMAIN a = 1..n /\ Digital(BASE, a, n)
      /\ Magnitude(a) = Val(BASE, a, n)
  BY DigitsAre, BigBase DEF Digits
<1>2. d \in Nat \ {0}
  BY BigBase
<1>3. ShortDivide(a, d).quotient = Trim(q) /\ ShortDivide(a, d).remainder = rest[1]
  BY DEF ShortDivide
<1> HIDE DEF n
<1>4. PICK r : r \in Dividing(BASE, a, n, d)
  BY <1>1, <1>2, DividingExists
<1>5. /\ r \in [1..(n + 1) -> 0..(d - 1)] /\ r[n + 1] = 0
      /\ \A i \in 1..n : r[i] = (a[i] + r[i + 1] * BASE) % d
  BY <1>4 DEF Dividing
<1>6. /\ \A i \in 1..(n + 1) : i > n => i = n + 1
      /\ \A i \in 1..(n + 1) : ~(i > n) => i \in 1..n
      /\ \A i \in 1..n : i \in 1..(n + 1) /\ i + 1 \in 1..(n + 1) /\ ~(i > n)
      /\ 1 \in 1..(n + 1) /\ n + 1 \in 1..(n + 1) /\ n + 1 > n
  BY <1>1
<1> DEFINE h == [i \in 1..(Len(a) + 1) |-> IF i > Len(a) THEN 0 ELSE (a[i] + r[i + 1] * BASE) % d]
<1>7. r = h
  <2>1. r = [i \in 1..(n + 1) |-> r[i]]
    BY <1>5
  <2>2. h = [i \in 1..(n + 1) |-> h[i]]
    BY <1>1
  <2>3. \A i \in 1..(n + 1) : r[i] = h[i]
    BY <1>1, <1>5, <1>6
  <2> HIDE DEF h
  <2>4. QED
    BY <2>1, <2>2, <2>3, Extensional
<1>8. rest = [i \in 1..(Len(a) + 1) |-> IF i > Len(a) THEN 0 ELSE (a[i] + rest[i + 1] * BASE) % d]
  BY <1>7
<1> HIDE DEF rest, h
<1>9. /\ rest = [i \in 1..(n + 1) |-> rest[i]] /\ rest[n + 1] = 0
      /\ \A i \in 1..n : rest[i] = (a[i] + rest[i + 1] * BASE) % d
  BY <1>1, <1>6, <1>8
<1>10. \A i \in 1..(n + 1) : rest[i] = r[i]
  <2> DEFINE S == { i \in 1..(n + 1) : rest[i] = r[i] }
  <2>1. n + 1 \in S /\ 1 \in Int /\ n + 1 \in Int /\ 1 <= n + 1
    BY <1>1, <1>5, <1>6, <1>9
  <2>2. ASSUME NEW i \in Int, 1 <= i, i < n + 1, i + 1 \in S
        PROVE  i \in S
    <3>1. i \in 1..n
      BY <1>1, <2>2
    <3>2. QED
      BY <1>5, <1>6, <1>9, <2>2, <3>1
  <2>3. \A i \in Int : 1 <= i /\ i < n + 1 /\ i + 1 \in S => i \in S
    BY <2>2
  <2>4. 1..(n + 1) \subseteq S
    <3> HIDE DEF S
    <3>1. QED
      BY <2>1, <2>3, Downwards
  <2>5. QED
    BY <2>4
<1>11. \A i \in 1..n : q[i] = (a[i] + r[i + 1] * BASE) \div d
  BY <1>1, <1>6, <1>10
<1>12. q = [i \in 1..n |-> q[i]]
  BY <1>1
<1> HIDE DEF q
<1>13. /\ Digital(BASE, q, n) /\ r[1] \in 0..(d - 1)
       /\ Val(BASE, a, n) = d * Val(BASE, q, n) + r[1]
  <2>1. AreQuotients(BASE, q, a, r, n, d)
    BY <1>11 DEF AreQuotients
  <2>2. n \in Nat /\ BASE \in Base /\ Digital(BASE, a, n) /\ d \in Nat \ {0}
    BY <1>1, <1>2
  <2>3. QED
    BY <1>4, <2>1, <2>2, DividedVal
<1>14. q \in Digits /\ Len(q) = n
  <2>1. \A i \in 1..n : q[i] \in Digit
    BY <1>13, BigBase DEF Digital
  <2>2. q \in [1..n -> Digit]
    BY <1>12, <2>1
  <2>3. q \in Seq(Digit) /\ Len(q) = n
    BY <1>1, <2>2, SequenceIs
  <2>4. q # <<>>
    BY <1>1, <2>3
  <2>5. QED
    BY <2>3, <2>4 DEF Digits
<1>15. Magnitude(q) = Val(BASE, q, n)
  BY <1>14, DigitsAre DEF Digits
<1>16. rest[1] = r[1]
  BY <1>6, <1>10
<1>17. QED
  BY <1>1, <1>3, <1>13, <1>14, <1>15, <1>16, TrimIs

\* The digit of the quotient is the largest one that fits
LEMMA DigitOfQuotientIs ==
    ASSUME NEW s \in Numeral, NEW b \in Numeral, Magnitude(s) < Magnitude(b) * BASE
    PROVE  /\ DigitOfQuotient(s, b) \in Digit
           /\ Magnitude(b) * DigitOfQuotient(s, b) <= Magnitude(s)
           /\ Magnitude(s) < Magnitude(b) * DigitOfQuotient(s, b) + Magnitude(b)
<1> DEFINE K == { k \in Digit : CompareByAbs(MulLongShort(b, k), s) # 1 }
           k == DigitOfQuotient(s, b)
<1>1. b \in Digits /\ s \in Digits /\ Magnitude(b) \in Nat /\ Magnitude(s) \in Nat
  BY NumeralIsLarge, DigitsAre
<1>2. \A d \in Digit : d \in K <=> Magnitude(b) * d <= Magnitude(s)
  <2>1. ASSUME NEW d \in Digit
        PROVE  d \in K <=> Magnitude(b) * d <= Magnitude(s)
    <3>1. MulLongShort(b, d) \in Numeral /\ Magnitude(MulLongShort(b, d)) = Magnitude(b) * d
      BY <1>1, MulLongShortIs
    <3>2. CompareByAbs(MulLongShort(b, d), s) = 1 <=> Magnitude(s) < Magnitude(b) * d
      BY <3>1, CompareByAbsIs
    <3>3. Magnitude(b) * d \in Int
      <4>1. d \in Int
        BY BigBase
      <4>2. QED
        BY <1>1, <4>1
    <3>4. QED
      BY <1>1, <3>2, <3>3
  <2>2. QED
    BY <2>1
<1>3. K \subseteq Digit
  OBVIOUS
<1>4. k = Max(K)
  BY DEF DigitOfQuotient
<1> HIDE DEF K, k
<1>5. k \in K /\ \A d \in K : d <= k
  <2>1. 0 \in K
    <3>1. Magnitude(b) * 0 = 0
      BY <1>1
    <3>2. QED
      BY <1>1, <1>2, <3>1, BigBase
  <2>2. PICK m \in Nat : m = BASE - 1
    BY BigBase
  <2>3. K \in SUBSET (0..m) /\ K # {}
    BY <1>3, <2>1, <2>2, BigBase
  <2>4. QED
    BY <1>4, <2>3, MaxIs
<1>6. k \in Digit /\ k \in Int /\ k <= BASE - 1
  BY <1>3, <1>5, BigBase
<1>7. PICK m \in Nat, p \in Int, x \in Nat : m = Magnitude(b) /\ p = m * k /\ x = Magnitude(s)
  <2>1. Magnitude(b) * k \in Int
    BY <1>1, <1>6
  <2>2. QED
    BY <1>1, <2>1
<1>8. p <= x
  BY <1>2, <1>5, <1>6, <1>7
<1>9. x < p + m
  <2>1. CASE k = BASE - 1
    <3>1. m * BASE = m * k + m
      <4>1. BASE = k + 1
        BY <1>6, <2>1, BigBase
      <4>2. m * (k + 1) = m * k + m
        BY <1>6
      <4>3. QED
        BY <4>1, <4>2
    <3>2. x < m * BASE
      BY <1>7
    <3>3. QED
      BY <1>7, <3>1, <3>2
  <2>2. CASE k # BASE - 1
    <3>1. k + 1 \in Digit /\ ~(k + 1 <= k)
      BY <1>6, <2>2, BigBase
    <3>2. ~(m * (k + 1) <= x)
      BY <1>2, <1>5, <1>7, <3>1
    <3>3. m * (k + 1) = m * k + m
      BY <1>6
    <3>4. QED
      BY <1>7, <3>2, <3>3
  <2>3. QED
    BY <2>1, <2>2
<1>10. QED
  BY <1>6, <1>7, <1>8, <1>9 DEF k

\* One digit of the quotient, and what is left of the rest t
Cell(t, b) == [rest |-> SubLongLong(t, MulLongShort(b, DigitOfQuotient(t, b))),
               k    |-> DigitOfQuotient(t, b)]

\* The rests of divisions by b
Rest(b)  == { s \in Numeral : Magnitude(s) < Magnitude(b) }
Cells(b) == [rest : Rest(b), k : Digit]

\* One step of the long division: a digit of the quotient and the remainder below the divisor
LEMMA CellIs ==
    ASSUME NEW t \in Numeral, NEW b \in Numeral, Magnitude(t) < Magnitude(b) * BASE
    PROVE  /\ Cell(t, b) \in Cells(b)
           /\ Magnitude(t) = Magnitude(b) * Cell(t, b).k + Magnitude(Cell(t, b).rest)
<1> DEFINE k == DigitOfQuotient(t, b)
           p == MulLongShort(b, k)
           s == SubLongLong(t, p)
<1>1. /\ b \in Digits /\ t \in Digits /\ Magnitude(b) \in Nat /\ Magnitude(t) \in Nat
      /\ Len(b) \in Nat /\ Len(t) \in Nat
  BY NumeralIsLarge, DigitsAre
<1>2. k \in Digit /\ Magnitude(b) * k <= Magnitude(t) /\ Magnitude(t) < Magnitude(b) * k + Magnitude(b)
  BY DigitOfQuotientIs
<1> HIDE DEF k
<1>3. p \in Numeral /\ Magnitude(p) = Magnitude(b) * k
  BY <1>1, <1>2, MulLongShortIs
<1> HIDE DEF p
<1>4. p \in Digits /\ Magnitude(p) \in Nat
  BY <1>3, NumeralIsLarge, DigitsAre
<1>5. Magnitude(p) <= Magnitude(t) /\ Len(p) <= Len(t)
  <2>1. Magnitude(p) <= Magnitude(t)
    BY <1>2, <1>3
  <2>2. QED
    BY <1>3, <2>1, CompareByAbsIs
<1>6. s \in Numeral /\ Magnitude(s) = Magnitude(t) - Magnitude(p)
  BY <1>1, <1>4, <1>5, SubLongLongIs
<1> HIDE DEF s
<1>7. Magnitude(s) < Magnitude(b) /\ Magnitude(t) = Magnitude(b) * k + Magnitude(s)
  BY <1>1, <1>2, <1>3, <1>4, <1>6
<1>8. Cell(t, b) = [rest |-> s, k |-> k]
  BY DEF Cell, s, p, k
<1>9. QED
  BY <1>2, <1>6, <1>7, <1>8 DEF Rest, Cells

\* The next digit joins the rest
LEMMA JoinedIs ==
    ASSUME NEW d \in Digit, NEW s \in Digits
    PROVE  Joined(d, s) \in Numeral /\ Magnitude(Joined(d, s)) = d + BASE * Magnitude(s)
<1> DEFINE t == <<d>> \o s
           m == Len(s)
           n == m + 1
<1>1. s \in Seq(Digit) /\ m \in Nat /\ Magnitude(s) = Val(BASE, s, m) /\ Magnitude(s) \in Nat
  BY DigitsAre DEF Digits
<1>2. t \in Seq(Digit) /\ Len(t) = n /\ t[1] = d /\ \A i \in 1..m : t[1 + i] = s[i]
  <2>1. <<d>> \in Seq(Digit) /\ Len(<<d>>) = 1 /\ <<d>>[1] = d
    OBVIOUS
  <2> DEFINE e == <<d>>
  <2> HIDE DEF e
  <2>2. /\ e \o s \in Seq(Digit) /\ Len(e \o s) = Len(e) + Len(s)
        /\ \A i \in 1..Len(e) : (e \o s)[i] = e[i]
        /\ \A i \in 1..Len(s) : (e \o s)[Len(e) + i] = s[i]
    BY <1>1, <2>1, ConcatIs DEF e
  <2>3. Len(e) = 1 /\ e[1] = d /\ 1 \in 1..1
    BY <2>1 DEF e
  <2>4. t = e \o s
    BY DEF e
  <2> HIDE DEF t
  <2>5. QED
    BY <1>1, <2>2, <2>3, <2>4
<1> HIDE DEF t
<1>3. t \in Digits
  <2>1. t # <<>>
    BY <1>1, <1>2
  <2>2. QED
    BY <1>2, <2>1 DEF Digits
<1>4. n \in Nat /\ Magnitude(t) = Val(BASE, t, n) /\ Digital(BASE, t, n)
  BY <1>1, <1>2, DigitsAre
<1> HIDE DEF n, m
<1>5. Val(BASE, t, n) = Val(BASE, t, 1) + Power(BASE, 1) * Val(BASE, s, m)
  <2>1. BASE \in Int /\ n \in Nat /\ 1 \in Nat /\ m \in Nat /\ n = 1 + m
    BY <1>1, <1>4, BigBase DEF n
  <2>2. \A i \in 1..n : t[i] \in Int
    BY <1>4, BigBase DEF Digital
  <2>3. AreUpper(t, 1, s, m)
    BY <1>2 DEF AreUpper
  <2>4. QED
    BY <2>1, <2>2, <2>3, ValSplit
<1>6. Val(BASE, t, 1) = d
  <2>1. t[1] \in Int
    BY <1>2, BigBase
  <2>2. QED
    BY <1>2, <2>1, BigBase, ValFew
<1>7. Power(BASE, 1) = BASE
  <2>1. Power(BASE, 0) = 1 /\ Power(BASE, 0 + 1) = BASE * Power(BASE, 0)
    BY BigBase, PowerIs
  <2>2. QED
    BY <2>1, BigBase
<1>8. Joined(d, s) = Trim(t)
  BY DEF Joined, t
<1>9. QED
  BY <1>1, <1>3, <1>4, <1>5, <1>6, <1>7, <1>8, TrimIs

\* The upper digits the division starts from
LEMMA UpperIs ==
    ASSUME NEW a \in Numeral, NEW b \in Numeral, a # << 0 >>, b # << 0 >>, NEW x \in Nat, Len(a) = x + Len(b)
    PROVE  /\ SubSeq(a, x + 1, Len(a)) \in Numeral
           /\ Magnitude(SubSeq(a, x + 1, Len(a))) < Magnitude(b) * BASE
           /\ Magnitude(a) = Val(BASE, a, x) + Power(BASE, x) * Magnitude(SubSeq(a, x + 1, Len(a)))
<1> DEFINE n == Len(a)
           m == Len(b)
           t == SubSeq(a, x + 1, n)
<1>1. /\ a \in Seq(Digit) /\ n \in Nat \ {0} /\ n \in Nat /\ a[n] # 0 /\ m \in Nat \ {0} /\ m \in Nat
      /\ Power(BASE, m - 1) <= Magnitude(b) /\ n = x + m
  BY NumeralIsLarge
<1>2. Digital(BASE, a, n) /\ Magnitude(a) = Val(BASE, a, n)
  BY <1>1, DigitsAre
<1>3. t \in Seq(Digit) /\ Len(t) = m /\ \A i \in 1..m : t[i] = a[x + i]
  <2>1. x + 1 \in 1..n /\ n \in 1..n /\ n - (x + 1) + 1 = m
    BY <1>1
  <2>2. t \in Seq(Digit) /\ Len(t) = m
    BY <1>1, <2>1
  <2>3. ASSUME NEW i \in 1..m
        PROVE  t[i] = a[x + i]
    <3>1. t[i] = a[x + 1 + i - 1] /\ x + 1 + i - 1 = x + i
      BY <1>1, <2>1
    <3>2. QED
      BY <3>1
  <2>4. QED
    BY <2>2, <2>3
<1> HIDE DEF n, m, t
<1>4. t \in Numeral
  <2>1. m \in 1..m /\ x + m = n
    BY <1>1
  <2>2. t[m] # 0
    BY <1>1, <1>3, <2>1
  <2>3. t # <<>>
    BY <1>1, <1>3
  <2>4. QED
    BY <1>3, <2>2, <2>3 DEF Numeral, Digits
<1>5. Magnitude(t) = Val(BASE, t, m) /\ Magnitude(t) < Power(BASE, m) /\ Magnitude(t) \in Nat
  BY <1>3, DigitsAre
<1>6. Magnitude(t) < Magnitude(b) * BASE
  <2>1. PICK k \in Nat : k = m - 1 /\ m = k + 1
    BY <1>1
  <2>2. PICK p \in Int, v \in Nat, B \in Nat : p = Power(BASE, k) /\ v = Magnitude(b) /\ B = BASE
    <3>1. Power(BASE, k) \in Int /\ Magnitude(b) \in Nat /\ BASE \in Nat
      BY BigBase, PowerInt, NumeralIsLarge, DigitsAre
    <3>2. QED
      BY <3>1
  <2>3. Power(BASE, m) = B * p
    BY <2>1, <2>2, BigBase, PowerIs
  <2>4. p <= v
    BY <1>1, <2>1, <2>2
  <2>5. B * p <= v * B
    <3>1. B * p <= B * v /\ B * v = v * B
      BY <2>4
    <3>2. QED
      BY <3>1
  <2>6. B * p \in Int /\ v * B \in Int
    OBVIOUS
  <2>7. QED
    BY <1>5, <2>2, <2>3, <2>5, <2>6
<1>7. Val(BASE, a, n) = Val(BASE, a, x) + Power(BASE, x) * Val(BASE, t, m)
  <2>1. BASE \in Int /\ n \in Nat /\ x \in Nat /\ m \in Nat /\ n = x + m
    BY <1>1, BigBase
  <2>2. \A i \in 1..n : a[i] \in Int
    BY <1>2, BigBase DEF Digital
  <2>3. AreUpper(a, x, t, m)
    BY <1>3 DEF AreUpper
  <2>4. QED
    BY <2>1, <2>2, <2>3, ValSplit
<1>8. QED
  BY <1>2, <1>4, <1>5, <1>6, <1>7 DEF t, n

\* A digit after what is less than z is less than z with a digit more
LEMMA LessThanNext ==
    ASSUME NEW B \in Nat, NEW d \in Nat, d < B, NEW y \in Nat, NEW z \in Nat, y < z
    PROVE  d + B * y < z * B
<1>1. y + 1 <= z
  OBVIOUS
<1>2. B * (y + 1) <= B * z /\ B * (y + 1) = B * y + B /\ B * z = z * B
  BY <1>1
<1>3. B * y \in Int /\ z * B \in Int
  OBVIOUS
<1>4. QED
  BY <1>2, <1>3

\* The cells of the division: each of the lower digits after the upper ones
LEMMA CellsExist ==
    ASSUME NEW a \in Digits, NEW b \in Numeral, NEW x \in Nat, x <= Len(a),
           NEW top \in Cells(b)
    PROVE  \E f \in [1..(x + 1) -> Cells(b)] :
              f[x + 1] = top /\ \A i \in 1..x : f[i] = Cell(Joined(a[i], f[i + 1].rest), b)
<1> DEFINE Y == Cells(b)
           step == [i \in 1..x |-> [r \in Y |-> Cell(Joined(a[i], r.rest), b)]]
<1>1. \A i \in 1..x : a[i] \in Digit
  <2>1. a \in Seq(Digit) /\ Len(a) \in Nat
    BY DigitsAre DEF Digits
  <2>2. \A i \in 1..x : i \in 1..Len(a)
    BY <2>1
  <2>3. QED
    BY <2>1, <2>2
<1>2. ASSUME NEW d \in Digit, NEW s \in Rest(b)
      PROVE  /\ Joined(d, s) \in Numeral /\ Magnitude(Joined(d, s)) = d + BASE * Magnitude(s)
             /\ Magnitude(Joined(d, s)) < Magnitude(b) * BASE
  <2>1. s \in Numeral /\ s \in Digits /\ Magnitude(s) < Magnitude(b)
    BY NumeralIsLarge DEF Rest
  <2>2. Joined(d, s) \in Numeral /\ Magnitude(Joined(d, s)) = d + BASE * Magnitude(s)
    BY <2>1, JoinedIs
  <2>3. Magnitude(s) \in Nat /\ Magnitude(b) \in Nat
    BY <2>1, NumeralIsLarge, DigitsAre
  <2>4. BASE \in Nat /\ d \in Nat /\ d < BASE
    BY BigBase
  <2>5. QED
    BY <2>1, <2>2, <2>3, <2>4, LessThanNext
<1>3. step \in [1..x -> [Y -> Y]] /\ \A i \in 1..x, r \in Y : step[i][r] = Cell(Joined(a[i], r.rest), b)
  <2>1. ASSUME NEW i \in 1..x, NEW r \in Y
        PROVE  Cell(Joined(a[i], r.rest), b) \in Y
    BY <1>1, <1>2, CellIs DEF Cells
  <2>2. QED
    BY <2>1
<1> HIDE DEF step
<1>4. PICK f \in [1..(x + 1) -> Y] : f[x + 1] = top /\ \A i \in 1..x : f[i] = step[i][f[i + 1]]
  <2>1. Falling(x, Y, top, step) # {}
    BY <1>3, RecursionDown
  <2>2. QED
    BY <2>1 DEF Falling
<1>5. \A i \in 1..x : f[i] = Cell(Joined(a[i], f[i + 1].rest), b)
  <2>1. \A i \in 1..x : i + 1 \in 1..(x + 1)
    OBVIOUS
  <2>2. QED
    BY <1>3, <1>4, <2>1
<1>6. QED
  BY <1>4, <1>5

\* Division digit by digit
LEMMA LongDivideIs ==
    ASSUME NEW a \in Numeral, NEW b \in Numeral, a # << 0 >>, b # << 0 >>, Len(b) <= Len(a)
    PROVE  /\ LongDivide(a, b) \in Numeral
           /\ \E r \in Nat : /\ r < Magnitude(b)
                             /\ Magnitude(a) = Magnitude(b) * Magnitude(LongDivide(a, b)) + r
<1> DEFINE x == Len(a) - Len(b)
           t == SubSeq(a, x + 1, Len(a))
           step == CHOOSE step : step = [i \in 0..(x + 1) |->
                      LET tail == IF i = x THEN SubSeq(a, x + 1, Len(a)) ELSE Joined(a[i + 1], step[i + 1].rest)
                          k    == DigitOfQuotient(tail, b)
                      IN  IF i > x THEN [rest |-> <<>>, k |-> 0]
                          ELSE [rest |-> SubLongLong(tail, MulLongShort(b, k)), k |-> k]]
           q == [i \in 1..(x + 1) |-> step[i - 1].k]
           Y == Cells(b)
           none == [rest |-> <<>>, k |-> 0]
<1>1. /\ a \in Digits /\ b \in Digits /\ x \in Nat /\ Len(a) = x + Len(b)
      /\ Magnitude(a) \in Nat /\ Magnitude(b) \in Nat /\ Len(b) \in Nat \ {0} /\ x <= Len(a)
  <2>1. a \in Digits /\ b \in Digits /\ Len(a) \in Nat \ {0} /\ Len(b) \in Nat \ {0}
    BY NumeralIsLarge
  <2>2. Magnitude(a) \in Nat /\ Magnitude(b) \in Nat
    BY NumeralIsLarge, DigitsAre
  <2>3. QED
    BY <2>1, <2>2
<1>2. LongDivide(a, b) = Trim(q)
  BY DEF LongDivide
<1> DEFINE h(f) == [i \in 0..(x + 1) |->
                      LET tail == IF i = x THEN SubSeq(a, x + 1, Len(a)) ELSE Joined(a[i + 1], f[i + 1].rest)
                          k    == DigitOfQuotient(tail, b)
                      IN  IF i > x THEN [rest |-> <<>>, k |-> 0]
                          ELSE [rest |-> SubLongLong(tail, MulLongShort(b, k)), k |-> k]]
<1>3. ASSUME NEW f
      PROVE  h(f) = [i \in 0..(x + 1) |-> IF i > x THEN none
                                          ELSE IF i = x THEN Cell(t, b)
                                          ELSE Cell(Joined(a[i + 1], f[i + 1].rest), b)]
  BY DEF Cell
<1>4. step = CHOOSE s : s = h(s)
  OBVIOUS
<1> HIDE DEF h, step, t, none
<1>5. /\ t \in Numeral /\ Magnitude(t) < Magnitude(b) * BASE
      /\ Magnitude(a) = Val(BASE, a, x) + Power(BASE, x) * Magnitude(t)
  BY <1>1, UpperIs DEF t
<1> HIDE DEF x
<1>6. Cell(t, b) \in Y /\ Magnitude(t) = Magnitude(b) * Cell(t, b).k + Magnitude(Cell(t, b).rest)
  BY <1>5, CellIs
<1>7. PICK f \in [1..(x + 1) -> Y] :
        f[x + 1] = Cell(t, b) /\ \A i \in 1..x : f[i] = Cell(Joined(a[i], f[i + 1].rest), b)
  <2>1. a \in Digits /\ b \in Numeral /\ x \in Nat /\ x <= Len(a) /\ Cell(t, b) \in Cells(b)
    BY <1>1, <1>6
  <2>2. QED
    BY <2>1, CellsExist
<1>8. /\ \A i \in 0..(x + 1) : i > x => i = x + 1
      /\ \A i \in 0..(x + 1) : ~(i > x) /\ i # x => i + 1 \in 1..x /\ i + 1 \in 0..(x + 1) /\ ~(i + 1 > x)
      /\ \A i \in 1..(x + 1) : i - 1 \in 0..(x + 1) /\ ~(i - 1 > x) /\ i - 1 + 1 = i
      /\ \A i \in 1..x : i - 1 # x /\ i \in 1..(x + 1) /\ i + 1 \in 1..(x + 1)
      /\ x \in 0..(x + 1) /\ ~(x > x)
  BY <1>1
<1> DEFINE g == [i \in 0..(x + 1) |-> IF i > x THEN none ELSE f[i + 1]]
<1>9. g = h(g)
  <2>1. h(g) = [i \in 0..(x + 1) |-> IF i > x THEN none
                                     ELSE IF i = x THEN Cell(t, b)
                                     ELSE Cell(Joined(a[i + 1], g[i + 1].rest), b)]
    BY <1>3
  <2>2. ASSUME NEW i \in 0..(x + 1)
        PROVE  g[i] = h(g)[i]
    <3>1. CASE i > x
      BY <2>1, <3>1
    <3>2. CASE i = x
      <4>1. g[i] = f[x + 1] /\ ~(i > x)
        BY <1>8, <3>2
      <4>2. h(g)[i] = Cell(t, b)
        BY <2>1, <3>2, <4>1
      <4>3. QED
        BY <1>7, <4>1, <4>2
    <3>3. CASE ~(i > x) /\ i # x
      <4>1. PICK j \in 1..x : j = i + 1 /\ j \in 0..(x + 1) /\ ~(j > x)
        BY <1>8, <3>3
      <4>2. g[i] = f[j] /\ g[j] = f[j + 1]
        BY <3>3, <4>1
      <4>3. f[j] = Cell(Joined(a[j], f[j + 1].rest), b)
        BY <1>7
      <4>4. h(g)[i] = Cell(Joined(a[j], g[j].rest), b)
        <5> HIDE DEF g
        <5>1. QED
          BY <2>1, <3>3, <4>1
      <4>5. QED
        BY <4>2, <4>3, <4>4
    <3>4. QED
      BY <3>1, <3>2, <3>3
  <2>3. h(g) = [i \in 0..(x + 1) |-> h(g)[i]]
    <3> HIDE DEF g
    <3>1. QED
      BY <2>1
  <2>4. g = [i \in 0..(x + 1) |-> g[i]]
    OBVIOUS
  <2>5. \A i \in 0..(x + 1) : g[i] = h(g)[i]
    BY <2>2
  <2> HIDE DEF g
  <2>6. QED
    BY <2>3, <2>4, <2>5, Extensional
<1>10. step = h(step)
  BY <1>4, <1>9
<1>11. \A i \in 0..(x + 1) : step[i] = IF i > x THEN none
                                       ELSE IF i = x THEN Cell(t, b)
                                       ELSE Cell(Joined(a[i + 1], step[i + 1].rest), b)
  <2>1. step = [i \in 0..(x + 1) |-> IF i > x THEN none
                                     ELSE IF i = x THEN Cell(t, b)
                                     ELSE Cell(Joined(a[i + 1], step[i + 1].rest), b)]
    BY <1>3, <1>10
  <2>2. QED
    BY <2>1
<1>12. \A i \in 0..x : step[i] = f[i + 1]
  <2> DEFINE S == { i \in 0..x : step[i] = f[i + 1] }
  <2>1. x \in S /\ 0 \in Int /\ x \in Int /\ 0 <= x
    <3>1. step[x] = Cell(t, b)
      BY <1>8, <1>11
    <3>2. QED
      BY <1>1, <1>7, <3>1
  <2>2. ASSUME NEW i \in Int, 0 <= i, i < x, i + 1 \in S
        PROVE  i \in S
    <3>1. i \in 0..x /\ i \in 0..(x + 1) /\ ~(i > x) /\ i # x
      BY <1>1, <2>2
    <3>2. PICK j \in 1..x : j = i + 1
      BY <1>1, <2>2
    <3>3. step[i] = Cell(Joined(a[j], step[j].rest), b)
      BY <1>11, <3>1, <3>2
    <3>4. step[j] = f[j + 1] /\ f[j] = Cell(Joined(a[j], f[j + 1].rest), b)
      BY <1>7, <2>2, <3>2
    <3>5. QED
      BY <3>1, <3>2, <3>3, <3>4
  <2>3. \A i \in Int : 0 <= i /\ i < x /\ i + 1 \in S => i \in S
    BY <2>2
  <2>4. 0..x \subseteq S
    <3> HIDE DEF S
    <3>1. QED
      BY <2>1, <2>3, Downwards
  <2>5. QED
    BY <2>4
<1>13. \A i \in 1..(x + 1) : q[i] = f[i].k
  <2>1. ASSUME NEW i \in 1..(x + 1)
        PROVE  q[i] = f[i].k
    <3>1. PICK j \in 0..x : j = i - 1 /\ j + 1 = i
      BY <1>1
    <3>2. step[j] = f[i]
      BY <1>12, <3>1
    <3>3. QED
      BY <3>1, <3>2
  <2>2. QED
    BY <2>1
<1>14. q = [i \in 1..(x + 1) |-> q[i]]
  OBVIOUS
<1> HIDE DEF q, g
<1> DEFINE n == x + 1
           v == Magnitude(b)
           c == [i \in 1..(n + 1) |-> IF i = n + 1 THEN 0 ELSE Magnitude(f[i].rest)]
           w == [i \in 1..n |-> IF i = n THEN Magnitude(t) ELSE a[i]]
           u == [i \in 1..n |-> v * q[i] + 0 * q[i]]
<1>15. n \in Nat \ {0} /\ n \in Nat /\ n - 1 = x /\ v \in Nat
  BY <1>1
<1>16. \A i \in 1..n : f[i].k \in Digit /\ f[i].rest \in Rest(b) /\ f[i].rest \in Numeral
  BY <1>7 DEF Rest, Cells
<1>17. q \in Digits /\ Len(q) = n /\ q \in Seq(Digit)
  <2>1. q \in [1..n -> Digit]
    BY <1>13, <1>14, <1>16
  <2>2. q \in Seq(Digit) /\ Len(q) = n
    BY <1>15, <2>1, SequenceIs
  <2>3. q # <<>>
    BY <1>15, <2>2
  <2>4. QED
    BY <2>2, <2>3 DEF Digits
<1>18. Magnitude(q) = Val(BASE, q, n) /\ Digital(BASE, q, n) /\ Magnitude(q) \in Nat
  BY <1>17, DigitsAre
<1>19. \A i \in 1..n : Magnitude(f[i].rest) \in Nat /\ Magnitude(f[i].rest) < v
  BY <1>16, NumeralIsLarge, DigitsAre DEF Rest
<1>20. PICK m \in Nat : m = Magnitude(t)
  BY <1>5, NumeralIsLarge, DigitsAre
<1> HIDE DEF v
<1>21. ASSUME NEW i \in 1..n
       PROVE  w[i] + BASE * c[i + 1] = u[i] + c[i] /\ w[i] \in Int /\ u[i] \in Int /\ c[i] \in Nat
  <2>1. i \in 1..(n + 1) /\ i + 1 \in 1..(n + 1) /\ i # n + 1 /\ (i + 1 = n + 1 <=> i = n)
    BY <1>15
  <2>2. c[i] = Magnitude(f[i].rest) /\ c[i] \in Nat
    BY <1>19, <2>1
  <2>3. PICK d \in Int, e \in Nat : d = q[i] /\ e = c[i]
    <3>1. q[i] \in Int
      BY <1>18, BigBase DEF Digital
    <3> HIDE DEF c
    <3>2. QED
      BY <2>2, <3>1
  <2>4. u[i] = v * d /\ v * d \in Int /\ f[i].k = d
    <3>1. u[i] = v * d + 0 * d
      BY <2>3
    <3>2. v * d + 0 * d = v * d /\ v * d \in Int
      BY <1>15
    <3>3. QED
      BY <1>13, <2>3, <3>1, <3>2
  <2>5. CASE i = n
    <3>1. w[i] = m /\ c[i + 1] = 0
      BY <1>20, <2>1, <2>5
    <3>2. m = v * d + e
      BY <1>6, <1>7, <1>20, <2>2, <2>3, <2>4, <2>5 DEF v
    <3>3. BASE * 0 = 0
      BY BigBase
    <3>4. QED
      BY <2>2, <2>3, <2>4, <3>1, <3>2, <3>3
  <2>6. CASE i # n
    <3>1. i \in 1..x /\ i + 1 \in 1..n
      BY <1>15, <2>1, <2>6
    <3>2. PICK j \in 1..n : j = i + 1
      BY <3>1
    <3>3. a[i] \in Digit
      <4>1. a \in Seq(Digit) /\ i \in 1..Len(a)
        BY <1>1, <3>1 DEF Digits
      <4>2. QED
        BY <4>1
    <3>4. /\ Joined(a[i], f[j].rest) \in Numeral
          /\ Magnitude(Joined(a[i], f[j].rest)) = a[i] + BASE * Magnitude(f[j].rest)
      BY <1>16, <3>3, JoinedIs, NumeralIsLarge
    <3>5. Magnitude(Joined(a[i], f[j].rest)) < Magnitude(b) * BASE
      <4>1. a[i] \in Nat /\ a[i] < BASE /\ BASE \in Nat
        BY <3>3, BigBase
      <4>2. Magnitude(f[j].rest) \in Nat /\ Magnitude(f[j].rest) < v
        BY <1>19
      <4>3. a[i] + BASE * Magnitude(f[j].rest) < v * BASE
        BY <1>15, <4>1, <4>2, LessThanNext
      <4>4. QED
        BY <3>4, <4>3 DEF v
    <3>6. Magnitude(Joined(a[i], f[j].rest)) = v * Cell(Joined(a[i], f[j].rest), b).k + Magnitude(Cell(Joined(a[i], f[j].rest), b).rest)
      BY <3>4, <3>5, CellIs DEF v
    <3>7. f[i] = Cell(Joined(a[i], f[j].rest), b)
      BY <1>7, <3>1, <3>2
    <3>8. Magnitude(Joined(a[i], f[j].rest)) = v * d + e
      BY <2>2, <2>3, <2>4, <3>6, <3>7
    <3>9. w[i] = a[i] /\ c[j] = Magnitude(f[j].rest)
      BY <1>15, <2>6, <3>2
    <3>10. w[i] \in Int
      BY <3>3, <3>9, BigBase
    <3> HIDE DEF w, u, c
    <3>11. QED
      BY <2>2, <2>3, <2>4, <3>2, <3>4, <3>8, <3>9, <3>10
  <2>7. w[i] \in Int
    <3>1. i # n => a[i] \in Int
      <4>1. SUFFICES ASSUME i # n PROVE a[i] \in Int
        OBVIOUS
      <4>2. a \in Seq(Digit) /\ i \in 1..Len(a)
        BY <1>1, <1>15, <4>1 DEF Digits
      <4>3. a[i] \in Digit
        BY <4>2
      <4>4. QED
        BY <4>3, BigBase
    <3>2. QED
      BY <1>20, <3>1
  <2> HIDE DEF w, u, c
  <2>8. QED
    BY <2>2, <2>4, <2>5, <2>6, <2>7
<1>22. c[n + 1] = 0 /\ \A i \in 1..n : w[i] = IF i = n THEN Magnitude(t) ELSE a[i]
  BY <1>15
<1>23. AreCombined(u, v, q, 0, q, n)
  BY DEF AreCombined
<1> HIDE DEF w, u, c, n
<1>24. Val(BASE, w, n) + Power(BASE, n) * c[n + 1] = Val(BASE, u, n) + c[1]
  <2>1. BASE \in Int /\ n \in Nat
    BY <1>15, BigBase
  <2>2. \A i \in 1..n : u[i] \in Int /\ w[i] \in Int
    BY <1>21
  <2>3. \A i \in 1..(n + 1) : c[i] \in Int
    <3>1. \A i \in 1..(n + 1) : i \in 1..n \/ i = n + 1
      BY <1>15
    <3>2. QED
      BY <1>21, <1>22, <3>1
  <2>4. AreMoved(BASE, u, w, c, n)
    BY <1>21 DEF AreMoved
  <2>5. QED
    BY <2>1, <2>2, <2>3, <2>4, ValCarry
<1>25. Val(BASE, u, n) = v * Magnitude(q)
  <2>1. BASE \in Int /\ n \in Nat /\ v \in Int /\ 0 \in Int
    BY <1>15, BigBase
  <2>2. \A i \in 1..n : q[i] \in Int
    BY <1>18, BigBase DEF Digital
  <2>3. Val(BASE, u, n) = v * Val(BASE, q, n) + 0 * Val(BASE, q, n)
    BY <1>23, <2>1, <2>2, ValLinear
  <2>4. PICK y \in Nat : y = Magnitude(q)
    BY <1>18
  <2>5. v * y + 0 * y = v * y
    BY <1>15
  <2>6. QED
    BY <1>18, <2>3, <2>4, <2>5
<1>26. Val(BASE, w, n) = Magnitude(a)
  <2>1. BASE \in Int /\ n \in Nat \ {0} /\ n \in Nat /\ x \in Nat
    BY <1>1, <1>15, BigBase
  <2>2. \A i \in 1..n : w[i] \in Int
    BY <1>21
  <2>3. Val(BASE, w, n) = Val(BASE, w, n - 1) + Power(BASE, n - 1) * w[n]
    BY <2>1, <2>2, ValLast
  <2>4. Val(BASE, w, x) = Val(BASE, a, x)
    <3>1. \A i \in 1..x : i \in 1..n /\ i # n
      BY <1>15, <2>1
    <3>2. \A i \in 1..x : w[i] \in Int /\ w[i] = a[i]
      BY <1>22, <2>2, <3>1
    <3>3. QED
      BY <2>1, <3>2, ValSame
  <2>5. w[n] = Magnitude(t)
    <3>1. n \in 1..n
      BY <2>1
    <3>2. QED
      BY <1>22, <3>1
  <2>6. QED
    BY <1>5, <1>15, <2>3, <2>4, <2>5
<1>27. c[1] \in Nat /\ c[1] < v
  <2>1. 1 \in 1..n /\ 1 # n + 1 /\ 1 \in 1..(n + 1)
    BY <1>15
  <2>2. c[1] = Magnitude(f[1].rest)
    BY <2>1 DEF c
  <2>3. QED
    BY <1>19, <2>1, <2>2
<1>28. Magnitude(a) = v * Magnitude(q) + c[1]
  <2>1. Power(BASE, n) \in Int
    BY <1>15, BigBase, PowerInt
  <2>2. Power(BASE, n) * 0 = 0
    BY <2>1
  <2>3. QED
    BY <1>1, <1>22, <1>24, <1>25, <1>26, <2>2
<1>29. Trim(q) \in Numeral /\ Magnitude(Trim(q)) = Magnitude(q)
  BY <1>17, TrimIs
<1>30. QED
  BY <1>2, <1>27, <1>28, <1>29 DEF v

\* The quotient of digits, by zero it is sometimes an exception
LEMMA DivLongLongIs ==
    ASSUME NEW a \in Numeral, NEW b \in Numeral
    PROVE  /\ DivLongLong(a, b) \in Numeral \cup {<<>>}
           /\ Magnitude(b) # 0 =>
                /\ DivLongLong(a, b) \in Numeral
                /\ \E r \in Nat : /\ r < Magnitude(b)
                                  /\ Magnitude(a) = Magnitude(b) * Magnitude(DivLongLong(a, b)) + r
<1> DEFINE c == CompareByAbs(b, a)
           q == DivLongLong(a, b)
<1>1. /\ a \in Digits /\ b \in Digits /\ b \in Seq(Digit) /\ Len(b) \in Nat \ {0}
      /\ Magnitude(a) \in Nat /\ Magnitude(b) \in Nat
  BY NumeralIsLarge, DigitsAre
<1>2. /\ c \in {-1, 0, 1} /\ (c = 1 <=> Magnitude(a) < Magnitude(b)) /\ (c = 0 => Magnitude(a) = Magnitude(b))
      /\ Magnitude(b) <= Magnitude(a) => Len(b) <= Len(a)
  BY CompareByAbsIs
<1>3. /\ <<0>> \in Numeral /\ Magnitude(<<0>>) = 0
      /\ <<1>> \in Numeral /\ Magnitude(<<1>>) = 1
  BY BigBase, OneDigit
<1>4. q = IF c = 1 THEN <<0>> ELSE IF c = 0 THEN <<1>> ELSE IF IsZero(b) THEN <<>>
          ELSE IF Len(b) = 1 THEN ShortDivide(a, b[1]).quotient ELSE LongDivide(a, b)
  BY DEF DivLongLong
<1> HIDE DEF c, q
<1> DEFINE Exact == \E r \in Nat : r < Magnitude(b) /\ Magnitude(a) = Magnitude(b) * Magnitude(q) + r
<1>5. CASE c = 1
  <2>1. q = <<0>> /\ Magnitude(q) = 0
    BY <1>3, <1>4, <1>5
  <2>2. Magnitude(a) = Magnitude(b) * Magnitude(q) + Magnitude(a)
    BY <1>1, <2>1
  <2>3. QED
    BY <1>1, <1>2, <1>3, <1>5, <2>1, <2>2 DEF q
<1>6. CASE c = 0
  <2>1. q = <<1>> /\ Magnitude(q) = 1
    BY <1>3, <1>4, <1>6
  <2>2. Magnitude(a) = Magnitude(b) * Magnitude(q) + 0 /\ (Magnitude(b) # 0 => 0 < Magnitude(b))
    BY <1>1, <1>2, <1>6, <2>1
  <2>3. QED
    BY <1>3, <2>1, <2>2 DEF q
<1>7. CASE c = -1 /\ b = <<0>>
  <2>1. q = <<>> /\ Magnitude(b) = 0
    BY <1>3, <1>4, <1>7 DEF IsZero
  <2>2. QED
    BY <2>1 DEF q
<1>8. CASE c = -1 /\ b # <<0>> /\ Len(b) = 1
  <2>1. b[1] \in Digit /\ b = <<b[1]>>
    <3>1. b \in Seq(Digit) /\ Len(b) = 1 /\ 1 \in 1..Len(b)
      BY <1>1, <1>8
    <3>2. b[1] \in Digit
      BY <3>1
    <3>3. b = <<b[1]>>
      BY <3>1
    <3>4. QED
      BY <3>2, <3>3
  <2>2. Magnitude(b) = b[1] /\ b[1] \in Digit \ {0}
    <3>1. Magnitude(b) = b[1]
      BY <2>1, OneDigit
    <3>2. b[1] # 0
      BY <1>8, <2>1
    <3>3. QED
      BY <2>1, <3>1, <3>2
  <2>3. q = ShortDivide(a, b[1]).quotient
    BY <1>4, <1>8 DEF IsZero
  <2>4. /\ q \in Numeral /\ ShortDivide(a, b[1]).remainder \in 0..(b[1] - 1)
        /\ Magnitude(a) = b[1] * Magnitude(q) + ShortDivide(a, b[1]).remainder
    BY <1>1, <2>2, <2>3, ShortDivideIs
  <2>5. PICK r \in Nat : r = ShortDivide(a, b[1]).remainder /\ r < b[1]
    BY <2>2, <2>4, BigBase
  <2>6. QED
    BY <2>2, <2>4, <2>5 DEF q
<1>9. CASE c = -1 /\ b # <<0>> /\ Len(b) # 1
  <2>1. q = LongDivide(a, b)
    BY <1>4, <1>9 DEF IsZero
  <2>2. Magnitude(b) # 0
    BY <1>9, NumeralIsLarge
  <2>3. Magnitude(b) <= Magnitude(a) /\ Len(b) <= Len(a)
    BY <1>1, <1>2, <1>9
  <2>4. a # <<0>>
    BY <1>1, <1>3, <2>2, <2>3
  <2>5. q \in Numeral /\ Exact
    BY <1>9, <2>1, <2>3, <2>4, LongDivideIs
  <2>6. QED
    BY <2>5 DEF q
<1>10. QED
  BY <1>2, <1>5, <1>6, <1>7, <1>8, <1>9

-----------------------------------------------------------------------------
(* big_integer: the signed operations.                                     *)

BigIntegers == [sign : {0, 1}, arr : Numeral]

\* What an operation leaves
Results == BigIntegers \cup {Threw}

\* A sign and digits
LEMMA NumberIs ==
    ASSUME NEW s \in {0, 1}, NEW a \in Numeral
    PROVE  /\ BigInteger(s, a) \in BigIntegers /\ Signed(s, a) = BigInteger(s, a)
           /\ BigInteger(s, a).sign = s /\ BigInteger(s, a).arr = a
           /\ Value(BigInteger(s, a)) = IF s = 1 THEN -Magnitude(a) ELSE Magnitude(a)
<1>1. a # <<>>
  BY DEF Numeral, Digits
<1>2. QED
  BY <1>1 DEF BigInteger, Signed, BigIntegers, Value

\* What a big_integer consists of
LEMMA NumberHas ==
    ASSUME NEW m \in BigIntegers
    PROVE  /\ m.sign \in {0, 1} /\ m.arr \in Numeral /\ m = BigInteger(m.sign, m.arr)
           /\ m # Threw /\ m.arr # <<>>
           /\ Magnitude(m.arr) \in Nat
           /\ Value(m) = IF m.sign = 1 THEN -Magnitude(m.arr) ELSE Magnitude(m.arr)
           /\ Value(m) \in Int
<1>1. m.sign \in {0, 1} /\ m.arr \in Numeral /\ m = BigInteger(m.sign, m.arr)
  BY DEF BigIntegers, BigInteger
<1>2. m.arr # <<>>
  BY <1>1 DEF Numeral, Digits
<1>3. m # Threw
  <2>1. Threw.arr = <<>>
    BY DEF Threw, BigInteger
  <2>2. QED
    BY <1>2, <2>1
<1>4. Magnitude(m.arr) \in Nat
  BY <1>1, NumeralIsLarge, DigitsAre
<1>5. Value(m) = IF m.sign = 1 THEN -Magnitude(m.arr) ELSE Magnitude(m.arr)
  BY DEF Value
<1>6. QED
  BY <1>1, <1>2, <1>3, <1>4, <1>5

\* The branches that subtract
LEMMA DifferenceIs ==
    ASSUME NEW m \in BigIntegers, NEW n \in BigIntegers
    PROVE  /\ Difference(m, n) \in BigIntegers
           /\ Value(Difference(m, n)) = IF m.sign = 1 THEN Magnitude(n.arr) - Magnitude(m.arr)
                                        ELSE Magnitude(m.arr) - Magnitude(n.arr)
<1> DEFINE a == m.arr
           b == n.arr
<1>1. /\ a \in Numeral /\ b \in Numeral /\ a \in Digits /\ b \in Digits /\ m.sign \in {0, 1} /\ 1 - m.sign \in {0, 1}
      /\ Magnitude(a) \in Nat /\ Magnitude(b) \in Nat
  BY NumberHas, NumeralIsLarge
<1>2. CASE CompareByAbs(a, b) = 1
  <2> DEFINE d == SubLongLong(a, b)
  <2>1. Magnitude(b) <= Magnitude(a) /\ Len(b) <= Len(a)
    <3>1. Magnitude(b) < Magnitude(a)
      BY <1>1, <1>2, CompareByAbsIs
    <3>2. Magnitude(b) <= Magnitude(a)
      BY <1>1, <3>1
    <3>3. QED
      BY <1>1, <3>2, CompareByAbsIs
  <2>2. d \in Numeral /\ Magnitude(d) = Magnitude(a) - Magnitude(b)
    BY <1>1, <2>1, SubLongLongIs
  <2>3. Difference(m, n) = Signed(m.sign, d)
    BY <1>2 DEF Difference
  <2> HIDE DEF d
  <2>4. /\ Difference(m, n) \in BigIntegers
        /\ Value(Difference(m, n)) = IF m.sign = 1 THEN -Magnitude(d) ELSE Magnitude(d)
    BY <1>1, <2>2, <2>3, NumberIs
  <2>5. QED
    BY <1>1, <2>2, <2>4
<1>3. CASE CompareByAbs(a, b) # 1
  <2> DEFINE d == SubLongLong(b, a)
  <2>1. Magnitude(a) <= Magnitude(b) /\ Len(a) <= Len(b)
    <3>1. ~(Magnitude(b) < Magnitude(a))
      BY <1>1, <1>3, CompareByAbsIs
    <3>2. Magnitude(a) <= Magnitude(b)
      BY <1>1, <3>1
    <3>3. QED
      BY <1>1, <3>2, CompareByAbsIs
  <2>2. d \in Numeral /\ Magnitude(d) = Magnitude(b) - Magnitude(a)
    BY <1>1, <2>1, SubLongLongIs
  <2>3. Difference(m, n) = Signed(1 - m.sign, d)
    BY <1>3 DEF Difference
  <2> HIDE DEF d
  <2>4. /\ Difference(m, n) \in BigIntegers
        /\ Value(Difference(m, n)) = IF 1 - m.sign = 1 THEN -Magnitude(d) ELSE Magnitude(d)
    BY <1>1, <2>2, <2>3, NumberIs
  <2>5. QED
    BY <1>1, <2>2, <2>4
<1>4. QED
  BY <1>2, <1>3

\* The sum
LEMMA PlusIs ==
    ASSUME NEW m \in BigIntegers, NEW n \in BigIntegers
    PROVE  Plus(m, n) \in BigIntegers /\ Value(Plus(m, n)) = Value(m) + Value(n)
<1>1. /\ m.arr \in Numeral /\ n.arr \in Numeral /\ m.sign \in {0, 1} /\ n.sign \in {0, 1}
      /\ Magnitude(m.arr) \in Nat /\ Magnitude(n.arr) \in Nat
      /\ Value(m) = IF m.sign = 1 THEN -Magnitude(m.arr) ELSE Magnitude(m.arr)
      /\ Value(n) = IF n.sign = 1 THEN -Magnitude(n.arr) ELSE Magnitude(n.arr)
  BY NumberHas
<1>2. CASE m.sign = n.sign
  <2>1. AddLongLong(m.arr, n.arr) \in Numeral /\ Magnitude(AddLongLong(m.arr, n.arr)) = Magnitude(m.arr) + Magnitude(n.arr)
    BY <1>1, AddLongLongIs
  <2>2. Plus(m, n) = BigInteger(m.sign, AddLongLong(m.arr, n.arr))
    BY <1>2 DEF Plus, Added
  <2>3. /\ Plus(m, n) \in BigIntegers
        /\ Value(Plus(m, n)) = IF m.sign = 1 THEN -Magnitude(AddLongLong(m.arr, n.arr)) ELSE Magnitude(AddLongLong(m.arr, n.arr))
    BY <1>1, <2>1, <2>2, NumberIs
  <2>4. QED
    BY <1>1, <1>2, <2>1, <2>3
<1>3. CASE m.sign # n.sign
  <2>1. Plus(m, n) = Difference(m, n)
    BY <1>3 DEF Plus
  <2>2. /\ Plus(m, n) \in BigIntegers
        /\ Value(Plus(m, n)) = IF m.sign = 1 THEN Magnitude(n.arr) - Magnitude(m.arr)
                           ELSE Magnitude(m.arr) - Magnitude(n.arr)
    BY <2>1, DifferenceIs
  <2>3. QED
    BY <1>1, <1>3, <2>2
<1>4. QED
  BY <1>2, <1>3

\* The difference
LEMMA MinusIs ==
    ASSUME NEW m \in BigIntegers, NEW n \in BigIntegers
    PROVE  Minus(m, n) \in BigIntegers /\ Value(Minus(m, n)) = Value(m) - Value(n)
<1>1. /\ m.arr \in Numeral /\ n.arr \in Numeral /\ m.sign \in {0, 1} /\ n.sign \in {0, 1}
      /\ Magnitude(m.arr) \in Nat /\ Magnitude(n.arr) \in Nat
      /\ Value(m) = IF m.sign = 1 THEN -Magnitude(m.arr) ELSE Magnitude(m.arr)
      /\ Value(n) = IF n.sign = 1 THEN -Magnitude(n.arr) ELSE Magnitude(n.arr)
  BY NumberHas
<1>2. CASE m.sign # n.sign
  <2>1. AddLongLong(m.arr, n.arr) \in Numeral /\ Magnitude(AddLongLong(m.arr, n.arr)) = Magnitude(m.arr) + Magnitude(n.arr)
    BY <1>1, AddLongLongIs
  <2>2. Minus(m, n) = BigInteger(m.sign, AddLongLong(m.arr, n.arr))
    BY <1>2 DEF Minus, Added
  <2>3. /\ Minus(m, n) \in BigIntegers
        /\ Value(Minus(m, n)) = IF m.sign = 1 THEN -Magnitude(AddLongLong(m.arr, n.arr)) ELSE Magnitude(AddLongLong(m.arr, n.arr))
    BY <1>1, <2>1, <2>2, NumberIs
  <2>4. QED
    BY <1>1, <1>2, <2>1, <2>3
<1>3. CASE m.sign = n.sign
  <2>1. Minus(m, n) = Difference(m, n)
    BY <1>3 DEF Minus
  <2>2. /\ Minus(m, n) \in BigIntegers
        /\ Value(Minus(m, n)) = IF m.sign = 1 THEN Magnitude(n.arr) - Magnitude(m.arr)
                           ELSE Magnitude(m.arr) - Magnitude(n.arr)
    BY <2>1, DifferenceIs
  <2>3. QED
    BY <1>1, <1>3, <2>2
<1>4. QED
  BY <1>2, <1>3

\* The opposite of zero is zero
LEMMA NoMinusZero == -0 = 0
<1>1. \A i \in Int : \A j \in Int : i = -j => i = 0 - j
  OBVIOUS
<1>2. PICK i \in Int, j \in Int : j = 0 /\ i = -j
  <2>1. \A j \in Int : -j \in Int
    OBVIOUS
  <2>2. 0 \in Int
    OBVIOUS
  <2>3. QED
    BY <2>1, <2>2, Zenon
<1>3. i = 0 - j
  BY <1>1, <1>2, Zenon
<1>4. j = 0
  BY <1>2, Zenon
<1>5. i = 0
  BY <1>3, <1>4
<1>6. QED
  BY <1>2, <1>4, <1>5, Zenon

\* A sign and an absolute value
Signed01(s, p) == IF s = 1 THEN -p ELSE p

\* The product of two signs
LEMMA SignsMultiply ==
    ASSUME NEW s \in {0, 1}, NEW t \in {0, 1}, NEW p \in Int, NEW q \in Int
    PROVE  Signed01(IF s = t THEN 0 ELSE 1, p * q) = Signed01(s, p) * Signed01(t, q)
<1>1. /\ (-p) * q = -(p * q) /\ p * (-q) = -(p * q) /\ (-p) * (-q) = p * q /\ p * q \in Int
  OBVIOUS
<1>2. CASE s = 0 /\ t = 0
  BY <1>2 DEF Signed01
<1>3. CASE s = 0 /\ t = 1
  BY <1>1, <1>3 DEF Signed01
<1>4. CASE s = 1 /\ t = 0
  BY <1>1, <1>4 DEF Signed01
<1>5. CASE s = 1 /\ t = 1
  BY <1>1, <1>5 DEF Signed01
<1>6. QED
  BY <1>2, <1>3, <1>4, <1>5

\* The product
LEMMA TimesIs ==
    ASSUME NEW m \in BigIntegers, NEW n \in BigIntegers
    PROVE  Times(m, n) \in BigIntegers /\ Value(Times(m, n)) = Value(m) * Value(n)
<1> DEFINE d == MulLongLong(m.arr, n.arr)
<1>1. /\ m.arr \in Numeral /\ n.arr \in Numeral /\ m.sign \in {0, 1} /\ n.sign \in {0, 1}
      /\ Magnitude(m.arr) \in Nat /\ Magnitude(n.arr) \in Nat
      /\ Value(m) = Signed01(m.sign, Magnitude(m.arr)) /\ Value(n) = Signed01(n.sign, Magnitude(n.arr))
  BY NumberHas DEF Signed01
<1>2. d \in Numeral /\ Magnitude(d) = Magnitude(m.arr) * Magnitude(n.arr)
  BY <1>1, NumeralIsLarge, MulLongLongIs
<1>3. Times(m, n) = BigInteger(SignOf(m, n), d) /\ SignOf(m, n) \in {0, 1}
  BY DEF Times, SignOf
<1> HIDE DEF d
<1>4. Times(m, n) \in BigIntegers /\ Value(Times(m, n)) = Signed01(SignOf(m, n), Magnitude(d))
  BY <1>2, <1>3, NumberIs DEF Signed01
<1>5. Signed01(SignOf(m, n), Magnitude(m.arr) * Magnitude(n.arr)) = Value(m) * Value(n)
  <2>1. PICK s \in {0, 1}, t \in {0, 1} : s = m.sign /\ t = n.sign
    BY <1>1
  <2>2. PICK p \in Int, q \in Int : p = Magnitude(m.arr) /\ q = Magnitude(n.arr)
    BY <1>1
  <2>3. Signed01(IF s = t THEN 0 ELSE 1, p * q) = Signed01(s, p) * Signed01(t, q)
    BY SignsMultiply
  <2>4. SignOf(m, n) = IF s = t THEN 0 ELSE 1
    BY <2>1 DEF SignOf
  <2>5. QED
    BY <1>1, <2>1, <2>2, <2>3, <2>4
<1>6. QED
  BY <1>2, <1>4, <1>5

\* The opposite
LEMMA NegIs ==
    ASSUME NEW m \in BigIntegers
    PROVE  Neg(m) \in BigIntegers /\ Value(Neg(m)) = -Value(m)
<1>1. /\ m.sign \in {0, 1} /\ 1 - m.sign \in {0, 1} /\ m.arr \in Numeral
      /\ Magnitude(m.arr) \in Nat /\ Value(m) = IF m.sign = 1 THEN -Magnitude(m.arr) ELSE Magnitude(m.arr)
  BY NumberHas
<1>2. Neg(m) = BigInteger(1 - m.sign, m.arr)
  BY DEF Neg, BigIntegers, BigInteger
<1>3. Neg(m) \in BigIntegers /\ Value(Neg(m)) = IF 1 - m.sign = 1 THEN -Magnitude(m.arr) ELSE Magnitude(m.arr)
  BY <1>1, <1>2, NumberIs
<1>4. QED
  BY <1>1, <1>3

\* One
LEMMA OneIs == One \in BigIntegers /\ Value(One) = 1
<1>1. <<1>> \in Numeral /\ Magnitude(<<1>>) = 1
  BY BigBase, OneDigit
<1>2. QED
  BY <1>1, NumberIs DEF One

\* The steps by one, and ~
LEMMA StepsAre ==
    ASSUME NEW m \in BigIntegers
    PROVE  /\ Inc(m) \in BigIntegers /\ Value(Inc(m)) = Value(m) + 1
           /\ Dec(m) \in BigIntegers /\ Value(Dec(m)) = Value(m) - 1
           /\ Complement(m) \in BigIntegers /\ Value(Complement(m)) = -Value(m) - 1
<1>1. Inc(m) \in BigIntegers /\ Value(Inc(m)) = Value(m) + 1
  BY OneIs, PlusIs DEF Inc
<1>2. Dec(m) \in BigIntegers /\ Value(Dec(m)) = Value(m) - 1
  BY OneIs, MinusIs DEF Dec
<1>3. Complement(m) \in BigIntegers /\ Value(Complement(m)) = -Value(Inc(m))
  BY <1>1, NegIs DEF Complement
<1>4. Value(m) \in Int
  BY NumberHas
<1>5. QED
  BY <1>1, <1>2, <1>3, <1>4

\* The order
LEMMA CompareIs ==
    ASSUME NEW m \in BigIntegers, NEW n \in BigIntegers
    PROVE  Sgn(Compare(m, n)) = Sgn(Value(m) - Value(n))
<1> DEFINE a == m.arr
           b == n.arr
<1>1. /\ a \in Numeral /\ b \in Numeral /\ m.sign \in {0, 1} /\ n.sign \in {0, 1}
      /\ Magnitude(a) \in Nat /\ Magnitude(b) \in Nat
      /\ Value(m) = IF m.sign = 1 THEN -Magnitude(a) ELSE Magnitude(a)
      /\ Value(n) = IF n.sign = 1 THEN -Magnitude(b) ELSE Magnitude(b)
  BY NumberHas
<1>2. (a = <<0>> <=> Magnitude(a) = 0) /\ (b = <<0>> <=> Magnitude(b) = 0)
  BY <1>1, NumeralIsLarge
<1>3. Compare(m, n) = IF a = <<0>> /\ b = <<0>> THEN 0 ELSE IF m.sign # n.sign THEN n.sign - m.sign
                      ELSE IF m.sign = 0 THEN CompareByAbs(a, b) ELSE CompareByAbs(b, a)
  BY DEF Compare, IsZero
<1> HIDE DEF a, b
<1>4. PICK p \in Nat, q \in Nat : p = Magnitude(a) /\ q = Magnitude(b)
  BY <1>1
<1>5. CASE a = <<0>> /\ b = <<0>>
  <2>1. Compare(m, n) = 0 /\ Magnitude(a) = 0 /\ Magnitude(b) = 0
    BY <1>2, <1>3, <1>5
  <2>2. Value(m) = 0 /\ Value(n) = 0
    <3>1. Value(m) \in {-0, 0} /\ Value(n) \in {-0, 0}
      BY <1>1, <2>1, Zenon
    <3>2. QED
      BY <3>1, NoMinusZero, Zenon
  <2>3. QED
    BY <2>1, <2>2
<1>6. CASE ~(a = <<0>> /\ b = <<0>>) /\ m.sign # n.sign
  <2>1. Compare(m, n) = n.sign - m.sign /\ (p # 0 \/ q # 0)
    BY <1>2, <1>3, <1>4, <1>6
  <2>2. QED
    BY <1>1, <1>4, <1>6, <2>1 DEF Sgn
<1>7. CASE ~(a = <<0>> /\ b = <<0>>) /\ m.sign = n.sign /\ m.sign = 0
  <2>1. Compare(m, n) = CompareByAbs(a, b) /\ Value(m) = p /\ Value(n) = q
    BY <1>1, <1>3, <1>4, <1>7
  <2>2. CompareByAbs(a, b) = IF q < p THEN 1 ELSE IF p = q THEN 0 ELSE -1
    BY <1>1, <1>4, CompareByAbsIs
  <2>3. QED
    BY <2>1, <2>2 DEF Sgn
<1>8. CASE ~(a = <<0>> /\ b = <<0>>) /\ m.sign = n.sign /\ m.sign # 0
  <2>1. Compare(m, n) = CompareByAbs(b, a) /\ Value(m) = -p /\ Value(n) = -q
    BY <1>1, <1>3, <1>4, <1>8
  <2>2. CompareByAbs(b, a) = IF p < q THEN 1 ELSE IF p = q THEN 0 ELSE -1
    BY <1>1, <1>4, CompareByAbsIs
  <2>3. QED
    BY <2>1, <2>2 DEF Sgn
<1>9. QED
  BY <1>5, <1>6, <1>7, <1>8

\* The quotient; by zero a number or an exception
LEMMA DivideIs ==
    ASSUME NEW m \in BigIntegers, NEW n \in BigIntegers
    PROVE  /\ Divide(m, n) \in Results
           /\ Value(n) # 0 => /\ Divide(m, n) \in BigIntegers
                              /\ Value(Divide(m, n)) = Sgn(Value(m)) * Sgn(Value(n)) * (Abs(Value(m)) \div Abs(Value(n)))
<1> DEFINE d == DivLongLong(m.arr, n.arr)
<1>1. /\ m.arr \in Numeral /\ n.arr \in Numeral /\ m.sign \in {0, 1} /\ n.sign \in {0, 1}
      /\ Magnitude(m.arr) \in Nat /\ Magnitude(n.arr) \in Nat
      /\ Value(m) = Signed01(m.sign, Magnitude(m.arr)) /\ Value(n) = Signed01(n.sign, Magnitude(n.arr))
  BY NumberHas DEF Signed01
<1>2. /\ d \in Numeral \cup {<<>>}
      /\ Magnitude(n.arr) # 0 =>
           /\ d \in Numeral
           /\ \E r \in Nat : /\ r < Magnitude(n.arr)
                             /\ Magnitude(m.arr) = Magnitude(n.arr) * Magnitude(d) + r
  BY <1>1, DivLongLongIs
<1>3. Divide(m, n) = Signed(SignOf(m, n), d) /\ SignOf(m, n) \in {0, 1}
  BY DEF Divide, SignOf
<1> HIDE DEF d
<1>4. d \in Numeral => Divide(m, n) \in BigIntegers /\ Value(Divide(m, n)) = Signed01(SignOf(m, n), Magnitude(d))
  BY <1>3, NumberIs DEF Signed01
<1>5. Divide(m, n) \in Results
  BY <1>2, <1>3, <1>4 DEF Results, Signed
<1>6. ASSUME Value(n) # 0
      PROVE  /\ Divide(m, n) \in BigIntegers
             /\ Value(Divide(m, n)) = Sgn(Value(m)) * Sgn(Value(n)) * (Abs(Value(m)) \div Abs(Value(n)))
  <2>1. PICK p \in Nat, q \in Nat \ {0} : p = Magnitude(m.arr) /\ q = Magnitude(n.arr)
    BY <1>1, <1>6 DEF Signed01
  <2>2. PICK r \in Nat : r < q /\ p = q * Magnitude(d) + r
    BY <1>2, <2>1
  <2>3. d \in Numeral /\ Magnitude(d) \in Nat
    BY <1>2, <2>1, NumeralIsLarge, DigitsAre
  <2>4. PICK k \in Nat : k = Magnitude(d)
    BY <2>3
  <2>5. p \div q = k
    <3>1. p = q * k + r /\ r \in 0..(q - 1)
      BY <2>2, <2>4
    <3>2. QED
      BY <3>1, DivModUnique
  <2>6. Abs(Value(m)) = p /\ Abs(Value(n)) = q
    BY <1>1, <2>1 DEF Abs, Signed01
  <2>7. p = 0 => k = 0
    <3>1. p = 0 => 0 \div q = k
      BY <2>5
    <3>2. 0 \div q = 0
      OBVIOUS
    <3>3. QED
      BY <3>1, <3>2
  <2>8. Signed01(SignOf(m, n), k) = Sgn(Value(m)) * Sgn(Value(n)) * k
    <3>1. Sgn(Value(m)) = IF p = 0 THEN 0 ELSE IF m.sign = 1 THEN -1 ELSE 1
      BY <1>1, <2>1 DEF Sgn, Signed01
    <3>2. Sgn(Value(n)) = IF n.sign = 1 THEN -1 ELSE 1
      BY <1>1, <2>1 DEF Sgn, Signed01
    <3>3. CASE p = 0
      <4>1. k = 0 /\ Sgn(Value(m)) = 0
        BY <2>7, <3>1, <3>3
      <4>2. 0 * Sgn(Value(n)) * 0 = 0
        BY <3>2
      <4>3. Signed01(SignOf(m, n), 0) = 0
        BY NoMinusZero, Zenon DEF Signed01
      <4>4. QED
        BY <4>1, <4>2, <4>3
    <3>4. CASE p # 0
      BY <1>1, <3>1, <3>2, <3>4 DEF Signed01, SignOf
    <3>5. QED
      BY <3>3, <3>4
  <2>9. QED
    BY <1>4, <2>3, <2>4, <2>5, <2>6, <2>8
<1>7. QED
  BY <1>5, <1>6

\* The remainder
LEMMA RemainderIs ==
    ASSUME NEW m \in BigIntegers, NEW n \in BigIntegers
    PROVE  /\ Remainder(m, n) \in Results
           /\ Value(n) # 0 => /\ Remainder(m, n) \in BigIntegers
                              /\ Value(Remainder(m, n)) = Value(m) - Value(Divide(m, n)) * Value(n)
<1> DEFINE q == Divide(m, n)
<1>1. q \in Results /\ (Value(n) # 0 => q \in BigIntegers)
  BY DivideIs
<1>2. Remainder(m, n) = IF q = Threw THEN Threw ELSE Minus(m, Times(q, n))
  BY DEF Remainder
<1> HIDE DEF q
<1>3. ASSUME q \in BigIntegers
      PROVE  /\ Remainder(m, n) \in BigIntegers
             /\ Value(Remainder(m, n)) = Value(m) - Value(q) * Value(n)
  <2>1. q # Threw /\ Times(q, n) \in BigIntegers /\ Value(Times(q, n)) = Value(q) * Value(n)
    BY <1>3, NumberHas, TimesIs
  <2>2. Remainder(m, n) = Minus(m, Times(q, n))
    BY <1>2, <2>1
  <2>3. QED
    BY <2>1, <2>2, MinusIs
<1>4. QED
  BY <1>1, <1>2, <1>3 DEF Results, q

\* A power of two counts the subsets of a set
LEMMA TwoPowerCounts ==
    ASSUME NEW i \in Int, NEW n \in Nat
    PROVE  /\ IsFiniteSet(SUBSET ((i + 1)..(i + n)))
           /\ Cardinality(SUBSET ((i + 1)..(i + n))) = 2^n
           /\ 2^n \in Nat \ {0}
<1> DEFINE S == (i + 1)..(i + n)
<1>1. IsFiniteSet(S) /\ Cardinality(S) = n
  <2>1. IsFiniteSet(S) /\ Cardinality(S) = IF i + 1 > i + n THEN 0 ELSE i + n - (i + 1) + 1
    BY FS_Interval
  <2>2. QED
    BY <2>1
<1>2. IsFiniteSet(SUBSET S) /\ Cardinality(SUBSET S) = 2^n
  BY <1>1, FS_SUBSET
<1>3. SUBSET S # {}
  OBVIOUS
<1>4. 2^n \in Nat \ {0}
  BY <1>2, <1>3, FS_CardinalityType, FS_EmptySet
<1>5. QED
  BY <1>2, <1>4

\* A subset of 1..(i + n) is one of 1..i and one of the rest
LEMMA TwoPowerSum ==
    ASSUME NEW i \in Nat, NEW n \in Nat
    PROVE  2^(i + n) = 2^i * 2^n
<1> DEFINE A == 1..i
           B == (i + 1)..(i + n)
           C == 1..(i + n)
           f == [T \in SUBSET C |-> <<T \cap A, T \cap B>>]
<1>1. /\ IsFiniteSet(SUBSET A) /\ Cardinality(SUBSET A) = 2^i
      /\ IsFiniteSet(SUBSET B) /\ Cardinality(SUBSET B) = 2^n
      /\ IsFiniteSet(SUBSET C) /\ Cardinality(SUBSET C) = 2^(i + n)
  <2>1. A = (0 + 1)..(0 + i) /\ C = (0 + 1)..(0 + (i + n)) /\ i + n \in Nat /\ i \in Int /\ 0 \in Int
    OBVIOUS
  <2> HIDE DEF A, B, C
  <2>2. IsFiniteSet(SUBSET A) /\ Cardinality(SUBSET A) = 2^i
    BY <2>1, TwoPowerCounts
  <2>3. IsFiniteSet(SUBSET C) /\ Cardinality(SUBSET C) = 2^(i + n)
    BY <2>1, TwoPowerCounts
  <2>4. IsFiniteSet(SUBSET B) /\ Cardinality(SUBSET B) = 2^n
    BY <2>1, TwoPowerCounts DEF B
  <2>5. QED
    BY <2>2, <2>3, <2>4
<1>2. A \cup B = C /\ A \cap B = {}
  OBVIOUS
<1> HIDE DEF A, B, C
<1>3. f \in Bijection(SUBSET C, (SUBSET A) \X (SUBSET B))
  <2>1. \A T, U \in SUBSET C : f[T] = f[U] => T = U
    <3>1. SUFFICES ASSUME NEW T \in SUBSET C, NEW U \in SUBSET C, f[T] = f[U]
                   PROVE  T = U
      OBVIOUS
    <3>2. T \cap A = U \cap A /\ T \cap B = U \cap B
      BY <3>1
    <3>3. QED
      BY <1>2, <3>2
  <2>2. ASSUME NEW y \in (SUBSET A) \X (SUBSET B)
        PROVE  \E T \in SUBSET C : f[T] = y
    <3>1. PICK U \in SUBSET A, V \in SUBSET B : y = <<U, V>>
      OBVIOUS
    <3>2. U \cup V \in SUBSET C /\ (U \cup V) \cap A = U /\ (U \cup V) \cap B = V
      BY <1>2
    <3>3. QED
      BY <3>1, <3>2
  <2>3. f \in [SUBSET C -> (SUBSET A) \X (SUBSET B)]
    OBVIOUS
  <2> HIDE DEF f
  <2>4. f \in Injection(SUBSET C, (SUBSET A) \X (SUBSET B))
    BY <2>1, <2>3 DEF Injection, IsInjective
  <2>5. QED
    BY <2>2, <2>3, <2>4 DEF Bijection, Surjection
<1>4. Cardinality((SUBSET A) \X (SUBSET B)) = 2^i * 2^n
  <2> DEFINE X == SUBSET A
             Y == SUBSET B
  <2>1. IsFiniteSet(X) /\ IsFiniteSet(Y) /\ Cardinality(X) = 2^i /\ Cardinality(Y) = 2^n
    BY <1>1
  <2> HIDE DEF X, Y
  <2>2. Cardinality(X \X Y) = Cardinality(X) * Cardinality(Y)
    BY <2>1, FS_Product
  <2>3. QED
    BY <2>1, <2>2 DEF X, Y
<1>5. Cardinality((SUBSET A) \X (SUBSET B)) = Cardinality(SUBSET C)
  BY <1>1, <1>3, FS_Bijection DEF ExistsBijection
<1>6. QED
  BY <1>1, <1>4, <1>5

\* The powers of two are those of the values of digits
LEMMA TwoPower ==
    ASSUME NEW n \in Nat
    PROVE  2^n = Power(2, n)
<1> DEFINE S == { i \in Nat : 2^i = Power(2, i) }
<1>1. 0 \in S /\ 0 \in Int /\ n \in Int /\ 0 <= n
  <2>1. 2^0 = 1
    OBVIOUS
  <2>2. Power(2, 0) = 1
    BY PowerIs
  <2>3. QED
    BY <2>1, <2>2
<1>2. ASSUME NEW i \in Int, 0 <= i, i < n, i \in S
      PROVE  i + 1 \in S
  <2>1. i \in Nat /\ i + 1 \in Nat /\ 1 \in Nat /\ 2 \in Int
    BY <1>2
  <2>2. 2^(i + 1) = 2^i * 2^1
    BY <2>1, TwoPowerSum
  <2>3. 2^1 = 2
    OBVIOUS
  <2>4. Power(2, i + 1) = 2 * Power(2, i) /\ Power(2, i) \in Int
    BY <2>1, PowerIs
  <2>5. PICK p \in Int : p = Power(2, i) /\ 2^i = p
    BY <1>2, <2>4
  <2>6. 2^(i + 1) = p * 2
    BY <2>2, <2>3, <2>5, Zenon
  <2>7. p * 2 = 2 * p
    OBVIOUS
  <2>8. 2^(i + 1) = Power(2, i + 1)
    BY <2>4, <2>5, <2>6, <2>7
  <2>9. QED
    BY <2>1, <2>8
<1>3. \A i \in Int : 0 <= i /\ i < n /\ i \in S => i + 1 \in S
  BY <1>2
<1> HIDE DEF S
<1>4. 0..n \subseteq S
  BY <1>1, <1>3, Upwards
<1>5. QED
  BY <1>4 DEF S

\* The base is the power of two of the bits of a digit, and of any two parts of them
LEMMA BitsOfDigit ==
    /\ DigitBits \in Nat \ {0} /\ DigitBits \in Nat
    /\ BASE = Power(2, DigitBits)
    /\ \A k \in 0..DigitBits : /\ 2^k \in Nat \ {0} /\ DigitBits - k \in Nat /\ 2^(DigitBits - k) \in Nat \ {0}
                               /\ BASE = 2^k * 2^(DigitBits - k)
<1>1. DigitBits \in Nat \ {0} /\ DigitBits \in Nat
  BY BigIntegerAssumption
<1>2. BASE = Power(2, DigitBits)
  BY <1>1, TwoPower DEF BASE
<1>3. ASSUME NEW k \in 0..DigitBits
      PROVE  /\ 2^k \in Nat \ {0} /\ DigitBits - k \in Nat /\ 2^(DigitBits - k) \in Nat \ {0}
             /\ BASE = 2^k * 2^(DigitBits - k)
  <2>1. k \in Nat /\ DigitBits - k \in Nat /\ k + (DigitBits - k) = DigitBits
    BY <1>1
  <2>2. 2^(k + (DigitBits - k)) = 2^k * 2^(DigitBits - k)
    BY <2>1, TwoPowerSum
  <2>3. 2^k \in Nat \ {0} /\ 2^(DigitBits - k) \in Nat \ {0}
    BY <2>1, PowerPositive
  <2>4. 2^DigitBits = 2^k * 2^(DigitBits - k)
    BY <2>1, <2>2
  <2>5. QED
    BY <2>1, <2>3, <2>4 DEF BASE
<1>4. QED
  BY <1>1, <1>2, <1>3

\* An int32_t fits in a digit
LEMMA FromIntIs ==
    ASSUME NEW i \in Int32
    PROVE  FromInt(i) \in BigIntegers
<1>1. PICK h \in Nat \ {0} : h = 2^(DigitBits - 1) /\ BASE = 2 * h
  <2>1. DigitBits - 1 \in Nat /\ 1 \in 0..DigitBits
    BY BitsOfDigit
  <2>2. 2^(DigitBits - 1) \in Nat \ {0} /\ BASE = 2^1 * 2^(DigitBits - 1)
    BY <2>1, BitsOfDigit
  <2>3. 2^1 = 2
    OBVIOUS
  <2>4. BASE = 2 * 2^(DigitBits - 1)
    BY <2>2, <2>3, Zenon
  <2>5. QED
    BY <2>2, <2>4
<1>2. i \in -h..(h - 1)
  BY <1>1 DEF Int32
<1>3. h \in Digit /\ \A d \in 0..h : d \in Digit
  BY <1>1, BigBase
<1>4. (IF i < 0 THEN -i ELSE i) \in 0..h
  BY <1>2
<1>5. PICK d \in Digit : d = IF i < 0 THEN -i ELSE i
  BY <1>3, <1>4
<1>6. <<d>> \in Numeral /\ (IF i < 0 THEN 1 ELSE 0) \in {0, 1}
  BY OneDigit
<1>7. FromInt(i) = BigInteger(IF i < 0 THEN 1 ELSE 0, <<d>>)
  BY <1>5 DEF FromInt
<1>8. QED
  BY <1>6, <1>7, NumberIs

\* Pairs and what an operation makes of them
Folding(n, op) == [k \in 1..n |-> [g \in [Nat \X Nat -> Nat] |->
    [p \in Nat \X Nat |-> op[<<p[1] % 2, p[2] % 2>>] + 2 * g[<<p[1] \div 2, p[2] \div 2>>]]]]

\* Half of a number of k bits is one of k - 1 bits
LEMMA HalfIs ==
    ASSUME NEW k \in Nat, NEW x \in 0..(2^(k + 1) - 1)
    PROVE  /\ 2^k \in Nat \ {0} /\ 2^(k + 1) = 2 * 2^k
           /\ x % 2 \in 0..1 /\ x \div 2 \in 0..(2^k - 1)
<1>1. 2^k \in Nat \ {0} /\ 2^(k + 1) = 2 * 2^k
  <2>1. 2^(k + 1) = 2^k * 2^1 /\ 2^k \in Nat \ {0}
    BY TwoPowerSum, PowerPositive
  <2>2. 2^1 = 2
    OBVIOUS
  <2>3. 2^(k + 1) = 2^k * 2
    BY <2>1, <2>2, Zenon
  <2>4. QED
    BY <2>1, <2>3
<1>2. PICK q \in Nat \ {0} : q = 2^k
  BY <1>1
<1>3. x \in 0..(2 * q - 1)
  BY <1>1, <1>2
<1>4. x % 2 \in 0..1 /\ x \div 2 \in 0..(q - 1)
  BY <1>3
<1>5. QED
  BY <1>1, <1>2, <1>4

\* What the operations on bits are
Bitwise2 == { op \in [PairsTo(1) -> 0..1] : op[<<0, 0>>] = 0 }

\* and, or and xor of two bits
LEMMA BitsAre == AndBits \in Bitwise2 /\ OrBits \in Bitwise2 /\ XorBits \in Bitwise2
<1>1. <<0, 0>> \in PairsTo(1) /\ \A p \in PairsTo(1) : p[1] \in 0..1 /\ p[2] \in 0..1
  BY DEF PairsTo
<1>2. \A i \in 0..1, j \in 0..1 : i * j \in 0..1
  OBVIOUS
<1>3. AndBits \in [PairsTo(1) -> 0..1] /\ AndBits[<<0, 0>>] = 0 * 0
  BY <1>1, <1>2 DEF AndBits
<1>4. OrBits \in [PairsTo(1) -> 0..1] /\ OrBits[<<0, 0>>] = 0
  BY <1>1 DEF OrBits
<1>5. XorBits \in [PairsTo(1) -> 0..1] /\ XorBits[<<0, 0>>] = 0
  BY <1>1 DEF XorBits
<1>6. QED
  BY <1>3, <1>4, <1>5 DEF Bitwise2

\* The operation on numbers stays in the numbers, and on bits it is the one of bits
LEMMA BitByBitIs ==
    ASSUME NEW n \in Nat, NEW op \in Bitwise2
    PROVE  /\ \A p \in PairsTo(2^n - 1) : BitByBit(op, n)[p] \in 0..(2^n - 1)
           /\ n # 0 => \A p \in PairsTo(1) : p \in PairsTo(2^n - 1) /\ BitByBit(op, n)[p] \in 0..1
<1> DEFINE W == Nat \X Nat
           Y == [W -> Nat]
           zero == [p \in W |-> 0]
           step == Folding(n, op)
           f == CHOOSE f : f = [k \in 0..n |-> [p \in PairsTo(2^k - 1) |->
                    IF k = 0 THEN 0 ELSE op[<<p[1] % 2, p[2] % 2>>] + 2 * f[k - 1][<<p[1] \div 2, p[2] \div 2>>]]]
<1>1. /\ op[<<0, 0>>] = 0
      /\ \A i \in 0..1, j \in 0..1 : <<i, j>> \in PairsTo(1) /\ op[<<i, j>>] \in 0..1
  BY DEF Bitwise2, PairsTo
<1>2. \A x \in Nat : x % 2 \in 0..1 /\ x \div 2 \in Nat
  OBVIOUS
<1>3. step \in [1..n -> [Y -> Y]]
  <2>1. ASSUME NEW k \in 1..n, NEW g \in Y, NEW p \in W
        PROVE  op[<<p[1] % 2, p[2] % 2>>] + 2 * g[<<p[1] \div 2, p[2] \div 2>>] \in Nat
    <3>1. p[1] \in Nat /\ p[2] \in Nat
      OBVIOUS
    <3>2. <<p[1] \div 2, p[2] \div 2>> \in W
      BY <1>2, <3>1
    <3>3. g[<<p[1] \div 2, p[2] \div 2>>] \in Nat /\ op[<<p[1] % 2, p[2] % 2>>] \in 0..1
      BY <1>1, <1>2, <3>1, <3>2
    <3>4. QED
      BY <3>3
  <2>2. QED
    BY <2>1 DEF Folding
<1>4. /\ zero \in Y /\ \A p \in W : zero[p] = 0
      /\ \A k \in 1..n, g \in Y, p \in W : step[k][g][p] = op[<<p[1] % 2, p[2] % 2>>] + 2 * g[<<p[1] \div 2, p[2] \div 2>>]
  BY DEF Folding
<1> HIDE DEF zero, step, Y, W
<1>5. PICK g \in [0..n -> Y] : g[0] = zero /\ \A k \in 1..n : g[k] = step[k][g[k - 1]]
  <2>1. Rising(n, Y, zero, step) # {}
    BY <1>3, <1>4, RecursionUp
  <2>2. QED
    BY <2>1 DEF Rising
<1>6. \A k \in Nat : PairsTo(2^k - 1) \subseteq W
  BY PowerPositive DEF PairsTo, W
<1>7. ASSUME NEW k \in 1..n, NEW p \in W
      PROVE  g[k][p] = op[<<p[1] % 2, p[2] % 2>>] + 2 * g[k - 1][<<p[1] \div 2, p[2] \div 2>>]
  <2>1. k - 1 \in 0..n
    OBVIOUS
  <2>2. g[k - 1] \in Y /\ g[k] = step[k][g[k - 1]]
    BY <1>5, <2>1
  <2>3. QED
    BY <1>4, <2>2
<1>8. ASSUME NEW k \in 1..n, NEW p \in PairsTo(2^k - 1)
      PROVE  /\ k - 1 \in 0..n /\ k - 1 \in Nat
             /\ p[1] % 2 \in 0..1 /\ p[2] % 2 \in 0..1
             /\ <<p[1] \div 2, p[2] \div 2>> \in PairsTo(2^(k - 1) - 1)
             /\ 2^(k - 1) \in Nat \ {0} /\ 2^k = 2 * 2^(k - 1)
  <2>1. k - 1 \in 0..n /\ k - 1 \in Nat /\ k - 1 + 1 = k
    OBVIOUS
  <2>2. PICK i \in Nat : i = k - 1
    BY <2>1
  <2>3. i + 1 = k
    BY <2>2
  <2>4. p[1] \in 0..(2^(i + 1) - 1) /\ p[2] \in 0..(2^(i + 1) - 1)
    BY <2>3 DEF PairsTo
  <2>5. /\ 2^i \in Nat \ {0} /\ 2^(i + 1) = 2 * 2^i
        /\ p[1] % 2 \in 0..1 /\ p[1] \div 2 \in 0..(2^i - 1)
        /\ p[2] % 2 \in 0..1 /\ p[2] \div 2 \in 0..(2^i - 1)
    BY <2>4, HalfIs
  <2>6. QED
    BY <2>1, <2>2, <2>3, <2>5 DEF PairsTo
<1> DEFINE u == [k \in 0..n |-> [p \in PairsTo(2^k - 1) |-> g[k][p]]]
           h == [k \in 0..n |-> [p \in PairsTo(2^k - 1) |->
                    IF k = 0 THEN 0 ELSE op[<<p[1] % 2, p[2] % 2>>] + 2 * u[k - 1][<<p[1] \div 2, p[2] \div 2>>]]]
<1>9. u = h
  <2>1. u = [k \in 0..n |-> u[k]] /\ h = [k \in 0..n |-> h[k]]
    OBVIOUS
  <2>2. ASSUME NEW k \in 0..n
        PROVE  u[k] = h[k]
    <3>1. u[k] = [p \in PairsTo(2^k - 1) |-> u[k][p]] /\ h[k] = [p \in PairsTo(2^k - 1) |-> h[k][p]]
      OBVIOUS
    <3>2. ASSUME NEW p \in PairsTo(2^k - 1)
          PROVE  u[k][p] = h[k][p]
      <4>1. p \in W
        BY <1>6
      <4>2. CASE k = 0
        <5>1. u[k][p] = g[k][p] /\ h[k][p] = 0
          BY <4>2
        <5>2. QED
          BY <1>4, <1>5, <4>1, <4>2, <5>1
      <4>3. CASE k # 0
        <5>1. k \in 1..n
          BY <4>3
        <5>2. u[k - 1][<<p[1] \div 2, p[2] \div 2>>] = g[k - 1][<<p[1] \div 2, p[2] \div 2>>]
          BY <1>8, <5>1
        <5>3. u[k][p] = g[k][p] /\ h[k][p] = op[<<p[1] % 2, p[2] % 2>>] + 2 * u[k - 1][<<p[1] \div 2, p[2] \div 2>>]
          BY <4>3
        <5>4. QED
          BY <1>7, <4>1, <5>1, <5>2, <5>3
      <4>4. QED
        BY <4>2, <4>3
    <3> HIDE DEF u, h
    <3>3. QED
      BY <3>1, <3>2, Extensional
  <2> HIDE DEF u, h
  <2>3. QED
    BY <2>1, <2>2, Extensional
<1>10. f = [k \in 0..n |-> [p \in PairsTo(2^k - 1) |->
              IF k = 0 THEN 0 ELSE op[<<p[1] % 2, p[2] % 2>>] + 2 * f[k - 1][<<p[1] \div 2, p[2] \div 2>>]]]
  BY <1>9
<1>11. BitByBit(op, n) = f[n]
  BY DEF BitByBit
<1> HIDE DEF f, u, h
<1>12. ASSUME NEW k \in 0..n, NEW p \in PairsTo(2^k - 1)
       PROVE  f[k][p] = IF k = 0 THEN 0 ELSE op[<<p[1] % 2, p[2] % 2>>] + 2 * f[k - 1][<<p[1] \div 2, p[2] \div 2>>]
  <2>1. f[k] = [x \in PairsTo(2^k - 1) |->
              IF k = 0 THEN 0 ELSE op[<<x[1] % 2, x[2] % 2>>] + 2 * f[k - 1][<<x[1] \div 2, x[2] \div 2>>]]
    BY <1>10
  <2>2. QED
    BY <2>1
<1> DEFINE S == { k \in 0..n : <<0, 0>> \in PairsTo(2^k - 1) /\ f[k][<<0, 0>>] = 0
                               /\ \A p \in PairsTo(2^k - 1) : f[k][p] \in 0..(2^k - 1) }
<1>13. 0..n \subseteq S
  <2>1. 0 \in S /\ 0 \in Int /\ n \in Int /\ 0 <= n
    <3>1. 2^0 = 1
      OBVIOUS
    <3>2. <<0, 0>> \in PairsTo(2^0 - 1) /\ 2^0 - 1 = 0
      BY <3>1 DEF PairsTo
    <3>3. 0 \in 0..n /\ \A p \in PairsTo(2^0 - 1) : f[0][p] = 0
      <4>1. 0 \in 0..n
        OBVIOUS
      <4>2. \A k \in 0..n : k = 0 => \A p \in PairsTo(2^k - 1) : f[k][p] = 0
        BY <1>12
      <4>3. QED
        BY <4>1, <4>2, Zenon
    <3>4. QED
      BY <3>2, <3>3
  <2>2. ASSUME NEW i \in Int, 0 <= i, i < n, i \in S
        PROVE  i + 1 \in S
    <3>1. PICK k \in 1..n : k = i + 1
      BY <2>2
    <3>2. k - 1 = i /\ k \in 0..n /\ i \in Nat /\ k # 0
      BY <2>2, <3>1
    <3>3. PICK t \in Nat \ {0} : t = 2^i /\ 2^k = 2 * t
      <4>1. 2^i \in Nat \ {0} /\ 0 \in 0..(2^(i + 1) - 1)
        BY <3>2, PowerPositive
      <4>2. 2^(i + 1) = 2 * 2^i
        BY <3>2, <4>1, HalfIs
      <4>3. QED
        BY <3>1, <4>1, <4>2
    <3>4. <<0, 0>> \in PairsTo(2^k - 1)
      BY <3>3 DEF PairsTo
    <3>5. ASSUME NEW p \in PairsTo(2^k - 1)
          PROVE  f[k][p] \in 0..(2^k - 1)
      <4>1. /\ p[1] % 2 \in 0..1 /\ p[2] % 2 \in 0..1
            /\ <<p[1] \div 2, p[2] \div 2>> \in PairsTo(2^i - 1)
        BY <1>8, <3>2
      <4>2. f[i][<<p[1] \div 2, p[2] \div 2>>] \in 0..(t - 1)
        BY <2>2, <3>3, <4>1
      <4>3. op[<<p[1] % 2, p[2] % 2>>] \in 0..1
        BY <1>1, <4>1
      <4>4. f[k][p] = op[<<p[1] % 2, p[2] % 2>>] + 2 * f[i][<<p[1] \div 2, p[2] \div 2>>]
        BY <1>12, <3>2
      <4>5. f[k][p] \in 0..(2 * t - 1)
        BY <4>2, <4>3, <4>4
      <4>6. QED
        BY <3>3, <4>5
    <3>6. f[k][<<0, 0>>] = 0
      <4>1. f[k][<<0, 0>>] = op[<<0 % 2, 0 % 2>>] + 2 * f[i][<<0 \div 2, 0 \div 2>>]
        <5>1. PICK p \in PairsTo(2^k - 1) : p = <<0, 0>>
          BY <3>4
        <5>2. f[k][p] = op[<<p[1] % 2, p[2] % 2>>] + 2 * f[i][<<p[1] \div 2, p[2] \div 2>>] /\ p[1] = 0 /\ p[2] = 0
          BY <1>12, <3>2, <5>1
        <5>3. QED
          BY <5>1, <5>2
      <4>2. 0 % 2 = 0 /\ 0 \div 2 = 0
        OBVIOUS
      <4>3. f[i][<<0, 0>>] = 0
        BY <2>2
      <4>4. QED
        BY <1>1, <4>1, <4>2, <4>3
    <3>7. k \in S
      BY <3>2, <3>4, <3>5, <3>6
    <3>8. QED
      BY <3>1, <3>7
  <2>3. \A i \in Int : 0 <= i /\ i < n /\ i \in S => i + 1 \in S
    BY <2>2
  <2> HIDE DEF S
  <2>4. QED
    BY <2>1, <2>3, Upwards
<1>14. \A p \in PairsTo(2^n - 1) : BitByBit(op, n)[p] \in 0..(2^n - 1)
  <2>1. n \in S
    BY <1>13
  <2>2. QED
    BY <1>11, <2>1
<1>15. ASSUME n # 0, NEW p \in PairsTo(1)
       PROVE  p \in PairsTo(2^n - 1) /\ BitByBit(op, n)[p] \in 0..1
  <2>1. PICK i \in Nat : i = n - 1 /\ i \in 0..n /\ i + 1 = n
    BY <1>15
  <2>2. p[1] \in 0..1 /\ p[2] \in 0..1 /\ p = <<p[1], p[2]>>
    BY DEF PairsTo
  <2>3. p \in PairsTo(2^n - 1)
    <3>1. 2^i \in Nat \ {0} /\ 0 \in 0..(2^(i + 1) - 1)
      BY <2>1, PowerPositive
    <3>2. 2^n = 2 * 2^i
      BY <2>1, <3>1, HalfIs
    <3>3. 1 <= 2^n - 1 /\ 2^n - 1 \in Int
      BY <3>1, <3>2
    <3>4. 0..1 \subseteq 0..(2^n - 1)
      BY <3>3
    <3>5. QED
      BY <3>4 DEF PairsTo
  <2>4. /\ p[1] % 2 = p[1] /\ p[2] % 2 = p[2] /\ p[1] \div 2 = 0 /\ p[2] \div 2 = 0
    BY <2>2
  <2>5. n \in 0..n /\ n # 0 /\ n - 1 = i
    BY <2>1
  <2>6. f[n][p] = op[<<p[1], p[2]>>] + 2 * f[i][<<0, 0>>]
    BY <1>12, <2>3, <2>4, <2>5
  <2>7. f[i][<<0, 0>>] = 0 /\ op[<<p[1], p[2]>>] \in 0..1
    BY <1>1, <1>13, <2>1, <2>2
  <2>8. f[n][p] \in 0..1
    BY <2>6, <2>7
  <2>9. QED
    BY <1>11, <2>3, <2>8
<1>16. QED
  BY <1>14, <1>15

\* A sign and digits, leading zeros included
Codes == [sign : {0, 1}, arr : Digits]

\* What is known of a number or a code
LEMMA CodeHas ==
    /\ BigIntegers \subseteq Codes
    /\ \A m \in Codes : m.sign \in {0, 1} /\ m.arr \in Digits /\ m # Threw
    /\ \A s \in {0, 1}, a \in Digits : /\ BigInteger(s, a) \in Codes /\ Signed(s, a) = BigInteger(s, a)
                                       /\ BigInteger(s, a).sign = s /\ BigInteger(s, a).arr = a
    /\ \A s : Signed(s, <<>>) = Threw
    /\ Threw.arr = <<>> /\ Threw.sign = 0
<1>1. BigIntegers \subseteq Codes
  BY DEF BigIntegers, Codes, Numeral
<1>2. <<>> \notin Digits /\ Threw.arr = <<>> /\ Threw.sign = 0
  BY DEF Digits, Threw, BigInteger
<1>3. \A m \in Codes : m.sign \in {0, 1} /\ m.arr \in Digits /\ m # Threw
  BY <1>2 DEF Codes
<1>4. \A s \in {0, 1}, a \in Digits : /\ BigInteger(s, a) \in Codes /\ Signed(s, a) = BigInteger(s, a)
                                      /\ BigInteger(s, a).sign = s /\ BigInteger(s, a).arr = a
  BY <1>2 DEF Codes, Signed, BigInteger
<1>5. \A s : Signed(s, <<>>) = Threw
  BY DEF Signed
<1>6. QED
  BY <1>1, <1>2, <1>3, <1>4, <1>5

\* ~ of each digit
LEMMA FlippedIs ==
    ASSUME NEW s \in Digits \cup {<<>>}
    PROVE  /\ s \in Digits => [i \in DOMAIN s |-> Ones - s[i]] \in Digits
           /\ s = <<>> => [i \in DOMAIN s |-> Ones - s[i]] = <<>>
<1> DEFINE f == [i \in DOMAIN s |-> Ones - s[i]]
<1>1. s \in Seq(Digit)
  <2>1. <<>> \in Seq(Digit) /\ Digits \subseteq Seq(Digit)
    BY DEF Digits
  <2>2. QED
    BY <2>1
<1>2. Len(s) \in Nat /\ DOMAIN s = 1..Len(s) /\ s \in [1..Len(s) -> Digit]
  BY <1>1, SequenceOf
<1>3. \A i \in 1..Len(s) : Ones - s[i] \in Digit
  BY <1>2, BigBase DEF Ones
<1>4. f \in [1..Len(s) -> Digit]
  BY <1>2, <1>3
<1> HIDE DEF f
<1>5. f \in Seq(Digit) /\ Len(f) = Len(s)
  BY <1>2, <1>4, SequenceIs
<1>6. s # <<>> => Len(s) # 0
  BY <1>1
<1>7. s = <<>> => f = <<>>
  BY <1>5
<1>8. s \in Digits => f \in Digits
  BY <1>5, <1>6 DEF Digits
<1>9. QED
  BY <1>7, <1>8 DEF f

\* The code of a number is one, that of a code may be an exception
LEMMA AdditionalCodeIs ==
    ASSUME NEW m \in Codes
    PROVE  /\ AdditionalCode(m) \in Codes \cup {Threw}
           /\ m \in BigIntegers => AdditionalCode(m) \in Codes
<1> DEFINE up == Inc(m)
           flipped == [i \in DOMAIN up.arr |-> Ones - up.arr[i]]
<1>1. m.sign \in {0, 1} /\ m.arr \in Digits
  BY CodeHas
<1>2. AdditionalCode(m) = IF m.sign = 0 THEN m ELSE Signed(up.sign, flipped)
  BY DEF AdditionalCode
<1>3. ASSUME m.sign = 1
      PROVE  up.sign \in {0, 1} /\ up.arr \in Numeral \cup {<<>>}
  <2>1. <<1>> \in Numeral /\ <<1>> \in Digits
    BY BigBase, OneDigit, NumeralIsLarge
  <2>2. One.sign = 0 /\ One.arr = <<1>>
    BY DEF One, BigInteger
  <2>3. up = Difference(m, One)
    BY <1>3, <2>2 DEF Inc, Plus
  <2>4. PICK d \in Numeral \cup {<<>>}, s \in {0, 1} : up = Signed(s, d)
    <3>1. /\ SubLongLong(m.arr, <<1>>) \in Numeral \cup {<<>>}
          /\ SubLongLong(<<1>>, m.arr) \in Numeral \cup {<<>>}
      BY <1>1, <2>1, SubLongLongIs
    <3>2. \/ up = Signed(m.sign, SubLongLong(m.arr, <<1>>))
          \/ up = Signed(1 - m.sign, SubLongLong(<<1>>, m.arr))
      BY <2>2, <2>3 DEF Difference
    <3>3. m.sign \in {0, 1} /\ 1 - m.sign \in {0, 1}
      BY <1>1
    <3>4. CASE up = Signed(m.sign, SubLongLong(m.arr, <<1>>))
      BY <3>1, <3>3, <3>4, Zenon
    <3>5. CASE up = Signed(1 - m.sign, SubLongLong(<<1>>, m.arr))
      BY <3>1, <3>3, <3>5, Zenon
    <3>6. QED
      BY <3>2, <3>4, <3>5
  <2>5. d = <<>> \/ d \in Digits
    BY <2>4, NumeralIsLarge
  <2> HIDE DEF up
  <2>6. QED
    BY <2>4, <2>5, CodeHas
<1>4. ASSUME m.sign = 1, up.arr \in Numeral
      PROVE  AdditionalCode(m) \in Codes
  <2>1. up.arr \in Digits
    BY <1>4, NumeralIsLarge
  <2>2. flipped \in Digits
    BY <2>1, FlippedIs
  <2> HIDE DEF up, flipped
  <2>3. AdditionalCode(m) = Signed(up.sign, flipped)
    BY <1>2, <1>4
  <2>4. QED
    BY <1>3, <1>4, <2>2, <2>3, CodeHas
<1>5. ASSUME m.sign = 1, up.arr = <<>>
      PROVE  AdditionalCode(m) = Threw
  <2>1. flipped = <<>>
    BY <1>5, FlippedIs
  <2> HIDE DEF up, flipped
  <2>2. AdditionalCode(m) = Signed(up.sign, <<>>)
    BY <1>2, <1>5, <2>1
  <2>3. QED
    BY <2>2, CodeHas
<1>6. ASSUME m \in BigIntegers
      PROVE  up.arr \in Numeral
  BY <1>6, StepsAre, NumberHas
<1> HIDE DEF up, flipped
<1>7. m.sign = 0 => AdditionalCode(m) \in Codes
  BY <1>2
<1>8. QED
  BY <1>1, <1>3, <1>4, <1>5, <1>6, <1>7

\* What comes back from a code
LEMMA BackIs ==
    ASSUME NEW code \in Codes
    PROVE  LET back == AdditionalCode(code)
           IN  back # Threw => BigInteger(back.sign, Trim(back.arr)) \in BigIntegers
<1> DEFINE back == AdditionalCode(code)
<1>1. back # Threw => back \in Codes
  BY AdditionalCodeIs
<1> HIDE DEF back
<1>2. back # Threw => back.sign \in {0, 1} /\ Trim(back.arr) \in Numeral
  BY <1>1, CodeHas, TrimIs
<1>3. back # Threw => BigInteger(back.sign, Trim(back.arr)) \in BigIntegers
  BY <1>2, NumberIs
<1>4. QED
  BY <1>3 DEF back

\* What &, | and ^ are on digits and on signs
IsBitFunction(f) ==
    /\ \A x \in Digit, y \in Digit : f[<<x, y>>] \in Digit
    /\ \A x \in 0..1, y \in 0..1 : f[<<x, y>>] \in {0, 1}

\* and, or and xor of two digits, as the operators use them
LEMMA BitFunctionsAre == IsBitFunction(AndFunc) /\ IsBitFunction(OrFunc) /\ IsBitFunction(XorFunc)
<1>1. DigitBits \in Nat /\ DigitBits # 0 /\ Digit = 0..(2^DigitBits - 1)
  BY BitsOfDigit, BigBase DEF BASE
<1>2. ASSUME NEW op \in Bitwise2
      PROVE  IsBitFunction(BitByBit(op, DigitBits))
  <2> DEFINE f == BitByBit(op, DigitBits)
  <2>1. /\ \A p \in PairsTo(2^DigitBits - 1) : f[p] \in Digit
        /\ \A p \in PairsTo(1) : f[p] \in 0..1
    BY <1>1, BitByBitIs
  <2>2. /\ \A x \in Digit, y \in Digit : <<x, y>> \in PairsTo(2^DigitBits - 1)
        /\ \A x \in 0..1, y \in 0..1 : <<x, y>> \in PairsTo(1)
    BY <1>1 DEF PairsTo
  <2>3. \A b \in 0..1 : b \in {0, 1}
    OBVIOUS
  <2> HIDE DEF f
  <2>4. IsBitFunction(f)
    BY <2>1, <2>2, <2>3 DEF IsBitFunction
  <2>5. QED
    BY <2>4 DEF f
<1>3. QED
  BY <1>2, BitsAre DEF AndFunc, OrFunc, XorFunc

\* A bitwise operation leaves a number or an exception
LEMMA BinaryOperationIs ==
    ASSUME NEW f, IsBitFunction(f), NEW m \in BigIntegers, NEW n \in BigIntegers
    PROVE  BinaryOperation(f, m, n) \in Results
<1> DEFINE a == AdditionalCode(m)
           b == AdditionalCode(n)
           B(i) == IF i <= Len(b.arr) THEN b.arr[i] ELSE SignFill(b)
           N == Max({Len(a.arr), Len(b.arr)})
           arr == [i \in 1..N |-> f[<<At(a.arr, i), B(i)>>]]
           code == BigInteger(f[<<a.sign, b.sign>>], arr)
           back == AdditionalCode(code)
<1>1. BinaryOperation(f, m, n) = IF back = Threw THEN Threw ELSE BigInteger(back.sign, Trim(back.arr))
  BY DEF BinaryOperation
<1>2. a \in Codes /\ b \in Codes
  BY CodeHas, AdditionalCodeIs
<1> HIDE DEF a, b
<1>3. a.sign \in {0, 1} /\ b.sign \in {0, 1} /\ a.arr \in Digits /\ b.arr \in Digits
  BY <1>2, CodeHas
<1>4. /\ Len(a.arr) \in Nat \ {0} /\ a.arr \in [1..Len(a.arr) -> Digit]
      /\ Len(b.arr) \in Nat \ {0} /\ b.arr \in [1..Len(b.arr) -> Digit]
  BY <1>3, DigitsAre DEF Digits
<1>5. N \in Nat \ {0}
  BY <1>4, MaxOfTwo
<1> HIDE DEF N
<1>6. SignFill(b) \in Digit
  <2>1. 0 * Ones = 0 /\ 1 * Ones = Ones /\ Ones \in Digit /\ 0 \in Digit
    BY BigBase DEF Ones
  <2>2. QED
    BY <1>3, <2>1 DEF SignFill
<1>7. \A i \in 1..N : At(a.arr, i) \in Digit /\ B(i) \in Digit
  BY <1>4, <1>5, <1>6, BigBase DEF At
<1> HIDE DEF B
<1>8. arr \in [1..N -> Digit]
  BY <1>7 DEF IsBitFunction
<1> HIDE DEF arr
<1>9. arr \in Digits
  <2>1. arr \in Seq(Digit) /\ Len(arr) = N
    BY <1>5, <1>8, SequenceIs
  <2>2. Len(<<>>) = 0
    OBVIOUS
  <2>3. QED
    BY <1>5, <2>1, <2>2 DEF Digits
<1>10. f[<<a.sign, b.sign>>] \in {0, 1}
  BY <1>3 DEF IsBitFunction
<1>11. code \in Codes
  BY <1>9, <1>10, CodeHas
<1> HIDE DEF code
<1>12. QED
  BY <1>1, <1>11, BackIs DEF Results

\* The shift of a digit keeps room for what is shifted in
LEMMA ShiftedDigit ==
    ASSUME NEW p \in Nat \ {0}, NEW c \in Nat \ {0}, NEW B \in Nat \ {0}, B = p * c,
           NEW x \in 0..(B - 1), NEW y \in 0..(p - 1)
    PROVE  ((x * p) % B) + y \in 0..(B - 1)
<1>1. PICK q \in Int, r \in 0..(c - 1) : x = c * q + r
  <2>1. x \in Int
    OBVIOUS
  <2>2. x \div c \in Int /\ x % c \in 0..(c - 1) /\ x = c * (x \div c) + (x % c)
    BY <2>1, DivMod
  <2>3. QED
    BY <2>2
<1>2. p * r \in 0..(B - p)
  <2>1. 0 <= p * r /\ p * r \in Int
    BY <1>1
  <2>2. p * r <= p * (c - 1)
    BY <1>1
  <2>3. p * (c - 1) = p * c - p
    OBVIOUS
  <2>4. QED
    BY <2>1, <2>2, <2>3
<1>3. x * p = B * q + p * r
  <2>1. x * p = (c * q) * p + r * p
    BY <1>1
  <2>2. (c * q) * p = (p * c) * q /\ r * p = p * r
    BY <1>1
  <2>3. QED
    BY <2>1, <2>2
<1>4. PICK t \in 0..(B - p) : t = p * r
  BY <1>2
<1>5. t \in 0..(B - 1) /\ x * p = B * q + t /\ x * p \in Int
  BY <1>3, <1>4
<1>6. (x * p) % B = t
  <2>1. PICK z \in Int : z = x * p
    BY <1>5
  <2>2. z = B * q + t /\ q \in Int /\ t \in 0..(B - 1)
    BY <1>1, <1>5, <2>1
  <2>3. z % B = t
    BY <2>2, DivModUnique
  <2>4. QED
    BY <2>1, <2>3
<1>7. t + y \in 0..(B - 1)
  BY <1>4
<1>8. QED
  BY <1>6, <1>7

\* Parts and bits of a shift
LEMMA PartsAndBits ==
    ASSUME NEW k \in Nat
    PROVE  /\ Parts(k) \in Nat /\ Bits(k) \in Nat /\ Bits(k) \in 0..DigitBits
           /\ 2^Bits(k) \in Nat \ {0} /\ 2^(DigitBits - Bits(k)) \in Nat \ {0}
           /\ BASE = 2^Bits(k) * 2^(DigitBits - Bits(k))
<1>1. DigitBits \in Nat \ {0}
  BY BitsOfDigit
<1>2. k \div DigitBits \in Nat /\ k % DigitBits \in 0..(DigitBits - 1)
  <2>1. k \in Int
    OBVIOUS
  <2>2. QED
    BY <1>1, <2>1, DivMod
<1>3. Bits(k) \in 0..DigitBits /\ Bits(k) \in Nat
  BY <1>1, <1>2 DEF Bits
<1>4. QED
  BY <1>2, <1>3, BitsOfDigit DEF Parts

\* What << carries from digit to digit: p is 2^bits and c the rest of the base
Masks(L, s, c) ==
    CHOOSE mask : mask = [i \in 2..(L + 1) |->
        IF i > L THEN BASE - c ELSE AndFunc[<<mask[i + 1], s[i - 1]>>] \div c]

\* What one digit passes to the next in a shift to the right
LEMMA MasksAre ==
    ASSUME NEW L \in Nat, L >= 1, NEW s \in [1..L -> Digit], NEW p \in Nat \ {0}, NEW c \in Nat \ {0}, BASE = p * c
    PROVE  \A i \in 2..L : Masks(L, s, c)[i] \in 0..(p - 1)
<1> DEFINE n == L - 1
           step == [j \in 1..n |-> [x \in Digit |-> AndFunc[<<x, s[j]>>] \div c]]
           mask == Masks(L, s, c)
<1>1. n \in Nat /\ n + 1 = L /\ \A j \in 1..n : j \in 1..L /\ j + 1 \in 1..L /\ j + 1 \in 1..(n + 1)
  OBVIOUS
<1>2. c <= BASE /\ BASE \in Nat \ {0} /\ BASE - c \in Digit
  <2>1. c <= p * c
    <3>1. p = 1 + (p - 1) /\ p - 1 \in Nat
      OBVIOUS
    <3>2. (1 + (p - 1)) * c = c + (p - 1) * c /\ (p - 1) * c \in Nat
      BY <3>1
    <3>3. QED
      BY <3>1, <3>2
  <2>2. QED
    BY <2>1, BigBase
<1>3. ASSUME NEW x \in Digit, NEW y \in Digit
      PROVE  AndFunc[<<x, y>>] \div c \in 0..(p - 1) /\ AndFunc[<<x, y>>] \div c \in Digit
  <2>1. PICK z \in 0..(BASE - 1) : z = AndFunc[<<x, y>>]
    BY BitFunctionsAre, BigBase DEF IsBitFunction
  <2>2. z \in Nat /\ z < c * p
    <3>1. c * p = p * c
      OBVIOUS
    <3>2. QED
      BY <1>2, <2>1, <3>1
  <2>3. z \div c \in Nat /\ z \div c < p
    BY <2>2, DivLess
  <2>4. p <= BASE
    <3>1. p <= p * c
      <4>1. c = 1 + (c - 1) /\ c - 1 \in Nat
        OBVIOUS
      <4>2. p * (1 + (c - 1)) = p + p * (c - 1) /\ p * (c - 1) \in Nat
        BY <4>1
      <4>3. QED
        BY <4>1, <4>2
    <3>2. QED
      BY <3>1
  <2>5. PICK w \in Nat : w = z \div c /\ w < p
    BY <2>3
  <2>6. w \in 0..(p - 1) /\ w \in Digit
    BY <1>2, <2>4, <2>5, BigBase
  <2>7. QED
    BY <2>1, <2>5, <2>6
<1>4. /\ step \in [1..n -> [Digit -> Digit]]
      /\ \A j \in 1..n, x \in Digit : step[j][x] = AndFunc[<<x, s[j]>>] \div c
  BY <1>1, <1>3
<1> HIDE DEF step
<1>5. PICK f \in [1..(n + 1) -> Digit] : f[n + 1] = BASE - c /\ \A j \in 1..n : f[j] = step[j][f[j + 1]]
  <2>1. Falling(n, Digit, BASE - c, step) # {}
    BY <1>1, <1>2, <1>4, RecursionDown
  <2>2. QED
    BY <2>1 DEF Falling
<1>6. \A j \in 1..n : f[j] = AndFunc[<<f[j + 1], s[j]>>] \div c
  BY <1>1, <1>4, <1>5
<1> DEFINE u == [i \in 2..(L + 1) |-> f[i - 1]]
           h == [i \in 2..(L + 1) |-> IF i > L THEN BASE - c ELSE AndFunc[<<u[i + 1], s[i - 1]>>] \div c]
<1>7. u = h
  <2>1. u = [i \in 2..(L + 1) |-> u[i]] /\ h = [i \in 2..(L + 1) |-> h[i]]
    OBVIOUS
  <2>2. ASSUME NEW i \in 2..(L + 1)
        PROVE  u[i] = h[i]
    <3>1. CASE i > L
      <4>1. i = L + 1 /\ i - 1 = n + 1
        BY <3>1
      <4>2. u[i] = f[n + 1] /\ h[i] = BASE - c
        BY <3>1, <4>1
      <4>3. QED
        BY <1>5, <4>2
    <3>2. CASE ~(i > L)
      <4>1. i - 1 \in 1..n /\ i + 1 \in 2..(L + 1) /\ i - 1 + 1 = i /\ i + 1 - 1 = i
        BY <3>2
      <4>2. u[i] = f[i - 1] /\ u[i + 1] = f[i] /\ h[i] = AndFunc[<<u[i + 1], s[i - 1]>>] \div c
        BY <3>2, <4>1
      <4>3. PICK j \in 1..n : j = i - 1 /\ j + 1 = i
        BY <4>1
      <4>4. f[j] = AndFunc[<<f[j + 1], s[j]>>] \div c
        BY <1>6
      <4> HIDE DEF u, h
      <4>5. QED
        BY <4>2, <4>3, <4>4
    <3>3. QED
      BY <3>1, <3>2
  <2> HIDE DEF u, h
  <2>3. QED
    BY <2>1, <2>2, Extensional
<1>8. mask = [i \in 2..(L + 1) |-> IF i > L THEN BASE - c ELSE AndFunc[<<mask[i + 1], s[i - 1]>>] \div c]
  BY <1>7 DEF Masks
<1> HIDE DEF mask, u, h
<1>9. /\ mask[L + 1] = BASE - c
      /\ \A i \in 2..L : mask[i] = AndFunc[<<mask[i + 1], s[i - 1]>>] \div c
  <2>1. L + 1 \in 2..(L + 1) /\ L + 1 > L /\ \A i \in 2..L : i \in 2..(L + 1) /\ ~(i > L)
    OBVIOUS
  <2>2. QED
    BY <1>8, <2>1
<1> DEFINE S == { i \in 2..(L + 1) : mask[i] \in Digit }
<1>10. 2..(L + 1) \subseteq S
  <2>1. L + 1 \in S /\ 2 \in Int /\ L + 1 \in Int /\ 2 <= L + 1
    BY <1>2, <1>9
  <2>2. ASSUME NEW i \in Int, 2 <= i, i < L + 1, i + 1 \in S
        PROVE  i \in S
    <3>1. i \in 2..L /\ i \in 2..(L + 1) /\ i - 1 \in 1..L
      BY <2>2
    <3>2. mask[i + 1] \in Digit /\ s[i - 1] \in Digit
      BY <2>2, <3>1
    <3>3. QED
      BY <1>3, <1>9, <3>1, <3>2
  <2> HIDE DEF S
  <2>3. \A i \in Int : 2 <= i /\ i < L + 1 /\ i + 1 \in S => i \in S
    BY <2>2
  <2>4. QED
    BY <2>1, <2>3, Downwards
<1>11. ASSUME NEW i \in 2..L
       PROVE  mask[i] \in 0..(p - 1)
  <2>1. i + 1 \in 2..(L + 1) /\ i - 1 \in 1..L
    OBVIOUS
  <2>2. mask[i + 1] \in Digit /\ s[i - 1] \in Digit
    BY <1>10, <2>1
  <2>3. QED
    BY <1>3, <1>9, <2>2
<1>12. QED
  BY <1>11 DEF mask

\* A left shift leaves a number
LEMMA ShiftLeftIs ==
    ASSUME NEW m \in BigIntegers, NEW k \in Nat
    PROVE  ShiftLeft(m, k) \in BigIntegers
<1> DEFINE bits == Bits(k)
           s == m.arr \o <<0>>
           L == Len(s)
           p == 2^bits
           c == 2^(DigitBits - bits)
           mask == Masks(L, s, c)
           Low(i) == IF bits = 0 \/ i = 1 THEN 0 ELSE mask[i]
           shifted == [i \in DOMAIN s |-> ((s[i] * p) % BASE) + Low(i)]
           zeros == [i \in 1..Parts(k) |-> 0]
<1>1. ShiftLeft(m, k) = IF k = 0 \/ IsZero(m.arr) THEN m ELSE BigInteger(m.sign, Trim(zeros \o shifted))
  BY DEF ShiftLeft, Masks
<1>2. /\ Parts(k) \in Nat /\ p \in Nat \ {0} /\ c \in Nat \ {0} /\ BASE = p * c
  BY PartsAndBits
<1>3. m.sign \in {0, 1} /\ m.arr \in Seq(Digit) /\ Len(m.arr) \in Nat \ {0}
  BY NumberHas, NumeralIsLarge
<1>4. s \in Seq(Digit) /\ L \in Nat /\ L >= 1
  <2>1. <<0>> \in Seq(Digit) /\ Len(<<0>>) = 1
    BY BigBase
  <2>2. s \in Seq(Digit) /\ Len(s) = Len(m.arr) + Len(<<0>>)
    BY <1>3, <2>1, ConcatIs
  <2>3. QED
    BY <1>3, <2>1, <2>2
<1> HIDE DEF s
<1>5. s \in [1..L -> Digit] /\ DOMAIN s = 1..L
  BY <1>4, SequenceOf
<1> HIDE DEF p, c, bits, L
<1>6. \A i \in 2..L : mask[i] \in 0..(p - 1)
  BY <1>2, <1>4, <1>5, MasksAre
<1> HIDE DEF mask
<1>7. ASSUME NEW i \in 1..L
      PROVE  ((s[i] * p) % BASE) + Low(i) \in Digit
  <2>1. Low(i) \in 0..(p - 1)
    <3>1. 0 \in 0..(p - 1)
      BY <1>2
    <3>2. i # 1 => i \in 2..L
      OBVIOUS
    <3>3. QED
      BY <1>6, <3>1, <3>2
  <2>2. s[i] \in 0..(BASE - 1)
    BY <1>5, BigBase
  <2> HIDE DEF Low
  <2>3. PICK x \in 0..(BASE - 1), y \in 0..(p - 1) : x = s[i] /\ y = Low(i)
    BY <2>1, <2>2
  <2>4. ((x * p) % BASE) + y \in 0..(BASE - 1)
    BY <1>2, BigBase, ShiftedDigit
  <2>5. QED
    BY <2>3, <2>4, BigBase
<1> HIDE DEF Low
<1>8. shifted \in [1..L -> Digit]
  BY <1>5, <1>7
<1>9. zeros \in [1..Parts(k) -> Digit]
  BY BigBase
<1> HIDE DEF shifted, zeros
<1>10. zeros \o shifted \in Digits
  <2>1. shifted \in Seq(Digit) /\ Len(shifted) = L /\ zeros \in Seq(Digit) /\ Len(zeros) = Parts(k)
    BY <1>2, <1>4, <1>8, <1>9, SequenceIs
  <2>2. zeros \o shifted \in Seq(Digit) /\ Len(zeros \o shifted) = Len(zeros) + Len(shifted)
    BY <2>1, ConcatIs
  <2>3. Len(zeros \o shifted) # 0 /\ Len(<<>>) = 0
    BY <1>2, <1>4, <2>1, <2>2
  <2>4. QED
    BY <2>2, <2>3 DEF Digits
<1>11. Trim(zeros \o shifted) \in Numeral
  BY <1>10, TrimIs
<1>12. QED
  BY <1>1, <1>3, <1>11, NumberIs

\* A digit of the result of >>
LEMMA MovedDigit ==
    ASSUME NEW p \in Nat \ {0}, NEW c \in Nat \ {0}, NEW B \in Nat \ {0}, B = p * c,
           NEW x \in 0..(B - 1), NEW y \in 0..(B - 1)
    PROVE  (x \div p) + (y % p) * c \in 0..(B - 1)
<1>1. x \div p \in Nat /\ x \div p < c
  BY DivLess
<1>2. y % p \in 0..(p - 1)
  <2>1. y \in Int
    OBVIOUS
  <2>2. QED
    BY <2>1, DivMod
<1>3. PICK q \in Nat, r \in Nat : q = x \div p /\ r = y % p /\ q <= c - 1 /\ r <= p - 1
  BY <1>1, <1>2
<1>4. r * c <= (p - 1) * c /\ (p - 1) * c = p * c - c /\ r * c \in Nat
  BY <1>3
<1>5. q + r * c \in 0..(B - 1)
  BY <1>3, <1>4
<1>6. QED
  BY <1>3, <1>5

\* A right shift leaves a number or an exception
LEMMA ShiftRightIs ==
    ASSUME NEW m \in BigIntegers, NEW k \in Nat
    PROVE  ShiftRight(m, k) \in Results
<1> DEFINE code == AdditionalCode(m)
           a == code.arr
           L == Len(a)
           p == 2^Bits(k)
           c == 2^(DigitBits - Bits(k))
           Above(i) == IF i = L THEN SignFill(code) ELSE a[i + 1]
           Part(i) == (a[i] \div p) + (Above(i) % p) * c
           arr == [i \in DOMAIN a |-> IF i + Parts(k) <= L THEN Part(i + Parts(k)) ELSE SignFill(code)]
           moved == BigInteger(code.sign, arr)
           back == AdditionalCode(moved)
<1>1. ShiftRight(m, k) = IF k = 0 \/ IsZero(m.arr) THEN m ELSE IF Parts(k) > L \/ back = Threw THEN Threw
                         ELSE BigInteger(back.sign, Trim(back.arr))
  BY DEF ShiftRight
<1>2. Parts(k) \in Nat /\ p \in Nat \ {0} /\ c \in Nat \ {0} /\ BASE = p * c
  BY PartsAndBits
<1>3. code \in Codes
  BY CodeHas, AdditionalCodeIs
<1> HIDE DEF code, p, c
<1>4. code.sign \in {0, 1} /\ a \in Digits
  BY <1>3, CodeHas
<1>5. L \in Nat \ {0} /\ a \in [1..L -> Digit] /\ DOMAIN a = 1..L
  BY <1>4, DigitsAre DEF Digits
<1>6. SignFill(code) \in Digit
  <2>1. 0 * Ones = 0 /\ 1 * Ones = Ones /\ Ones \in Digit /\ 0 \in Digit
    BY BigBase DEF Ones
  <2>2. QED
    BY <1>4, <2>1 DEF SignFill
<1> HIDE DEF a, L
<1>7. ASSUME NEW i \in 1..L
      PROVE  Part(i) \in Digit
  <2>1. a[i] \in Digit
    BY <1>5
  <2>2. Above(i) \in Digit
    <3>1. i # L => i + 1 \in 1..L
      BY <1>5
    <3>2. QED
      BY <1>5, <1>6, <3>1
  <2> HIDE DEF Above
  <2>3. PICK x \in 0..(BASE - 1), y \in 0..(BASE - 1) : x = a[i] /\ y = Above(i)
    BY <2>1, <2>2, BigBase
  <2>4. (x \div p) + (y % p) * c \in 0..(BASE - 1)
    BY <1>2, BigBase, MovedDigit
  <2>5. QED
    BY <2>3, <2>4, BigBase
<1> HIDE DEF Above, Part
<1>8. arr \in [1..L -> Digit]
  <2>1. ASSUME NEW i \in 1..L
        PROVE  (IF i + Parts(k) <= L THEN Part(i + Parts(k)) ELSE SignFill(code)) \in Digit
    <3>1. i + Parts(k) <= L => i + Parts(k) \in 1..L
      BY <1>2, <1>5
    <3>2. QED
      BY <1>6, <1>7, <3>1
  <2>2. QED
    BY <1>5, <2>1
<1> HIDE DEF arr
<1>9. arr \in Digits
  <2>1. arr \in Seq(Digit) /\ Len(arr) = L
    BY <1>5, <1>8, SequenceIs
  <2>2. Len(<<>>) = 0
    OBVIOUS
  <2>3. QED
    BY <1>5, <2>1, <2>2 DEF Digits
<1>10. moved \in Codes
  BY <1>4, <1>9, CodeHas
<1> HIDE DEF moved
<1>11. back # Threw => BigInteger(back.sign, Trim(back.arr)) \in BigIntegers
  BY <1>10, BackIs
<1> HIDE DEF back
<1>12. QED
  BY <1>1, <1>11 DEF Results

\* Any shift
LEMMA ShiftIs ==
    ASSUME NEW m \in BigIntegers, NEW k \in Int
    PROVE  Shift(m, k) \in Results
<1>1. CASE k < 0
  <2>1. -k \in Nat
    BY <1>1
  <2>2. ShiftRight(m, -k) \in Results
    BY <2>1, ShiftRightIs
  <2>3. QED
    BY <1>1, <2>2 DEF Shift
<1>2. CASE ~(k < 0)
  <2>1. k \in Nat
    BY <1>2
  <2>2. ShiftLeft(m, k) \in Results
    BY <2>1, ShiftLeftIs DEF Results
  <2>3. QED
    BY <1>2, <2>2 DEF Shift
<1>3. QED
  BY <1>1, <1>2

\* a *= a
LEMMA TimesItselfIs ==
    ASSUME NEW m \in BigIntegers
    PROVE  TimesItself(m) \in Results
BY TimesIs DEF TimesItself, Results

\* to_string: the quotients until zero, and the remainders backwards
LEMMA TextOfIs ==
    ASSUME NEW s \in Numeral, s # << 0 >>
    PROVE  \E n \in Nat \ {0} : \E left \in [0..n -> Numeral] :
             /\ TextOf(s) \in [1..n -> 0..(Radix - 1)]
             /\ left[0] = s /\ left[n] = <<0>> /\ left[n - 1] # <<0>>
             /\ \A i \in 1..n : Magnitude(left[i - 1]) = Radix * Magnitude(left[i]) + TextOf(s)[n + 1 - i]
<1> DEFINE K == DigitBits * Len(s)
           step == [i \in 1..K |-> [x \in Numeral |-> ShortDivide(x, Radix).quotient]]
           left == CHOOSE left : left = [k \in 0..(DigitBits * Len(s)) |->
                      IF k = 0 THEN s ELSE ShortDivide(left[k - 1], Radix).quotient]
           turns == Min({ k \in DOMAIN left : IsZero(left[k]) })
           text == TextOf(s)
<1>1. K \in Nat /\ Len(s) \in Nat \ {0} /\ s \in Digits /\ s \in Seq(Digit)
  <2>1. DigitBits \in Nat \ {0} /\ Len(s) \in Nat \ {0}
    BY BitsOfDigit, NumeralIsLarge
  <2>2. QED
    BY <2>1, NumeralIsLarge
<1>2. Radix \in Digit \ {0} /\ Radix \in Base
  BY BigBase
<1>3. ASSUME NEW x \in Numeral
      PROVE  /\ ShortDivide(x, Radix).quotient \in Numeral
             /\ ShortDivide(x, Radix).remainder \in 0..(Radix - 1)
             /\ Magnitude(x) = Radix * Magnitude(ShortDivide(x, Radix).quotient) + ShortDivide(x, Radix).remainder
  BY <1>2, NumeralIsLarge, ShortDivideIs
<1>4. /\ step \in [1..K -> [Numeral -> Numeral]]
      /\ \A i \in 1..K, x \in Numeral : step[i][x] = ShortDivide(x, Radix).quotient
  BY <1>3
<1> HIDE DEF step
<1>5. PICK f \in [0..K -> Numeral] : f[0] = s /\ \A i \in 1..K : f[i] = step[i][f[i - 1]]
  <2>1. Rising(K, Numeral, s, step) # {}
    BY <1>1, <1>4, RecursionUp
  <2>2. QED
    BY <2>1 DEF Rising
<1>6. text = [i \in 1..turns |-> ShortDivide(left[turns - i], Radix).remainder]
  BY DEF TextOf
<1> DEFINE h == [k \in 0..(DigitBits * Len(s)) |-> IF k = 0 THEN s ELSE ShortDivide(f[k - 1], Radix).quotient]
<1>7. turns = Min({ k \in DOMAIN left : IsZero(left[k]) })
  OBVIOUS
<1> HIDE DEF turns, text
<1>8. f = h
  <2>1. f = [k \in 0..K |-> f[k]]
    BY <1>5
  <2>2. h = [k \in 0..K |-> h[k]]
    OBVIOUS
  <2>3. \A k \in 0..K : f[k] = h[k]
    <3>1. ASSUME NEW k \in 0..K, k # 0
          PROVE  f[k] = ShortDivide(f[k - 1], Radix).quotient
      <4>1. k \in 1..K /\ k - 1 \in 0..K
        BY <1>1, <3>1
      <4>2. QED
        BY <1>4, <1>5, <4>1
    <3>2. QED
      BY <1>5, <3>1
  <2> HIDE DEF h, K
  <2>4. QED
    BY <2>1, <2>2, <2>3, Extensional
<1>9. left = [k \in 0..(DigitBits * Len(s)) |-> IF k = 0 THEN s ELSE ShortDivide(left[k - 1], Radix).quotient]
  BY <1>8
<1> HIDE DEF left, h
<1>10. /\ left = [k \in 0..K |-> left[k]] /\ left[0] = s /\ DOMAIN left = 0..K
       /\ \A k \in 1..K : left[k] = ShortDivide(left[k - 1], Radix).quotient
  <2>1. 0 \in 0..K /\ \A k \in 1..K : k \in 0..K /\ k # 0
    BY <1>1
  <2>2. left = [k \in 0..K |-> IF k = 0 THEN s ELSE ShortDivide(left[k - 1], Radix).quotient]
    BY <1>9
  <2> HIDE DEF K
  <2>3. QED
    BY <2>1, <2>2
<1>11. Magnitude(s) < Power(Radix, K)
  <2>1. Magnitude(s) \in Nat /\ Magnitude(s) < Power(BASE, Len(s))
    BY <1>1, DigitsAre
  <2>2. /\ Radix \in Nat \ {0} /\ 2 \in Nat \ {0} /\ 2 <= Radix
        /\ DigitBits \in Nat /\ Len(s) \in Nat
    BY <1>1, BitsOfDigit, BigBase, BigIntegerAssumption DEF Base
  <2>3. BASE <= Power(Radix, DigitBits) /\ BASE \in Nat \ {0}
    BY <2>2, BitsOfDigit, BigBase, PowerLargerBase
  <2>4. Power(Radix, DigitBits) \in Nat
    BY <2>2, PowerBase
  <2>5. Power(BASE, Len(s)) <= Power(Power(Radix, DigitBits), Len(s))
    BY <2>2, <2>3, <2>4, PowerLargerBase
  <2>6. Power(Power(Radix, DigitBits), Len(s)) = Power(Radix, K)
    BY <2>2, PowerOfPower
  <2>7. Power(BASE, Len(s)) \in Int /\ Power(Radix, K) \in Int
    <3>1. Radix \in Int /\ BASE \in Int
      BY <2>2, <2>3
    <3>2. QED
      BY <1>1, <2>2, <3>1, PowerInt
  <2> HIDE DEF K
  <2>8. QED
    BY <2>1, <2>5, <2>6, <2>7
<1> HIDE DEF K
<1>12. left \in [0..K -> Numeral]
  <2> DEFINE S == { k \in 0..K : left[k] \in Numeral }
  <2>1. 0 \in S /\ 0 \in Int /\ K \in Int /\ 0 <= K
    BY <1>1, <1>10
  <2>2. ASSUME NEW k \in Int, 0 <= k, k < K, k \in S
        PROVE  k + 1 \in S
    <3>1. k + 1 \in 1..K /\ k + 1 \in 0..K /\ k + 1 - 1 = k
      BY <1>1, <2>2
    <3>2. left[k + 1] = ShortDivide(left[k], Radix).quotient
      BY <1>10, <3>1
    <3>3. QED
      BY <1>3, <2>2, <3>1, <3>2
  <2>3. \A k \in Int : 0 <= k /\ k < K /\ k \in S => k + 1 \in S
    BY <2>2
  <2>4. 0..K \subseteq S
    <3> HIDE DEF S
    <3>1. QED
      BY <2>1, <2>3, Upwards
  <2>5. QED
    BY <1>10, <2>4
<1> DEFINE rest == [i \in 1..K |-> ShortDivide(left[i - 1], Radix).remainder]
           value == [i \in 0..K |-> Magnitude(left[i])]
<1>13. /\ rest \in [1..K -> 0..(Radix - 1)]
       /\ \A i \in 1..K : rest[i] = ShortDivide(left[i - 1], Radix).remainder
  <2>1. ASSUME NEW i \in 1..K
        PROVE  ShortDivide(left[i - 1], Radix).remainder \in 0..(Radix - 1)
    <3>1. i - 1 \in 0..K
      BY <1>1
    <3>2. QED
      BY <1>3, <1>12, <3>1
  <2>2. QED
    BY <2>1
<1>14. value \in [0..K -> Nat] /\ \A i \in 0..K : value[i] = Magnitude(left[i])
  <2>1. \A x \in Numeral : Magnitude(x) \in Nat
    BY NumeralIsLarge, DigitsAre
  <2>2. QED
    BY <1>12, <2>1
<1> HIDE DEF rest, value
<1>15. ASSUME NEW i \in 1..K
       PROVE  Magnitude(left[i - 1]) = Radix * Magnitude(left[i]) + rest[i]
  <2>1. i - 1 \in 0..K /\ i \in 0..K
    BY <1>1
  <2>2. left[i - 1] \in Numeral
    BY <1>12, <2>1
  <2>3. Magnitude(left[i - 1]) = Radix * Magnitude(ShortDivide(left[i - 1], Radix).quotient) + ShortDivide(left[i - 1], Radix).remainder
    BY <1>3, <2>2
  <2>4. QED
    BY <1>10, <1>13, <2>3
<1>16. AreRemainders(Radix, value, rest, K)
  <2>1. \A i \in 1..K : i - 1 \in 0..K /\ i \in 0..K
    BY <1>1
  <2>2. QED
    BY <1>14, <1>15, <2>1 DEF AreRemainders
<1>17. K \in 0..K /\ left[K] = <<0>>
  <2>1. 0 \in 0..K /\ K \in 0..K
    BY <1>1
  <2>2. value[0] < Power(Radix, K)
    BY <1>10, <1>11, <1>14, <2>1
  <2>3. value[K] = 0
    BY <1>1, <1>2, <1>13, <1>14, <1>16, <2>2, RunsOut
  <2>4. left[K] \in Numeral /\ Magnitude(left[K]) = 0
    BY <1>12, <1>14, <2>1, <2>3
  <2>5. QED
    BY <2>1, <2>4, NumeralIsLarge
<1> DEFINE T == { k \in DOMAIN left : IsZero(left[k]) }
<1>18. turns \in T /\ \A k \in T : turns <= k
  <2>1. T \in SUBSET Nat
    BY <1>1, <1>10
  <2>2. K \in T
    BY <1>10, <1>17 DEF IsZero
  <2> HIDE DEF T
  <2>3. Min(T) \in T /\ \A k \in T : Min(T) <= k
    BY <2>1, <2>2, MinIs
  <2>4. QED
    BY <1>7, <2>3 DEF T
<1>19. turns \in 0..K /\ left[turns] = <<0>>
  BY <1>10, <1>18 DEF IsZero
<1>20. turns \in Nat \ {0} /\ turns \in 1..K
  BY <1>1, <1>10, <1>19
<1>21. left[turns - 1] # <<0>>
  <2>1. SUFFICES ASSUME left[turns - 1] = << 0 >> PROVE FALSE
    OBVIOUS
  <2>2. turns - 1 \in 0..K /\ ~(turns <= turns - 1)
    BY <1>1, <1>20
  <2>3. turns - 1 \in T
    BY <1>10, <2>1, <2>2 DEF IsZero
  <2>4. QED
    BY <1>18, <2>2, <2>3
<1> HIDE DEF T
<1> DEFINE before == [k \in 0..turns |-> left[k]]
<1>22. /\ before \in [0..turns -> Numeral] /\ before[0] = s /\ before[turns] = left[turns]
       /\ before[turns - 1] = left[turns - 1]
       /\ \A i \in 1..turns : before[i] = left[i] /\ before[i - 1] = left[i - 1] /\ i \in 1..K
  <2>1. /\ \A k \in 0..turns : k \in 0..K
        /\ \A i \in 1..turns : i \in 0..turns /\ i - 1 \in 0..turns /\ i \in 1..K
        /\ 0 \in 0..turns /\ turns \in 0..turns /\ turns - 1 \in 0..turns
    BY <1>1, <1>20
  <2>2. QED
    BY <1>10, <1>12, <2>1
<1> HIDE DEF before
<1>23. ASSUME NEW i \in 1..turns
       PROVE  text[turns + 1 - i] = rest[i] /\ text[i] = rest[turns + 1 - i]
  <2>1. /\ turns + 1 - i \in 1..turns /\ turns - (turns + 1 - i) = i - 1 /\ i \in 1..K
        /\ turns + 1 - i \in 1..K
    BY <1>1, <1>20
  <2>2. text[turns + 1 - i] = ShortDivide(left[i - 1], Radix).remainder
    <3>1. text[turns + 1 - i] = ShortDivide(left[turns - (turns + 1 - i)], Radix).remainder
      BY <1>6, <2>1
    <3>2. QED
      BY <2>1, <3>1
  <2>3. rest[i] = ShortDivide(left[i - 1], Radix).remainder
    BY <1>13, <2>1
  <2>4. rest[turns + 1 - i] = text[i]
    <3>1. PICK j \in 1..K : j = turns + 1 - i
      BY <2>1
    <3>2. rest[j] = ShortDivide(left[j - 1], Radix).remainder
      BY <1>13
    <3>3. turns - i = j - 1
      BY <1>20, <3>1
    <3>4. text[i] = ShortDivide(left[j - 1], Radix).remainder
      BY <1>6, <3>3
    <3>5. QED
      BY <3>1, <3>2, <3>4
  <2>5. QED
    BY <2>2, <2>3, <2>4
<1>24. text \in [1..turns -> 0..(Radix - 1)]
  <2>1. \A i \in 1..turns : turns + 1 - i \in 1..K
    BY <1>1, <1>20
  <2>2. \A i \in 1..turns : text[i] \in 0..(Radix - 1)
    BY <1>13, <1>23, <2>1
  <2>3. text = [i \in 1..turns |-> text[i]]
    BY <1>6
  <2>4. QED
    BY <2>2, <2>3
<1>25. \A i \in 1..turns : Magnitude(before[i - 1]) = Radix * Magnitude(before[i]) + text[turns + 1 - i]
  BY <1>15, <1>22, <1>23
<1>26. /\ turns \in Nat \ {0} /\ before \in [0..turns -> Numeral]
       /\ text \in [1..turns -> 0..(Radix - 1)]
       /\ before[0] = s /\ before[turns] = <<0>> /\ before[turns - 1] # <<0>>
  BY <1>19, <1>20, <1>21, <1>22, <1>24
<1>27. QED
  BY <1>25, <1>26 DEF text

\* w has the values of what is read of s, character by character
ReadsAs(s, n, w) ==
    /\ s.minus \in BOOLEAN /\ s.text \in [1..n -> 0..(Radix - 1)]
    /\ w[0] = 0 /\ \A i \in 1..n : w[i] = Radix * w[i - 1] + s.text[i]

\* big_integer(std::string): digits of a number are read as the number
LEMMA FromStringIs ==
    ASSUME NEW n \in Nat, NEW w \in [0..n -> Nat], NEW s, ReadsAs(s, n, w)
    PROVE  \E a \in Numeral : /\ Magnitude(a) = w[n]
                              /\ FromString(s) = BigInteger(IF s.minus THEN 1 ELSE 0, a)
<1> DEFINE text == s.text
           step == [i \in 1..n |-> [x \in Numeral |-> AddLongShort(MulLongShort(x, Radix), text[i])]]
           arr == CHOOSE arr : arr = [k \in 0..Len(s.text) |->
                      IF k = 0 THEN <<0>> ELSE AddLongShort(MulLongShort(arr[k - 1], Radix), s.text[k])]
<1>0. /\ text \in [1..n -> 0..(Radix - 1)] /\ w[0] = 0
      /\ \A i \in 1..n : w[i] = Radix * w[i - 1] + text[i]
  BY DEF ReadsAs
<1>1. Len(text) = n /\ Radix \in Digit /\ Radix \in Nat \ {0} /\ <<0>> \in Numeral /\ Magnitude(<<0>>) = 0
  <2>1. Len(text) = n
    BY <1>0, SequenceIs
  <2>2. QED
    BY <2>1, BigBase, OneDigit DEF Base
<1>2. \A i \in 1..n : text[i] \in Digit /\ text[i] \in Nat
  <2>1. \A d \in 0..(Radix - 1) : d \in Digit /\ d \in Nat
    BY <1>1, BigBase
  <2>2. \A i \in 1..n : text[i] \in 0..(Radix - 1)
    BY <1>0
  <2>3. QED
    BY <2>1, <2>2
<1>3. ASSUME NEW x \in Numeral, NEW d \in Digit
      PROVE  /\ AddLongShort(MulLongShort(x, Radix), d) \in Numeral
             /\ Magnitude(AddLongShort(MulLongShort(x, Radix), d)) = Magnitude(x) * Radix + d
  <2>1. MulLongShort(x, Radix) \in Numeral /\ Magnitude(MulLongShort(x, Radix)) = Magnitude(x) * Radix
    BY <1>1, NumeralIsLarge, MulLongShortIs
  <2>2. QED
    BY <2>1, AddLongShortIs
<1> HIDE DEF text
<1>4. /\ step \in [1..n -> [Numeral -> Numeral]]
      /\ \A i \in 1..n, x \in Numeral : step[i][x] = AddLongShort(MulLongShort(x, Radix), text[i])
  BY <1>2, <1>3
<1> HIDE DEF step
<1>5. PICK f \in [0..n -> Numeral] : f[0] = <<0>> /\ \A i \in 1..n : f[i] = step[i][f[i - 1]]
  <2>1. Rising(n, Numeral, <<0>>, step) # {}
    BY <1>1, <1>4, RecursionUp
  <2>2. QED
    BY <2>1 DEF Rising
<1>6. /\ \A i \in 1..n : i \in 0..n /\ i - 1 \in 0..n /\ i # 0
      /\ \A i \in 0..n : i # 0 => i \in 1..n
      /\ 0 \in 0..n /\ n \in 0..n
  OBVIOUS
<1>7. \A i \in 1..n : f[i] = AddLongShort(MulLongShort(f[i - 1], Radix), text[i])
  BY <1>4, <1>5, <1>6
<1> DEFINE h == [k \in 0..Len(s.text) |->
                   IF k = 0 THEN <<0>> ELSE AddLongShort(MulLongShort(f[k - 1], Radix), s.text[k])]
<1>8. f = h
  <2>1. f = [k \in 0..n |-> f[k]]
    BY <1>5
  <2>2. h = [k \in 0..n |-> h[k]] /\ \A k \in 0..n : f[k] = h[k]
    BY <1>1, <1>5, <1>6, <1>7 DEF text
  <2> HIDE DEF h
  <2>3. QED
    BY <2>1, <2>2, Extensional
<1>9. arr = [k \in 0..Len(s.text) |->
               IF k = 0 THEN <<0>> ELSE AddLongShort(MulLongShort(arr[k - 1], Radix), s.text[k])]
  BY <1>8
<1>10. FromString(s) = BigInteger(IF s.minus THEN 1 ELSE 0, arr[n])
  BY <1>1 DEF FromString, text
<1> HIDE DEF arr, h
<1>11. arr[0] = <<0>> /\ \A k \in 1..n : arr[k] = AddLongShort(MulLongShort(arr[k - 1], Radix), text[k])
  BY <1>1, <1>6, <1>9 DEF text
<1> DEFINE S == { k \in 0..n : arr[k] \in Numeral /\ Magnitude(arr[k]) = w[k] }
<1>12. 0 \in S /\ 0 \in Int /\ n \in Int /\ 0 <= n
  <2>1. arr[0] \in Numeral /\ Magnitude(arr[0]) = w[0]
    BY <1>0, <1>1, <1>11
  <2>2. QED
    BY <1>6, <2>1
<1>13. ASSUME NEW k \in Int, 0 <= k, k < n, k \in S
       PROVE  k + 1 \in S
  <2>1. k + 1 \in 1..n /\ k + 1 \in 0..n /\ k \in 0..n /\ k + 1 - 1 = k
    BY <1>13
  <2>2. arr[k + 1] = AddLongShort(MulLongShort(arr[k], Radix), text[k + 1])
    BY <1>11, <2>1
  <2>3. w[k + 1] = Radix * w[k] + text[k + 1]
    BY <1>0, <2>1
  <2>4. PICK x \in Nat, d \in Digit : x = w[k] /\ d = text[k + 1] /\ w[k + 1] = Radix * x + d
    BY <1>2, <2>1, <2>3
  <2>5. arr[k + 1] \in Numeral /\ Magnitude(arr[k + 1]) = x * Radix + d
    BY <1>3, <1>13, <2>2, <2>4
  <2>6. x * Radix = Radix * x
    BY <1>1
  <2>7. QED
    BY <2>1, <2>4, <2>5, <2>6
<1>14. \A k \in Int : 0 <= k /\ k < n /\ k \in S => k + 1 \in S
  BY <1>13
<1>15. 0..n \subseteq S
  <2> HIDE DEF S
  <2>1. QED
    BY <1>12, <1>14, Upwards
<1>16. arr[n] \in Numeral /\ Magnitude(arr[n]) = w[n]
  BY <1>6, <1>15
<1>17. QED
  BY <1>10, <1>16

\* What is written is read as the number it was
LEMMA TextIsReadBack ==
    ASSUME NEW m \in BigIntegers
    PROVE  /\ FromString(TextWritten(m)) \in BigIntegers
           /\ FromString(TextWritten(m)) = IF IsZero(m.arr) THEN BigInteger(0, <<0>>) ELSE m
           /\ TextWritten(m).text[1] = 0 => TextWritten(m).text = <<0>>
<1> DEFINE t == TextWritten(m)
<1>1. m.sign \in {0, 1} /\ m.arr \in Numeral /\ m = BigInteger(m.sign, m.arr)
  BY NumberHas
<1>2. CASE IsZero(m.arr)
  <2>1. t = [minus |-> FALSE, text |-> <<0>>]
    BY <1>2 DEF TextWritten
  <2>2. t.minus = FALSE /\ t.text = <<0>>
    BY <2>1
  <2> DEFINE w == [i \in 0..1 |-> 0]
  <2>3. w \in [0..1 -> Nat] /\ w[0] = 0 /\ w[1] = 0
    OBVIOUS
  <2>4. t.text \in [1..1 -> 0..(Radix - 1)] /\ t.text[1] = 0
    <3>1. 0 \in 0..(Radix - 1) /\ Radix \in Nat
      BY BigBase DEF Base
    <3>2. <<0>> \in [1..1 -> 0..(Radix - 1)] /\ <<0>>[1] = 0
      BY <3>1
    <3>3. QED
      BY <2>2, <3>2
  <2>5. \A i \in 1..1 : w[i] = Radix * w[i - 1] + t.text[i]
    <3>1. \A i \in 1..1 : i = 1 /\ i - 1 = 0
      OBVIOUS
    <3>2. Radix * 0 = 0 /\ 0 + 0 = 0
      BY BigBase DEF Base
    <3> HIDE DEF w
    <3>3. w[1] = Radix * w[0] + t.text[1]
      BY <2>3, <2>4, <3>2
    <3>4. QED
      BY <3>1, <3>3
  <2> HIDE DEF w
  <2>6. t.minus \in BOOLEAN /\ 1 \in Nat
    BY <2>2
  <2> HIDE DEF t
  <2>7. PICK a \in Numeral : Magnitude(a) = w[1] /\ FromString(t) = BigInteger(IF t.minus THEN 1 ELSE 0, a)
    <3>1. ReadsAs(t, 1, w)
      BY <2>3, <2>4, <2>5, <2>6 DEF ReadsAs
    <3>2. QED
      BY <2>3, <2>6, <3>1, FromStringIs
  <2>8. a = <<0>>
    BY <2>3, <2>7, NumeralIsLarge
  <2>9. FromString(t) = BigInteger(0, <<0>>)
    BY <2>2, <2>7, <2>8
  <2>10. BigInteger(0, <<0>>) \in BigIntegers
    BY <2>7, <2>8, NumberIs
  <2>11. QED
    BY <1>2, <2>2, <2>9, <2>10 DEF t
<1>3. CASE ~IsZero(m.arr)
  <2>1. t = [minus |-> m.sign = 1, text |-> TextOf(m.arr)]
    BY <1>3 DEF TextWritten
  <2>2. t.minus = (m.sign = 1) /\ t.text = TextOf(m.arr)
    BY <2>1
  <2> HIDE DEF t
  <2>3. m.arr # <<0>>
    BY <1>3 DEF IsZero
  <2>4. PICK n \in Nat \ {0} : \E left \in [0..n -> Numeral] :
             /\ TextOf(m.arr) \in [1..n -> 0..(Radix - 1)]
             /\ left[0] = m.arr /\ left[n] = <<0>> /\ left[n - 1] # <<0>>
             /\ \A i \in 1..n : Magnitude(left[i - 1]) = Radix * Magnitude(left[i]) + TextOf(m.arr)[n + 1 - i]
    BY <1>1, <2>3, TextOfIs
  <2>5. PICK left \in [0..n -> Numeral] :
             /\ TextOf(m.arr) \in [1..n -> 0..(Radix - 1)]
             /\ left[0] = m.arr /\ left[n] = <<0>> /\ left[n - 1] # <<0>>
             /\ \A i \in 1..n : Magnitude(left[i - 1]) = Radix * Magnitude(left[i]) + TextOf(m.arr)[n + 1 - i]
    BY <2>4
  <2> DEFINE w == [i \in 0..n |-> Magnitude(left[n - i])]
  <2>6. \A i \in 0..n : n - i \in 0..n
    OBVIOUS
  <2>7. \A x \in Numeral : Magnitude(x) \in Nat
    BY NumeralIsLarge, DigitsAre
  <2>8. w \in [0..n -> Nat] /\ \A i \in 0..n : w[i] = Magnitude(left[n - i])
    BY <2>6, <2>7
  <2> HIDE DEF w
  <2>9. w[0] = 0 /\ w[n] = Magnitude(m.arr)
    <3>1. 0 \in 0..n /\ n \in 0..n /\ n - 0 = n /\ n - n = 0
      OBVIOUS
    <3>2. Magnitude(<<0>>) = 0
      BY BigBase, OneDigit
    <3>3. QED
      BY <2>5, <2>8, <3>1, <3>2
  <2>10. ASSUME NEW i \in 1..n
         PROVE  w[i] = Radix * w[i - 1] + t.text[i]
    <3>1. PICK j \in 1..n : j = n - i + 1
      OBVIOUS
    <3>2. n - i = j - 1 /\ n - (i - 1) = j /\ n + 1 - j = i /\ i \in 0..n /\ i - 1 \in 0..n
      BY <3>1
    <3>3. Magnitude(left[j - 1]) = Radix * Magnitude(left[j]) + TextOf(m.arr)[n + 1 - j]
      BY <2>5
    <3>4. w[i] = Magnitude(left[j - 1]) /\ w[i - 1] = Magnitude(left[j])
      BY <2>8, <3>2
    <3>5. QED
      BY <2>2, <3>2, <3>3, <3>4
  <2>11. t.minus \in BOOLEAN /\ t.text \in [1..n -> 0..(Radix - 1)] /\ n \in Nat
    BY <2>2, <2>5
  <2>12. \A i \in 1..n : w[i] = Radix * w[i - 1] + t.text[i]
    BY <2>10
  <2>13. PICK a \in Numeral : Magnitude(a) = w[n] /\ FromString(t) = BigInteger(IF t.minus THEN 1 ELSE 0, a)
    <3>1. ReadsAs(t, n, w)
      BY <2>9, <2>11, <2>12 DEF ReadsAs
    <3>2. QED
      BY <2>8, <2>11, <3>1, FromStringIs
  <2>14. a = m.arr
    <3>1. Magnitude(a) = Magnitude(m.arr)
      BY <2>9, <2>13
    <3>2. QED
      BY <1>1, <3>1, CompareByAbsIs
  <2>15. FromString(t) = m
    BY <1>1, <2>2, <2>13, <2>14
  <2>16. t.text[1] # 0
    <3>1. n \in 1..n /\ n + 1 - n = 1 /\ n - 1 \in 0..n
      OBVIOUS
    <3>2. Magnitude(left[n - 1]) = Radix * Magnitude(left[n]) + TextOf(m.arr)[n + 1 - n]
      BY <2>5, <3>1
    <3>3. Magnitude(left[n - 1]) # 0 /\ Magnitude(left[n]) = 0
      <4>1. left[n - 1] \in Numeral /\ left[n - 1] # <<0>>
        BY <2>5, <3>1
      <4>2. Magnitude(<<0>>) = 0
        BY BigBase, OneDigit
      <4>3. QED
        BY <2>5, <4>1, <4>2, NumeralIsLarge
    <3>4. PICK x \in Int : x = t.text[1] /\ x = TextOf(m.arr)[n + 1 - n]
      <4>1. t.text[1] \in 0..(Radix - 1) /\ Radix \in Int
        <5>1. 1 \in 1..n
          OBVIOUS
        <5>2. QED
          BY <2>11, <5>1, BigBase DEF Base
      <4>2. QED
        BY <2>2, <3>1, <4>1
    <3>5. Radix * 0 = 0 /\ 0 + x = x
      BY BigBase DEF Base
    <3>6. QED
      BY <3>2, <3>3, <3>4, <3>5
  <2>17. QED
    BY <1>3, <2>15, <2>16 DEF t
<1>4. QED
  BY <1>2, <1>3

-----------------------------------------------------------------------------
(* big_integer: any program.                                               *)

\* Every variable has a number without leading zeros, until an exception
BigInv == big \in [Variable -> Results]

\* Whatever two variables have, the operations leave numbers or exceptions
LEMMA BinaryLeaves ==
    ASSUME NEW m \in BigIntegers, NEW n \in BigIntegers
    PROVE  Binary(m, n) \cup {n} \subseteq Results
<1>1. Plus(m, n) \in Results /\ Minus(m, n) \in Results /\ Times(m, n) \in Results /\ n \in Results
  BY PlusIs, MinusIs, TimesIs DEF Results
<1>2. Divide(m, n) \in Results /\ Remainder(m, n) \in Results
  BY DivideIs, RemainderIs
<1>3. /\ BinaryOperation(AndFunc, m, n) \in Results
      /\ BinaryOperation(OrFunc, m, n) \in Results
      /\ BinaryOperation(XorFunc, m, n) \in Results
  BY BitFunctionsAre, BinaryOperationIs
<1>4. QED
  BY <1>1, <1>2, <1>3 DEF Binary

\* And those with one operand, and the numbers made of an int32_t
LEMMA UnaryLeaves ==
    ASSUME NEW m \in BigIntegers
    PROVE  Unary(m) \cup {FromInt(i) : i \in Int32} \subseteq Results
<1>1. /\ Inc(m) \in Results /\ Dec(m) \in Results /\ Complement(m) \in Results /\ Neg(m) \in Results
      /\ Minus(m, m) \in Results
  BY StepsAre, NegIs, MinusIs DEF Results
<1>2. TimesItself(m) \in Results
  BY TimesItselfIs
<1>3. FromString(TextWritten(m)) \in Results
  BY TextIsReadBack DEF Results
<1>4. \A k \in -MaxShift..MaxShift : Shift(m, k) \in Results
  <2>1. \A k \in -MaxShift..MaxShift : k \in Int
    BY BigIntegerAssumption
  <2>2. QED
    BY <2>1, ShiftIs
<1>5. \A i \in Int32 : FromInt(i) \in Results
  BY FromIntIs DEF Results
<1>6. QED
  BY <1>1, <1>2, <1>3, <1>4, <1>5 DEF Unary

\* Every step keeps it
LEMMA BigInvIs == BigSpec => []BigInv
<1>1. BigInit => BigInv
  <2>1. <<0>> \in Numeral /\ 0 \in {0, 1}
    BY BigBase, OneDigit
  <2>2. BigInteger(0, <<0>>) \in Results
    BY <2>1, NumberIs DEF Results
  <2>3. QED
    BY <2>2 DEF BigInit, BigInv
<1>2. BigInv /\ [BigNext]_big => BigInv'
  <2>1. SUFFICES ASSUME BigInv, BigNext PROVE BigInv'
    BY DEF BigInv
  <2>2. \A v \in Variable : big[v] \in BigIntegers
    BY <2>1 DEF BigInv, BigNext, Results
  <2>3. ASSUME NEW v \in Variable, NEW m \in Results, Store(v, m)
        PROVE  BigInv'
    BY <2>1, <2>3 DEF BigInv, Store
  <2>4. PICK v \in Variable :
           \/ \E w \in Variable : \E m \in Binary(big[v], big[w]) \cup {big[w]} : Store(v, m)
           \/ \E m \in Unary(big[v]) \cup {FromInt(i) : i \in Int32} : Store(v, m)
    BY <2>1 DEF BigNext
  <2>5. CASE \E w \in Variable : \E m \in Binary(big[v], big[w]) \cup {big[w]} : Store(v, m)
    <3>1. PICK w \in Variable : \E m \in Binary(big[v], big[w]) \cup {big[w]} : Store(v, m)
      BY <2>5
    <3>2. PICK m \in Binary(big[v], big[w]) \cup {big[w]} : Store(v, m)
      BY <3>1
    <3>3. m \in Results
      BY <2>2, BinaryLeaves
    <3>4. QED
      BY <2>3, <3>2, <3>3
  <2>6. CASE \E m \in Unary(big[v]) \cup {FromInt(i) : i \in Int32} : Store(v, m)
    <3>1. PICK m \in Unary(big[v]) \cup {FromInt(i) : i \in Int32} : Store(v, m)
      BY <2>6
    <3>2. m \in Results
      BY <2>2, UnaryLeaves
    <3>3. QED
      BY <2>3, <3>1, <3>2
  <2>7. QED
    BY <2>4, <2>5, <2>6
<1>3. QED
  BY <1>1, <1>2, PTL DEF BigSpec

\* The variables of a program that runs
LEMMA RunningValues ==
    ASSUME BigInv
    PROVE  /\ \A v \in Variable : big[v] # Threw => big[v] \in BigIntegers
           /\ Running => \A v \in Variable : big[v] \in BigIntegers
           /\ \A p \in Pairs : p[1] \in BigIntegers /\ p[2] \in BigIntegers
<1>1. \A v \in Variable : big[v] # Threw => big[v] \in BigIntegers
  BY DEF BigInv, Results
<1>2. Running => \A v \in Variable : big[v] \in BigIntegers
  BY <1>1 DEF Running
<1>3. \A p \in Pairs : p[1] \in BigIntegers /\ p[2] \in BigIntegers
  BY <1>2 DEF Pairs
<1>4. QED
  BY <1>1, <1>2, <1>3

\* The properties of the numbers of a program
LEMMA TypeFollows == BigInv => BigTypeOK
<1> SUFFICES ASSUME BigInv PROVE BigTypeOK
  OBVIOUS
<1>1. ASSUME NEW v \in Variable, big[v] # Threw
      PROVE  /\ big[v].sign \in {0, 1}
             /\ big[v].arr \in Seq(Digit) \ {<<>>}
             /\ big[v].arr[Len(big[v].arr)] = 0 => big[v].arr = <<0>>
  <2>1. big[v] \in BigIntegers
    BY <1>1, RunningValues
  <2>2. big[v].sign \in {0, 1} /\ big[v].arr \in Numeral
    BY <2>1, NumberHas
  <2>3. QED
    BY <2>2 DEF Numeral, Digits
<1>2. QED
  BY <1>1 DEF BigTypeOK

\* Sums, differences and products of the programs' numbers are the integers'
LEMMA ArithmeticFollows == BigInv => ArithmeticExact
<1> SUFFICES ASSUME BigInv, NEW p \in Pairs
             PROVE  /\ Value(Plus(p[1], p[2])) = Value(p[1]) + Value(p[2])
                    /\ Value(Minus(p[1], p[2])) = Value(p[1]) - Value(p[2])
                    /\ Value(Times(p[1], p[2])) = Value(p[1]) * Value(p[2])
                    /\ Value(Complement(p[1])) = -Value(p[1]) - 1
  BY DEF ArithmeticExact
<1>1. p[1] \in BigIntegers /\ p[2] \in BigIntegers
  BY RunningValues
<1>2. QED
  BY <1>1, PlusIs, MinusIs, TimesIs, StepsAre

\* Quotients and remainders are the integers', and a zero divisor throws
LEMMA DivisionFollows == BigInv => DivisionExact
<1> SUFFICES ASSUME BigInv, NEW p \in Pairs, Value(p[2]) # 0
             PROVE  LET q == Sgn(Value(p[1])) * Sgn(Value(p[2])) * (Abs(Value(p[1])) \div Abs(Value(p[2])))
                    IN  /\ Value(Divide(p[1], p[2])) = q
                        /\ Value(Remainder(p[1], p[2])) = Value(p[1]) - q * Value(p[2])
  BY DEF DivisionExact
<1>1. p[1] \in BigIntegers /\ p[2] \in BigIntegers
  BY RunningValues
<1>2. /\ Value(Divide(p[1], p[2])) = Sgn(Value(p[1])) * Sgn(Value(p[2])) * (Abs(Value(p[1])) \div Abs(Value(p[2])))
      /\ Value(Remainder(p[1], p[2])) = Value(p[1]) - Value(Divide(p[1], p[2])) * Value(p[2])
  BY <1>1, DivideIs, RemainderIs
<1>3. QED
  BY <1>2, Zenon

\* Comparisons are the integers'
LEMMA OrderFollows == BigInv => OrderExact
<1> SUFFICES ASSUME BigInv, NEW p \in Pairs
             PROVE  Sgn(Compare(p[1], p[2])) = Sgn(Value(p[1]) - Value(p[2]))
  BY DEF OrderExact
<1>1. p[1] \in BigIntegers /\ p[2] \in BigIntegers
  BY RunningValues
<1>2. QED
  BY <1>1, CompareIs

\* to_string and the constructor from a string undo each other
LEMMA TextFollows == BigInv => TextRoundTrip
<1> SUFFICES ASSUME BigInv, Running, NEW v \in Variable
             PROVE  LET s == TextWritten(big[v])
                    IN  /\ FromString(s) = IF IsZero(big[v].arr) THEN BigInteger(0, <<0>>) ELSE big[v]
                        /\ s.text[1] = 0 => s.text = <<0>>
  BY DEF TextRoundTrip
<1>1. big[v] \in BigIntegers
  BY RunningValues
<1>2. QED
  BY <1>1, TextIsReadBack

\* arr has a digit at least and no leading zero, after any program (big_integer.cpp:10-11)
THEOREM BigIntegersAreTyped == BigSpec => []BigTypeOK
<1>1. QED
  BY BigInvIs, TypeFollows, PTL

\* After any program of any length, on numbers of any size: +, -, *, /, %, ~ and the
\* comparisons are those of the integers, and text is read back as the number that was
\* written (big_integer.cpp:116-763)
THEOREM BigIntegersAreExact == BigSpec => []BigIntegerExact
<1>1. BigInv => BigIntegerExact
  BY TypeFollows, ArithmeticFollows, DivisionFollows, OrderFollows, TextFollows DEF BigIntegerExact
<1>2. QED
  BY <1>1, BigInvIs, PTL

\* The digits of a number in qwords
LEMMA QwordsAre ==
    ASSUME NEW m \in BigIntegers
    PROVE  Qwords(m) \in LongNumber
<1>1. m.arr \in Seq(Digit) /\ Len(m.arr) \in Nat /\ m.arr \in [1..Len(m.arr) -> Digit]
  BY NumberHas, NumeralIsLarge, DigitsAre
<1>2. \A d \in Digit : d \in Limb
  <2>1. BASE \in Int /\ LimbBase \in Int /\ BASE <= LimbBase
    BY BigBase, LongBase, ArithmeticAssumption DEF Base
  <2>2. QED
    BY <2>1, BigBase, LongBase DEF Limb
<1>3. 0 \in Digit /\ Limbs \in Nat
  BY BigBase, LongBase
<1>4. \A i \in 1..Limbs : At(m.arr, i) \in Digit
  BY <1>1, <1>3 DEF At
<1>5. \A i \in 1..Limbs : At(m.arr, i) \in Limb
  BY <1>2, <1>4
<1>6. QED
  BY <1>5 DEF Qwords, LongNumber

\* The digits of a program's numbers are long numbers, and its values operands of checked<T>
LEMMA FixedWidthFollows == BigInv => FixedWidthExact
<1> SUFFICES ASSUME BigInv PROVE FixedWidthExact
  OBVIOUS
<1>1. CheckedExact
  BY CheckedNoSilentOverflow, CheckedThrowsExactly DEF CheckedExact
<1>2. ASSUME NEW p \in Pairs
      PROVE  LongExact(Qwords(p[1]), Qwords(p[2]))
  <2>1. p[1] \in BigIntegers /\ p[2] \in BigIntegers
    BY RunningValues
  <2>2. Qwords(p[1]) \in LongNumber /\ Qwords(p[2]) \in LongNumber
    BY <2>1, QwordsAre
  <2>3. QED
    BY <2>2, LongNumbersAreExact
<1>3. ASSUME Running, NEW v \in Variable
      PROVE  LongRoundTrip(Qwords(big[v]))
  <2>1. big[v] \in BigIntegers
    BY <1>3, RunningValues
  <2>2. QED
    BY <2>1, QwordsAre, LongTextIsReadBack
<1>4. QED
  BY <1>1, <1>2, <1>3 DEF LongProgramsExact, FixedWidthExact

\* Whatever a program with big_integers comes by: for its values checked<T> returns the
\* right integer or throws, and throws when the result does not fit, for signed sums with
\* a positive right operand and for signed products that are the least value; for its
\* digits the assembler's programs give what LongExact says, and text that is read back
\* (checked.cpp:89-203, pure_asm)
THEOREM FixedWidthIsExact == BigSpec => []FixedWidthExact
<1>1. QED
  BY BigInvIs, FixedWidthFollows, PTL
=============================================================================
