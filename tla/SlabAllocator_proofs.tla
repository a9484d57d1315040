-------------------------- MODULE SlabAllocator_proofs -------------------------
(***************************************************************************)
(* The slab allocator, for slabs, cells, requests and elements of any size *)
(* and any number of slabs: no two users share a byte, the lists of slabs  *)
(* are exact, and what the allocator reports and returns is what it has.   *)
(***************************************************************************)
EXTENDS SlabAllocator, FiniteSetTheorems, WellFoundedInduction, TLAPS

-----------------------------------------------------------------------------
(* Arithmetic.                                                             *)

\* A power of two counts the subsets of a set
LEMMA PowerCounts ==
    ASSUME NEW i \in Int, NEW n \in Nat
    PROVE  /\ IsFiniteSet(SUBSET ((i + 1)..(i + n)))
           /\ Cardinality(SUBSET ((i + 1)..(i + n))) = 2^n
           /\ 2^n \in Nat \ {0}
<1> DEFINE S == (i + 1)..(i + n)
<1>1. IsFiniteSet(S) /\ Cardinality(S) = n
  <2>1. IsFiniteSet(S) /\ Cardinality(S) = IF i + 1 > i + n THEN 0 ELSE i + n - (i + 1) + 1
    BY FS_Interval
  <2>2. QED
    BY <2>1
<1>2. IsFiniteSet(SUBSET S) /\ Cardinality(SUBSET S) = 2^n
  BY <1>1, FS_SUBSET
<1>3. SUBSET S # {}
  OBVIOUS
<1>4. 2^n \in Nat \ {0}
  BY <1>2, <1>3, FS_CardinalityType, FS_EmptySet
<1>5. QED
  BY <1>2, <1>4

\* It is a natural number other than zero
LEMMA PowerNat ==
    ASSUME NEW n \in Nat
    PROVE  2^n \in Nat \ {0}
<1>1. 0 \in Int
  OBVIOUS
<1>2. QED
  BY <1>1, PowerCounts

\* A subset of 1..(i + n) is one of 1..i and one of the rest
LEMMA PowerSum ==
    ASSUME NEW i \in Nat, NEW n \in Nat
    PROVE  2^(i + n) = 2^i * 2^n
<1> DEFINE A == 1..i
           B == (i + 1)..(i + n)
           C == 1..(i + n)
           f == [T \in SUBSET C |-> <<T \cap A, T \cap B>>]
<1>1. /\ IsFiniteSet(SUBSET A) /\ Cardinality(SUBSET A) = 2^i
      /\ IsFiniteSet(SUBSET B) /\ Cardinality(SUBSET B) = 2^n
      /\ IsFiniteSet(SUBSET C) /\ Cardinality(SUBSET C) = 2^(i + n)
  <2>1. A = (0 + 1)..(0 + i) /\ C = (0 + 1)..(0 + (i + n)) /\ i + n \in Nat /\ i \in Int /\ 0 \in Int
    OBVIOUS
  <2> HIDE DEF A, B, C
  <2>2. IsFiniteSet(SUBSET A) /\ Cardinality(SUBSET A) = 2^i
    BY <2>1, PowerCounts
  <2>3. IsFiniteSet(SUBSET C) /\ Cardinality(SUBSET C) = 2^(i + n)
    BY <2>1, PowerCounts
  <2>4. IsFiniteSet(SUBSET B) /\ Cardinality(SUBSET B) = 2^n
    BY <2>1, PowerCounts DEF B
  <2>5. QED
    BY <2>2, <2>3, <2>4
<1>2. A \cup B = C /\ A \cap B = {}
  OBVIOUS
<1> HIDE DEF A, B, C
<1>3. f \in Bijection(SUBSET C, (SUBSET A) \X (SUBSET B))
  <2>1. \A T, U \in SUBSET C : f[T] = f[U] => T = U
    <3>1. SUFFICES ASSUME NEW T \in SUBSET C, NEW U \in SUBSET C, f[T] = f[U]
                   PROVE  T = U
      OBVIOUS
    <3>2. T \cap A = U \cap A /\ T \cap B = U \cap B
      BY <3>1
    <3>3. QED
      BY <1>2, <3>2
  <2>2. ASSUME NEW y \in (SUBSET A) \X (SUBSET B)
        PROVE  \E T \in SUBSET C : f[T] = y
    <3>1. PICK U \in SUBSET A, V \in SUBSET B : y = <<U, V>>
      OBVIOUS
    <3>2. U \cup V \in SUBSET C /\ (U \cup V) \cap A = U /\ (U \cup V) \cap B = V
      BY <1>2
    <3>3. QED
      BY <3>1, <3>2
  <2>3. f \in [SUBSET C -> (SUBSET A) \X (SUBSET B)]
    OBVIOUS
  <2> HIDE DEF f
  <2>4. f \in Injection(SUBSET C, (SUBSET A) \X (SUBSET B))
    BY <2>1, <2>3 DEF Injection, IsInjective
  <2>5. QED
    BY <2>2, <2>3, <2>4 DEF Bijection, Surjection
<1>4. Cardinality((SUBSET A) \X (SUBSET B)) = 2^i * 2^n
  <2> DEFINE X == SUBSET A
             Y == SUBSET B
  <2>1. IsFiniteSet(X) /\ IsFiniteSet(Y) /\ Cardinality(X) = 2^i /\ Cardinality(Y) = 2^n
    BY <1>1
  <2> HIDE DEF X, Y
  <2>2. Cardinality(X \X Y) = Cardinality(X) * Cardinality(Y)
    BY <2>1, FS_Product
  <2>3. QED
    BY <2>1, <2>2 DEF X, Y
<1>5. Cardinality((SUBSET A) \X (SUBSET B)) = Cardinality(SUBSET C)
  BY <1>1, <1>3, FS_Bijection DEF ExistsBijection
<1>6. QED
  BY <1>1, <1>4, <1>5

\* There are more subsets than elements
LEMMA PowerLarger ==
    ASSUME NEW n \in Nat
    PROVE  n < 2^n
<1> DEFINE S == 1..n
           f == [j \in S |-> {j}]
<1>1. IsFiniteSet(S) /\ Cardinality(S) = n
  BY FS_Interval
<1>2. IsFiniteSet(SUBSET S) /\ Cardinality(SUBSET S) = 2^n /\ 2^n \in Nat
  <2>1. IsFiniteSet(SUBSET S) /\ Cardinality(SUBSET S) = 2^n
    BY <1>1, FS_SUBSET
  <2>2. QED
    BY <2>1, FS_CardinalityType
<1>3. f \in Injection(S, SUBSET S)
  <2>1. f \in [S -> SUBSET S] /\ \A j, k \in S : f[j] = f[k] => j = k
    OBVIOUS
  <2> HIDE DEF f
  <2>2. QED
    BY <2>1 DEF Injection, IsInjective
<1>4. f \notin Surjection(S, SUBSET S)
  <2>1. {} \in SUBSET S /\ \A j \in S : f[j] # {}
    OBVIOUS
  <2> HIDE DEF f
  <2>2. QED
    BY <2>1 DEF Surjection
<1> HIDE DEF f, S
<1>5. n <= 2^n /\ n # 2^n
  BY <1>1, <1>2, <1>3, <1>4, FS_Injection
<1>6. QED
  BY <1>2, <1>5

\* Powers grow, and a smaller one divides a larger one
LEMMA PowerGrows ==
    ASSUME NEW i \in Nat, NEW j \in Nat, i <= j
    PROVE  /\ \E q \in Nat \ {0} : 2^j = q * 2^i
           /\ 2^i <= 2^j
           /\ i < j => 2^i < 2^j
<1> DEFINE d == j - i
<1>1. d \in Nat /\ i + d = j /\ (i < j => d >= 1)
  OBVIOUS
<1> HIDE DEF d
<1>2. 2^j = 2^i * 2^d
  BY <1>1, PowerSum
<1>3. d < 2^d /\ 2^d \in Nat \ {0} /\ 2^i \in Nat \ {0} /\ 2^j \in Nat \ {0}
  BY <1>1, PowerLarger, PowerNat
<1> DEFINE p == 2^i
           q == 2^d
<1>4. p * q = q * p /\ p <= p * q /\ (q > 1 => p < p * q)
  <2>1. p \in Nat \ {0} /\ q \in Nat \ {0}
    BY <1>3
  <2> HIDE DEF p, q
  <2>2. QED
    BY <2>1
<1>5. i < j => q > 1
  BY <1>1, <1>3
<1>6. QED
  BY <1>2, <1>3, <1>4, <1>5

\* What a quotient is
LEMMA Division ==
    ASSUME NEW n \in Int, NEW b \in Nat \ {0}
    PROVE  /\ n \div b \in Int /\ (n \div b) * b <= n
           /\ n >= 0 => n \div b \in Nat
<1>1. n \div b \in Int
  OBVIOUS
<1>2. (n \div b) * b <= n
  OBVIOUS
<1>3. n >= 0 => n \div b \in Nat
  OBVIOUS
<1>4. QED
  BY <1>1, <1>2, <1>3

\* What is left over from a multiple
LEMMA Remainder ==
    ASSUME NEW n \in Nat, NEW q \in Nat, NEW b \in Nat \ {0}, NEW r \in Nat, r < b, n = q * b + r
    PROVE  n % b = r
OBVIOUS

\* A number without remainder is a multiple
LEMMA Multiple ==
    ASSUME NEW n \in Nat, NEW b \in Nat \ {0}, n % b = 0
    PROVE  \E q \in Nat : n = q * b
<1>1. n \div b \in Nat
  BY Division
<1>2. n = (n \div b) * b
  OBVIOUS
<1>3. QED
  BY <1>1, <1>2

\* Multiples that differ, differ by a whole one
LEMMA MultiplesApart ==
    ASSUME NEW p \in Nat, NEW q \in Nat, NEW b \in Nat \ {0}, p * b < q * b
    PROVE  p * b + b <= q * b
<1>1. p < q
  <2>1. SUFFICES ASSUME q <= p PROVE FALSE
    OBVIOUS
  <2>2. (p - q) * b >= 0 /\ (p - q) * b = p * b - q * b
    BY <2>1
  <2>3. QED
    BY <2>2
<1>2. (q - (p + 1)) * b >= 0 /\ (q - (p + 1)) * b = q * b - (p + 1) * b
  BY <1>1
<1>3. (p + 1) * b = p * b + b
  OBVIOUS
<1>4. QED
  BY <1>2, <1>3

-----------------------------------------------------------------------------
(* Cell sizes.                                                             *)

CellSizes == { MinCell * 2^i : i \in Index }

\* The types of the constants
LEMMA Constants ==
    /\ SlabSize \in Nat \ {0} /\ MinReserved \in Nat \ {0} /\ HeaderSize \in Nat \ {0}
    /\ MinCell \in Nat \ {0} /\ SlabTypes \in Nat \ {0} /\ SizeOfT \in Nat \ {0}
    /\ HeaderSize <= MinReserved
    /\ 0 \in Index /\ SlabTypes - 1 \in Index /\ Index \subseteq Nat
    /\ \A i \in Index : i <= SlabTypes - 1
<1>1. /\ SlabSize \in Nat \ {0} /\ MinReserved \in Nat \ {0} /\ HeaderSize \in Nat \ {0}
      /\ MinCell \in Nat \ {0} /\ SlabTypes \in Nat \ {0} /\ SizeOfT \in Nat \ {0}
      /\ HeaderSize <= MinReserved
  BY AllocatorAssumption
<1>2. QED
  BY <1>1 DEF Index

\* Cell sizes are powers of two, from MinCell to MaxCell
LEMMA Sizes ==
    \E k \in Nat :
        /\ MinCell = 2^k
        /\ MaxCell = 2^(k + (SlabTypes - 1))
        /\ \A i \in Index : MinCell * 2^i = 2^(k + i)
<1>1. PICK k \in 0..MinCell : MinCell = 2^k
  BY AllocatorAssumption
<1>2. k \in Nat
  BY Constants
<1>3. ASSUME NEW i \in Index
      PROVE  MinCell * 2^i = 2^(k + i)
  <2>1. i \in Nat
    BY Constants
  <2>2. QED
    BY <1>1, <1>2, <2>1, PowerSum
<1>4. QED
  BY <1>1, <1>2, <1>3, Constants DEF MaxCell

\* A slab and its reserved area are multiples of the cell size, the cells fit behind it
SizeFits(cs) ==
    /\ cs \in Nat \ {0} /\ MinCell <= cs
    /\ Reserved(cs) \in Nat /\ HeaderSize <= Reserved(cs)
    /\ MaxCells(cs) \in Nat /\ MaxCells(cs) > 1
    /\ MaxCells(cs) * cs \in Nat /\ Reserved(cs) + MaxCells(cs) * cs <= SlabSize
    /\ \E q \in Nat : SlabSize = q * cs
    /\ \E q \in Nat : Reserved(cs) = q * cs

\* Every cell size is such
LEMMA CellSizeFits ==
    ASSUME NEW cs \in CellSizes
    PROVE  SizeFits(cs)
<1>1. PICK k \in Nat : MinCell = 2^k /\ \A i \in Index : MinCell * 2^i = 2^(k + i)
  BY Sizes
<1>2. PICK i \in Index : cs = MinCell * 2^i
  BY DEF CellSizes
<1>3. cs = 2^(k + i) /\ i \in Nat /\ k + i \in Nat /\ k <= k + i
  BY <1>1, <1>2, Constants
<1>4. cs \in Nat \ {0} /\ MinCell <= cs
  <2>1. 2^(k + i) \in Nat \ {0}
    BY <1>3, PowerNat
  <2>2. 2^k <= 2^(k + i)
    BY <1>3, PowerGrows
  <2>3. QED
    BY <1>1, <1>3, <2>1, <2>2
<1>5. \E q \in Nat : SlabSize = q * cs
  <2>1. SlabSize % cs = 0
    BY <1>2, AllocatorAssumption DEF Index
  <2>2. QED
    BY <1>4, <2>1, Multiple, Constants
<1>6. Reserved(cs) \in Nat /\ HeaderSize <= Reserved(cs)
  BY <1>4, Constants DEF Reserved
<1>7. \E q \in Nat : Reserved(cs) = q * cs
  <2>1. CASE MinReserved < cs
    <3>1. Reserved(cs) = 1 * cs
      BY <1>4, <2>1 DEF Reserved
    <3>2. QED
      BY <3>1
  <2>2. CASE ~(MinReserved < cs)
    <3>1. PICK r \in 0..MinReserved : MinReserved = 2^r
      BY AllocatorAssumption
    <3>2. r \in Nat
      BY Constants
    <3>3. k + i <= r
      <4>1. SUFFICES ASSUME r < k + i PROVE FALSE
        BY <1>3, <3>2
      <4>2. 2^r < 2^(k + i)
        BY <1>3, <3>2, <4>1, PowerGrows
      <4>3. QED
        BY <1>3, <2>2, <3>1, <4>2
    <3>4. \E q \in Nat \ {0} : 2^r = q * 2^(k + i)
      BY <1>3, <3>2, <3>3, PowerGrows
    <3>5. QED
      BY <1>3, <2>2, <3>1, <3>4 DEF Reserved
  <2>3. QED
    BY <2>1, <2>2
<1>8. MaxCells(cs) > 1
  BY <1>2, MaxCellsAssumption
<1> DEFINE room == SlabSize - Reserved(cs)
           m == MaxCells(cs)
<1>9. m \in Int /\ m = room \div cs /\ room \in Int
  BY <1>4, <1>6, Constants DEF MaxCells
<1>10. m * cs <= room
  <2> HIDE DEF room
  <2>1. (room \div cs) * cs <= room
    BY <1>4, <1>9, Division
  <2>2. QED
    BY <1>9, <2>1
<1>11. m \in Nat /\ m * cs \in Nat
  BY <1>4, <1>8, <1>9
<1>12. QED
  BY <1>4, <1>5, <1>6, <1>7, <1>8, <1>10, <1>11, Constants DEF SizeFits

\* Each cell size has one index
LEMMA IndexOfSize ==
    ASSUME NEW i \in Index
    PROVE  /\ IndexFromCellSize(MinCell * 2^i) = i
           /\ MinCell * 2^i \in CellSizes
           /\ \A j \in Index : MinCell * 2^j = MinCell * 2^i => j = i
<1>1. PICK k \in Nat : \A j \in Index : MinCell * 2^j = 2^(k + j)
  BY Sizes
<1>2. ASSUME NEW j \in Index, NEW l \in Index, j < l
      PROVE  MinCell * 2^j # MinCell * 2^l
  <2>1. j \in Nat /\ l \in Nat /\ k + j \in Nat /\ k + l \in Nat /\ k + j < k + l
    BY <1>2, Constants
  <2>2. 2^(k + j) < 2^(k + l) /\ 2^(k + j) \in Nat /\ 2^(k + l) \in Nat
    BY <2>1, PowerGrows, PowerNat
  <2>3. QED
    BY <1>1, <2>2
<1>3. \A j \in Index : MinCell * 2^j = MinCell * 2^i => j = i
  <2>1. \A j \in Index : j < i \/ i < j \/ i = j
    BY Constants
  <2>2. QED
    BY <1>2, <2>1
<1>4. IndexFromCellSize(MinCell * 2^i) = i
  <2> DEFINE T == {j \in Index : MinCell * 2^j = MinCell * 2^i}
  <2>1. (CHOOSE j \in Index : MinCell * 2^j = MinCell * 2^i) = i
    BY <1>3
  <2>2. QED
    BY <2>1 DEF IndexFromCellSize
<1>5. QED
  BY <1>3, <1>4 DEF CellSizes

\* A set of things with a measure has a smallest one
LEMMA Smallest ==
    ASSUME NEW T, T # {}, NEW rank, \A x \in T : rank[x] \in Nat
    PROVE  \E x \in T : \A y \in T : ~(rank[y] < rank[x])
<1> DEFINE ranks == {rank[x] : x \in T}
<1>1. ranks \in SUBSET Nat /\ ranks # {}
  OBVIOUS
<1>2. PICK m \in ranks : \A i \in ranks : ~ (<<i, m>> \in OpToRel(<, Nat))
  BY <1>1, NatLessThanWellFounded, WFMin
<1>3. PICK x \in T : m = rank[x]
  BY <1>2
<1>4. \A y \in T : rank[y] \in ranks /\ rank[y] \in Nat /\ m \in Nat
  BY <1>3
<1>5. \A y \in T : ~(rank[y] < m)
  BY <1>2, <1>4 DEF OpToRel
<1>6. QED
  BY <1>3, <1>5

\* A set of numbers has a smallest one
LEMMA Least ==
    ASSUME NEW T \in SUBSET Nat, T # {}
    PROVE  \E m \in T : \A i \in T : m <= i
<1> DEFINE id == [m \in Nat |-> m]
<1>1. \A i \in T : id[i] \in Nat /\ id[i] = i
  OBVIOUS
<1> HIDE DEF id
<1>2. PICK m \in T : \A i \in T : ~(id[i] < id[m])
  BY <1>1, Smallest
<1>3. QED
  BY <1>1, <1>2

\* ceiling_pow2 of a number other than zero
LEMMA Ceiling ==
    ASSUME NEW n \in Nat \ {0}
    PROVE  \E i \in 0..n : /\ CeilingPow2(n) = 2^i /\ n <= 2^i
                           /\ \A j \in 0..n : 2^j >= n => 2^i <= 2^j
<1> DEFINE T == {i \in 0..n : 2^i >= n}
           P(p) == p >= n /\ \A j \in 0..n : 2^j >= n => p <= 2^j
<1>1. \A i \in 0..n : i \in Nat /\ 2^i \in Nat
  BY PowerNat
<1>2. n \in T
  <2>1. n < 2^n /\ n \in 0..n
    BY PowerLarger
  <2>2. QED
    BY <1>1, <2>1
<1>3. PICK m \in T : \A i \in T : m <= i
  <2>1. T \in SUBSET Nat
    OBVIOUS
  <2> HIDE DEF T
  <2>2. QED
    BY <1>2, <2>1, Least
<1>4. m \in 0..n /\ 2^m >= n
  OBVIOUS
<1>5. P(2^m)
  <2>1. ASSUME NEW j \in 0..n, 2^j >= n
        PROVE  2^m <= 2^j
    <3>1. m <= j /\ m \in Nat /\ j \in Nat
      BY <1>3, <1>4, <2>1
    <3>2. QED
      BY <3>1, PowerGrows
  <2>2. QED
    BY <1>4, <2>1
<1>6. \E p \in {2^i : i \in 0..n} : P(p)
  BY <1>4, <1>5
<1>7. PICK p \in {2^i : i \in 0..n} : p = CeilingPow2(n) /\ P(p)
  <2>1. CeilingPow2(n) = CHOOSE p \in {2^i : i \in 0..n} : P(p)
    BY DEF CeilingPow2
  <2> HIDE DEF P
  <2>2. QED
    BY <1>6, <2>1
<1>8. QED
  BY <1>1, <1>7

\* What a request gets: a cell size that is there, and not less than asked for
LEMMA CellSizeOf ==
    ASSUME NEW n \in Nat, n <= MaxCell
    PROVE  CellSize(n) \in CellSizes /\ n <= CellSize(n)
<1>1. PICK k \in Nat : /\ MinCell = 2^k
                       /\ MaxCell = 2^(k + (SlabTypes - 1))
                       /\ \A i \in Index : MinCell * 2^i = 2^(k + i)
  BY Sizes
<1>2. MinCell \in CellSizes /\ MinCell \in Nat
  <2>1. MinCell * 2^0 = MinCell /\ 0 \in Index
    BY Constants
  <2>2. QED
    BY <2>1, Constants DEF CellSizes
<1>3. CASE n = 0
  <2>1. CellSize(n) = MinCell
    BY <1>3, Constants DEF CellSize, CeilingPow2
  <2>2. QED
    BY <1>2, <1>3, <2>1
<1>4. CASE n # 0
  <2>1. PICK i \in 0..n : /\ CeilingPow2(n) = 2^i /\ n <= 2^i
                          /\ \A j \in 0..n : 2^j >= n => 2^i <= 2^j
    BY <1>4, Ceiling
  <2>2. i \in Nat /\ 2^i \in Nat
    BY PowerNat
  <2>3. CASE 2^i < MinCell
    <3>1. CellSize(n) = MinCell
      BY <2>1, <2>3 DEF CellSize
    <3>2. QED
      BY <1>2, <2>1, <2>2, <2>3, <3>1
  <2>4. CASE ~(2^i < MinCell)
    <3>1. CellSize(n) = 2^i
      BY <2>1, <2>4 DEF CellSize
    <3>2. k <= i
      <4>1. SUFFICES ASSUME i < k PROVE FALSE
        BY <2>2
      <4>2. 2^i < 2^k
        BY <2>2, <4>1, PowerGrows
      <4>3. QED
        BY <1>1, <2>4, <4>2
    <3> DEFINE t == k + (SlabTypes - 1)
    <3>3. i <= t
      <4>1. SUFFICES ASSUME t < i PROVE FALSE
        BY <2>2, Constants
      <4>2. t \in Nat
        BY Constants
      <4> HIDE DEF t
      <4>3. 2^t < 2^i
        BY <2>2, <4>1, <4>2, PowerGrows
      <4>4. t \in 0..n
        BY <2>1, <4>1, <4>2
      <4>5. 2^t >= n
        BY <1>1 DEF t
      <4>6. 2^i <= 2^t /\ 2^t \in Nat
        BY <2>1, <4>2, <4>4, <4>5, PowerNat
      <4>7. QED
        BY <2>2, <4>3, <4>6
    <3>4. i - k \in Index /\ k + (i - k) = i
      BY <2>2, <3>2, <3>3, Constants DEF Index
    <3>5. 2^i = MinCell * 2^(i - k)
      BY <1>1, <3>4
    <3>6. QED
      BY <2>1, <3>1, <3>4, <3>5 DEF CellSizes
  <2>5. QED
    BY <2>3, <2>4
<1>5. QED
  BY <1>3, <1>4

-----------------------------------------------------------------------------
(* Where cells are.                                                        *)

\* The j-th cell of slab s, and all of them
Cell(s, cs, j) == s + Reserved(cs) + (j - 1) * cs
Cells(s, cs)   == { Cell(s, cs, j) : j \in 1..MaxCells(cs) }

\* A cell lies behind the header, in its slab, which is found from it, and is aligned
LEMMA CellPlace ==
    ASSUME NEW s \in SlabAt, NEW cs \in CellSizes, NEW c \in Cells(s, cs)
    PROVE  /\ c \in Nat /\ cs \in Nat \ {0}
           /\ s + HeaderSize <= c /\ c + cs <= s + SlabSize
           /\ SlabFromCell(c) = s
           /\ c % cs = 0
<1> DEFINE R == Reserved(cs)
           M == MaxCells(cs)
<1>1. PICK q \in Nat, r \in Nat : SlabSize = q * cs /\ R = r * cs
  BY CellSizeFits DEF SizeFits
<1>2. /\ cs \in Nat \ {0} /\ R \in Nat /\ HeaderSize <= R /\ M \in Nat
      /\ M * cs \in Nat /\ R + M * cs <= SlabSize
  BY CellSizeFits DEF SizeFits
<1>3. PICK j \in 1..M : c = s + R + (j - 1) * cs
  BY DEF Cells, Cell
<1>4. s \in Nat /\ s % SlabSize = 0 /\ SlabSize \in Nat \ {0} /\ HeaderSize \in Nat
  BY AllocatorAssumption, Constants
<1>5. PICK p \in Nat : s = p * SlabSize
  BY <1>4, Multiple
<1> DEFINE o == (j - 1) * cs
<1>6. j - 1 \in Nat /\ o \in Nat
  BY <1>2, <1>3
<1>7. o + cs <= M * cs
  <2>1. (M - j) * cs >= 0 /\ (M - j) * cs = M * cs - j * cs
    BY <1>2, <1>3
  <2>2. o + cs = j * cs
    BY <1>2, <1>3
  <2> HIDE DEF o
  <2>3. QED
    BY <1>2, <1>3, <1>6, <2>1, <2>2
<1> HIDE DEF o, R, M
<1>8. c \in Nat /\ s + HeaderSize <= c /\ c + cs <= s + SlabSize
  BY <1>2, <1>3, <1>4, <1>6, <1>7 DEF o
<1>9. SlabFromCell(c) = s
  <2> DEFINE e == R + o
  <2>1. e \in Nat /\ e < SlabSize /\ c = p * SlabSize + e
    BY <1>2, <1>3, <1>4, <1>5, <1>6, <1>7 DEF o
  <2> HIDE DEF e
  <2>2. c % SlabSize = e
    BY <1>4, <1>8, <2>1, Remainder
  <2>3. QED
    BY <1>4, <1>5, <1>8, <2>1, <2>2 DEF SlabFromCell
<1>10. c % cs = 0
  <2>1. s = (p * q) * cs
    BY <1>1, <1>2, <1>5
  <2>2. c = (p * q) * cs + r * cs + (j - 1) * cs
    BY <1>1, <1>3, <2>1
  <2> DEFINE u == p * q
             v == j - 1
  <2>3. u \in Nat /\ v \in Nat
    BY <1>6
  <2>4. c = u * cs + r * cs + v * cs
    BY <2>2
  <2> HIDE DEF u, v
  <2>5. c = (u + r + v) * cs + 0 /\ u + r + v \in Nat
    BY <1>2, <2>3, <2>4
  <2> DEFINE w == u + r + v
  <2>6. c = w * cs + 0 /\ w \in Nat /\ 0 < cs
    BY <1>2, <2>5
  <2> HIDE DEF w
  <2>7. QED
    BY <1>2, <1>8, <2>6, Remainder
<1>11. QED
  BY <1>2, <1>8, <1>9, <1>10

\* Two cells of a slab do not overlap
LEMMA CellsApart ==
    ASSUME NEW s \in SlabAt, NEW cs \in CellSizes, NEW c \in Cells(s, cs), NEW d \in Cells(s, cs),
           c < d
    PROVE  c + cs <= d
<1> DEFINE b == s + Reserved(cs)
<1>1. cs \in Nat \ {0} /\ b \in Nat
  BY CellSizeFits, AllocatorAssumption DEF SizeFits
<1>2. PICK j \in 1..MaxCells(cs) : c = b + (j - 1) * cs
  BY DEF Cells, Cell
<1>3. PICK k \in 1..MaxCells(cs) : d = b + (k - 1) * cs
  BY DEF Cells, Cell
<1> HIDE DEF b
<1> DEFINE p == j - 1
           q == k - 1
<1>4. p \in Nat /\ q \in Nat /\ c = b + p * cs /\ d = b + q * cs
  BY <1>2, <1>3
<1> HIDE DEF p, q
<1>5. p * cs \in Nat /\ q * cs \in Nat
  BY <1>1, <1>4
<1>6. p * cs < q * cs
  BY <1>1, <1>4, <1>5
<1>7. p * cs + cs <= q * cs
  BY <1>1, <1>4, <1>6, MultiplesApart
<1>8. QED
  BY <1>1, <1>4, <1>5, <1>7

\* Two slabs do not overlap
LEMMA SlabsApart ==
    ASSUME NEW s \in SlabAt, NEW t \in SlabAt, s < t
    PROVE  s + SlabSize <= t
<1>1. s \in Nat /\ t \in Nat /\ s % SlabSize = 0 /\ t % SlabSize = 0 /\ SlabSize \in Nat \ {0}
  BY AllocatorAssumption, Constants
<1>2. PICK p \in Nat : s = p * SlabSize
  BY <1>1, Multiple
<1>3. PICK q \in Nat : t = q * SlabSize
  BY <1>1, Multiple
<1>4. QED
  BY <1>1, <1>2, <1>3, MultiplesApart

-----------------------------------------------------------------------------
(* Memory: what an assignment to a link changes.                           *)

Pointer == SlabAt \cup {Null}

HeaderRecord == [cell_size : Nat, free_list : Seq(Nat), free_cells_cnt : Nat,
                 prev : Pointer, next : Pointer]

\* Two memories have the same cells
SameCells(g, h, D) ==
    \A t \in D : /\ g[t].cell_size = h[t].cell_size /\ g[t].free_list = h[t].free_list
                 /\ g[t].free_cells_cnt = h[t].free_cells_cnt

\* g is h after an assignment of x to a link of slab s
WroteNext(g, h, D, s, x) ==
    /\ g \in [D -> HeaderRecord] /\ SameCells(g, h, D)
    /\ \A t \in D : g[t].next = (IF t = s THEN x ELSE h[t].next) /\ g[t].prev = h[t].prev
WrotePrev(g, h, D, s, x) ==
    /\ g \in [D -> HeaderRecord] /\ SameCells(g, h, D)
    /\ \A t \in D : g[t].prev = (IF t = s THEN x ELSE h[t].prev) /\ g[t].next = h[t].next

\* The fields of headers
LEMMA Fields ==
    ASSUME NEW D, NEW h \in [D -> HeaderRecord], NEW t \in D
    PROVE  /\ h[t] \in HeaderRecord
           /\ h[t].cell_size \in Nat /\ h[t].free_list \in Seq(Nat) /\ h[t].free_cells_cnt \in Nat
           /\ h[t].prev \in Pointer /\ h[t].next \in Pointer
BY DEF HeaderRecord

\* An assignment to next
LEMMA SetNext ==
    ASSUME NEW D, NEW h \in [D -> HeaderRecord], NEW s \in D, NEW x \in Pointer
    PROVE  WroteNext([h EXCEPT ![s].next = x], h, D, s, x)
<1> DEFINE r == [h[s] EXCEPT !.next = x]
           g == [h EXCEPT ![s].next = x]
<1>1. h[s] \in HeaderRecord
  BY Fields
<1>2. /\ r \in HeaderRecord /\ r.next = x /\ r.prev = h[s].prev
      /\ r.cell_size = h[s].cell_size /\ r.free_list = h[s].free_list
      /\ r.free_cells_cnt = h[s].free_cells_cnt
  BY <1>1 DEF HeaderRecord
<1>3. g = [h EXCEPT ![s] = r]
  OBVIOUS
<1> HIDE DEF r, g
<1>4. g \in [D -> HeaderRecord] /\ g[s] = r /\ \A t \in D : t # s => g[t] = h[t]
  BY <1>2, <1>3
<1>5. QED
  BY <1>2, <1>4 DEF WroteNext, SameCells, g

\* An assignment to prev
LEMMA SetPrev ==
    ASSUME NEW D, NEW h \in [D -> HeaderRecord], NEW s \in D, NEW x \in Pointer
    PROVE  WrotePrev([h EXCEPT ![s].prev = x], h, D, s, x)
<1> DEFINE r == [h[s] EXCEPT !.prev = x]
           g == [h EXCEPT ![s].prev = x]
<1>1. h[s] \in HeaderRecord
  BY Fields
<1>2. /\ r \in HeaderRecord /\ r.prev = x /\ r.next = h[s].next
      /\ r.cell_size = h[s].cell_size /\ r.free_list = h[s].free_list
      /\ r.free_cells_cnt = h[s].free_cells_cnt
  BY <1>1 DEF HeaderRecord
<1>3. g = [h EXCEPT ![s] = r]
  OBVIOUS
<1> HIDE DEF r, g
<1>4. g \in [D -> HeaderRecord] /\ g[s] = r /\ \A t \in D : t # s => g[t] = h[t]
  BY <1>2, <1>3
<1>5. QED
  BY <1>2, <1>4 DEF WrotePrev, SameCells, g

\* g is h without the links of s: its neighbours are linked to each other
Unlinked(g, h, D, s) ==
    /\ g \in [D -> HeaderRecord] /\ SameCells(g, h, D)
    /\ \A t \in D :
           /\ g[t].next = IF t = s THEN Null ELSE IF t = h[s].prev THEN h[s].next ELSE h[t].next
           /\ g[t].prev = IF t = s THEN Null ELSE IF t = h[s].next THEN h[s].prev ELSE h[t].prev

\* g is h with s linked before head
Linked(g, h, D, head, s) ==
    /\ g \in [D -> HeaderRecord] /\ SameCells(g, h, D)
    /\ \A t \in D : /\ g[t].next = IF t = s THEN head ELSE h[t].next
                    /\ g[t].prev = IF t = s THEN Null ELSE IF t = head THEN s ELSE h[t].prev

\* The four branches of remove_from_slab_list all do the same
LEMMA RemovedFields ==
    ASSUME NEW D \in SUBSET SlabAt, NEW h \in [D -> HeaderRecord], NEW head, NEW s \in D,
           h[s].prev \in (D \cup {Null}) \ {s}, h[s].next \in (D \cup {Null}) \ {s}
    PROVE  /\ Unlinked(RemovedFrom(h, head, s).mem, h, D, s)
           /\ RemovedFrom(h, head, s).head = IF h[s].prev = Null THEN h[s].next ELSE head
<1> DEFINE p == h[s].prev
           n == h[s].next
           R == RemovedFrom(h, head, s)
<1>1. Null \notin D /\ Null \in Pointer /\ D \subseteq Pointer
  BY AllocatorAssumption DEF Pointer
<1>2. p \in Pointer /\ n \in Pointer
  BY Fields
<1>3. CASE p = Null /\ n = Null
  <2>1. R = [mem |-> h, head |-> Null]
    BY <1>3 DEF RemovedFrom
  <2>2. R.mem = h /\ R.head = Null
    BY <2>1
  <2>3. Unlinked(h, h, D, s)
    BY <1>1, <1>3 DEF Unlinked, SameCells
  <2>4. QED
    BY <1>3, <2>2, <2>3
<1>4. CASE p = Null /\ n # Null
  <2> DEFINE h1 == [h EXCEPT ![s].next = Null]
             h2 == [h EXCEPT ![s].next = Null, ![n].prev = Null]
  <2>1. R = [mem |-> h2, head |-> n]
    BY <1>4 DEF RemovedFrom
  <2>2. R.mem = h2 /\ R.head = n
    BY <2>1
  <2>3. h2 = [h1 EXCEPT ![n].prev = Null]
    OBVIOUS
  <2>4. WroteNext(h1, h, D, s, Null)
    BY <1>1, SetNext
  <2> HIDE DEF h1, h2
  <2>5. WrotePrev(h2, h1, D, n, Null)
    BY <1>1, <1>4, <2>3, <2>4, SetPrev DEF WroteNext
  <2>6. Unlinked(h2, h, D, s)
    BY <1>1, <1>4, <2>4, <2>5 DEF Unlinked, WroteNext, WrotePrev, SameCells
  <2>7. QED
    BY <1>4, <2>2, <2>6
<1>5. CASE p # Null /\ n = Null
  <2> DEFINE h1 == [h EXCEPT ![s].prev = Null]
             h2 == [h EXCEPT ![s].prev = Null, ![p].next = Null]
  <2>1. R = [mem |-> h2, head |-> head]
    BY <1>5 DEF RemovedFrom
  <2>2. R.mem = h2 /\ R.head = head
    BY <2>1
  <2>3. h2 = [h1 EXCEPT ![p].next = Null]
    OBVIOUS
  <2>4. WrotePrev(h1, h, D, s, Null)
    BY <1>1, SetPrev
  <2> HIDE DEF h1, h2
  <2>5. WroteNext(h2, h1, D, p, Null)
    BY <1>1, <1>5, <2>3, <2>4, SetNext DEF WrotePrev
  <2>6. Unlinked(h2, h, D, s)
    BY <1>1, <1>5, <2>4, <2>5 DEF Unlinked, WroteNext, WrotePrev, SameCells
  <2>7. QED
    BY <1>5, <2>2, <2>6
<1>6. CASE p # Null /\ n # Null
  <2> DEFINE h1 == [h EXCEPT ![p].next = n]
             h2 == [h1 EXCEPT ![n].prev = p]
             h3 == [h2 EXCEPT ![s].prev = Null]
             h4 == [h3 EXCEPT ![s].next = Null]
             h5 == [h EXCEPT ![p].next = n, ![n].prev = p, ![s].prev = Null, ![s].next = Null]
  <2>1. R = [mem |-> h5, head |-> head]
    BY <1>6 DEF RemovedFrom
  <2>2. R.mem = h5 /\ R.head = head
    BY <2>1
  <2>3. h5 = h4
    OBVIOUS
  <2> HIDE DEF h5
  <2>4. WroteNext(h1, h, D, p, n)
    BY <1>2, <1>6, SetNext
  <2> HIDE DEF h1
  <2>5. WrotePrev(h2, h1, D, n, p)
    BY <1>2, <1>6, <2>4, SetPrev DEF WroteNext
  <2> HIDE DEF h2
  <2>6. WrotePrev(h3, h2, D, s, Null)
    <3>1. h2 \in [D -> HeaderRecord]
      BY <2>5 DEF WrotePrev
    <3>2. QED
      BY <1>1, <3>1, SetPrev
  <2> HIDE DEF h3
  <2>7. WroteNext(h4, h3, D, s, Null)
    BY <1>1, <2>6, SetNext DEF WrotePrev
  <2> HIDE DEF h4
  <2>8. Unlinked(h4, h, D, s)
    BY <1>1, <1>6, <2>4, <2>5, <2>6, <2>7 DEF Unlinked, WroteNext, WrotePrev, SameCells
  <2>9. QED
    BY <1>6, <2>2, <2>3, <2>8
<1>7. QED
  BY <1>3, <1>4, <1>5, <1>6

\* push_to_slab_list of a slab that is in no list
LEMMA PushedFields ==
    ASSUME NEW D \in SUBSET SlabAt, NEW h \in [D -> HeaderRecord], NEW s \in D,
           NEW head \in (D \cup {Null}) \ {s}, h[s].prev = Null
    PROVE  /\ Linked(PushedTo(h, head, s).mem, h, D, head, s)
           /\ PushedTo(h, head, s).head = s
<1> DEFINE P == PushedTo(h, head, s)
<1>1. Null \notin D /\ Null \in Pointer /\ D \subseteq Pointer
  BY AllocatorAssumption DEF Pointer
<1>2. CASE head = Null
  <2> DEFINE h1 == [h EXCEPT ![s].prev = Null]
             h2 == [h1 EXCEPT ![s].next = Null]
             h3 == [h EXCEPT ![s].prev = Null, ![s].next = Null]
  <2>1. P = [mem |-> h3, head |-> s]
    BY <1>2 DEF PushedTo
  <2>2. P.mem = h3 /\ P.head = s
    BY <2>1
  <2>3. h3 = h2
    OBVIOUS
  <2> HIDE DEF h3
  <2>4. WrotePrev(h1, h, D, s, Null)
    BY <1>1, SetPrev
  <2> HIDE DEF h1
  <2>5. WroteNext(h2, h1, D, s, Null)
    BY <1>1, <2>4, SetNext DEF WrotePrev
  <2> HIDE DEF h2
  <2>6. Linked(h2, h, D, head, s)
    BY <1>1, <1>2, <2>4, <2>5 DEF Linked, WroteNext, WrotePrev, SameCells
  <2>7. QED
    BY <2>2, <2>3, <2>6
<1>3. CASE head # Null
  <2> DEFINE h1 == [h EXCEPT ![head].prev = s]
             h2 == [h1 EXCEPT ![s].next = head]
             h3 == [h EXCEPT ![head].prev = s, ![s].next = head]
  <2>1. P = [mem |-> h3, head |-> s]
    BY <1>3 DEF PushedTo
  <2>2. P.mem = h3 /\ P.head = s
    BY <2>1
  <2>3. h3 = h2
    OBVIOUS
  <2> HIDE DEF h3
  <2>4. WrotePrev(h1, h, D, head, s)
    BY <1>1, <1>3, SetPrev
  <2> HIDE DEF h1
  <2>5. WroteNext(h2, h1, D, s, head)
    BY <1>1, <1>3, <2>4, SetNext DEF WrotePrev
  <2> HIDE DEF h2
  <2>6. Linked(h2, h, D, head, s)
    BY <1>1, <1>3, <2>4, <2>5 DEF Linked, WroteNext, WrotePrev, SameCells
  <2>7. QED
    BY <2>2, <2>3, <2>6
<1>4. QED
  BY <1>2, <1>3

-----------------------------------------------------------------------------
(* Lists of slabs.                                                         *)

\* q is the list of head: the k slabs of S, linked both ways
Chain(h, head, S, q, k) ==
    /\ k \in Nat /\ q \in Bijection(1..k, S)
    /\ head = IF k = 0 THEN Null ELSE q[1]
    /\ \A j \in 1..k : /\ h[q[j]].next = IF j = k THEN Null ELSE q[j + 1]
                       /\ h[q[j]].prev = IF j = 1 THEN Null ELSE q[j - 1]

List(h, head, S) == \E k, q : Chain(h, head, S, q, k)

\* The members of a bijection
LEMMA BijectionIs ==
    ASSUME NEW S, NEW k \in Nat, NEW q
    PROVE  q \in Bijection(1..k, S) <=>
               /\ q \in [1..k -> S]
               /\ \A i, j \in 1..k : q[i] = q[j] => i = j
               /\ \A s \in S : \E j \in 1..k : q[j] = s
<1>1. q \in Bijection(1..k, S) =>
               /\ q \in [1..k -> S]
               /\ \A i, j \in 1..k : q[i] = q[j] => i = j
               /\ \A s \in S : \E j \in 1..k : q[j] = s
  BY DEF Bijection, Injection, Surjection, IsInjective
<1>2. ASSUME q \in [1..k -> S], \A i, j \in 1..k : q[i] = q[j] => i = j,
             \A s \in S : \E j \in 1..k : q[j] = s
      PROVE  q \in Bijection(1..k, S)
  <2>1. q \in Injection(1..k, S)
    BY <1>2 DEF Injection, IsInjective
  <2>2. q \in Surjection(1..k, S)
    BY <1>2 DEF Surjection
  <2>3. QED
    BY <2>1, <2>2 DEF Bijection
<1>3. QED
  BY <1>1, <1>2

\* The neighbours of a slab of a list are in the list
LEMMA ChainNeighbours ==
    ASSUME NEW h, NEW head, NEW S, NEW q, NEW k, Chain(h, head, S, q, k), NEW p \in 1..k,
           NEW D \in SUBSET SlabAt, S \subseteq D
    PROVE  /\ q[p] \in S
           /\ h[q[p]].prev = IF p = 1 THEN Null ELSE q[p - 1]
           /\ h[q[p]].next = IF p = k THEN Null ELSE q[p + 1]
           /\ p # 1 => p - 1 \in 1..k /\ q[p - 1] \in S /\ q[p - 1] # q[p]
           /\ p # k => p + 1 \in 1..k /\ q[p + 1] \in S /\ q[p + 1] # q[p]
           /\ h[q[p]].prev \in (S \cup {Null}) \ {q[p]} /\ h[q[p]].next \in (S \cup {Null}) \ {q[p]}
           /\ h[q[p]].prev = Null <=> p = 1
           /\ head \in S /\ (head = q[p] <=> p = 1)
<1>1. k \in Nat /\ q \in [1..k -> S] /\ (\A i, j \in 1..k : q[i] = q[j] => i = j)
  <2>1. k \in Nat /\ q \in Bijection(1..k, S)
    BY DEF Chain
  <2>2. QED
    BY <2>1, BijectionIs
<1>2. Null \notin S
  BY AllocatorAssumption
<1>3. /\ h[q[p]].prev = IF p = 1 THEN Null ELSE q[p - 1]
      /\ h[q[p]].next = IF p = k THEN Null ELSE q[p + 1]
  BY DEF Chain
<1>4. p # 1 => p - 1 \in 1..k /\ q[p - 1] \in S /\ q[p - 1] # q[p]
  <2>1. p # 1 => p - 1 \in 1..k /\ p - 1 # p
    BY <1>1
  <2>2. QED
    BY <1>1, <2>1
<1>5. p # k => p + 1 \in 1..k /\ q[p + 1] \in S /\ q[p + 1] # q[p]
  <2>1. p # k => p + 1 \in 1..k /\ p + 1 # p
    BY <1>1
  <2>2. QED
    BY <1>1, <2>1
<1>6. head = q[1] /\ 1 \in 1..k
  BY <1>1 DEF Chain
<1>7. QED
  BY <1>1, <1>2, <1>3, <1>4, <1>5, <1>6

\* A list without one of its slabs
LEMMA ChainCut ==
    ASSUME NEW D \in SUBSET SlabAt, NEW S \in SUBSET D, NEW h, NEW g, NEW head, NEW q, NEW k,
           Chain(h, head, S, q, k), NEW s \in S, Unlinked(g, h, D, s)
    PROVE  List(g, IF h[s].prev = Null THEN h[s].next ELSE head, S \ {s})
<1>1. /\ k \in Nat /\ q \in [1..k -> S]
      /\ \A i, j \in 1..k : q[i] = q[j] => i = j
      /\ \A t \in S : \E j \in 1..k : q[j] = t
      /\ head = IF k = 0 THEN Null ELSE q[1]
  BY BijectionIs DEF Chain
<1>2. PICK p \in 1..k : q[p] = s
  BY <1>1
<1>3. k >= 1 /\ k - 1 \in Nat
  BY <1>1, <1>2
<1> DEFINE e == [j \in 1..(k - 1) |-> IF j < p THEN q[j] ELSE q[j + 1]]
           T == S \ {s}
           hd == IF h[s].prev = Null THEN h[s].next ELSE head
<1>4. \A j \in 1..(k - 1) : /\ j < p => j \in 1..k /\ e[j] = q[j]
                            /\ ~(j < p) => j + 1 \in 1..k /\ j + 1 # p /\ e[j] = q[j + 1]
  BY <1>1, <1>2
<1>5. e \in Bijection(1..(k - 1), T)
  <2>1. e \in [1..(k - 1) -> T]
    <3>1. \A j \in 1..(k - 1) : e[j] \in T
      BY <1>1, <1>2, <1>4
    <3>2. e = [j \in 1..(k - 1) |-> e[j]]
      OBVIOUS
    <3> HIDE DEF e, T
    <3>3. QED
      BY <3>1, <3>2
  <2>2. ASSUME NEW i \in 1..(k - 1), NEW j \in 1..(k - 1), e[i] = e[j]
        PROVE  i = j
    <3> HIDE DEF e
    <3>1. CASE i < p /\ j < p
      BY <1>1, <1>4, <2>2, <3>1
    <3>2. CASE i < p /\ ~(j < p)
      <4>1. i = j + 1
        BY <1>1, <1>4, <2>2, <3>2
      <4>2. QED
        BY <3>2, <4>1
    <3>3. CASE ~(i < p) /\ j < p
      <4>1. j = i + 1
        BY <1>1, <1>4, <2>2, <3>3
      <4>2. QED
        BY <3>3, <4>1
    <3>4. CASE ~(i < p) /\ ~(j < p)
      <4>1. i + 1 = j + 1
        BY <1>1, <1>4, <2>2, <3>4
      <4>2. QED
        BY <4>1
    <3>5. QED
      BY <3>1, <3>2, <3>3, <3>4
  <2>3. ASSUME NEW t \in T
        PROVE  \E j \in 1..(k - 1) : e[j] = t
    <3>1. PICK j \in 1..k : q[j] = t
      BY <1>1
    <3>2. j # p
      BY <1>2, <3>1
    <3>3. CASE j < p
      <4>1. j \in 1..(k - 1) /\ e[j] = q[j]
        BY <1>1, <1>2, <3>3
      <4>2. QED
        BY <3>1, <4>1
    <3>4. CASE j > p
      <4>1. j - 1 \in 1..(k - 1) /\ ~(j - 1 < p) /\ (j - 1) + 1 = j
        BY <1>1, <1>2, <3>4
      <4>2. e[j - 1] = q[j]
        BY <4>1
      <4>3. QED
        BY <3>1, <4>1, <4>2
    <3>5. QED
      BY <1>2, <3>1, <3>2, <3>3, <3>4
  <2> HIDE DEF e, T
  <2>4. QED
    BY <1>3, <2>1, <2>2, <2>3, BijectionIs
<1>6. /\ h[s].prev = IF p = 1 THEN Null ELSE q[p - 1]
      /\ h[s].next = IF p = k THEN Null ELSE q[p + 1]
      /\ h[s].prev = Null <=> p = 1
  BY <1>2, ChainNeighbours
<1>7. hd = IF k - 1 = 0 THEN Null ELSE e[1]
  <2>1. CASE p = 1
    BY <1>1, <1>2, <1>4, <1>6, <2>1
  <2>2. CASE p # 1
    BY <1>1, <1>2, <1>4, <1>6, <2>2
  <2>3. QED
    BY <2>1, <2>2
<1>8. \A t \in S : t \in D
  OBVIOUS
<1>9. ASSUME NEW j \in 1..(k - 1)
      PROVE  /\ g[e[j]].next = IF j = k - 1 THEN Null ELSE e[j + 1]
             /\ g[e[j]].prev = IF j = 1 THEN Null ELSE e[j - 1]
  <2> DEFINE o == IF j < p THEN j ELSE j + 1
  <2>1. o \in 1..k /\ o # p /\ e[j] = q[o]
    BY <1>2, <1>4
  <2>2. q[o] \in D /\ q[o] # s
    BY <1>1, <1>2, <1>8, <2>1
  <2>3. /\ g[q[o]].next = IF q[o] = h[s].prev THEN h[s].next ELSE h[q[o]].next
        /\ g[q[o]].prev = IF q[o] = h[s].next THEN h[s].prev ELSE h[q[o]].prev
    BY <2>2 DEF Unlinked
  <2>4. /\ h[q[o]].next = IF o = k THEN Null ELSE q[o + 1]
        /\ h[q[o]].prev = IF o = 1 THEN Null ELSE q[o - 1]
    BY <2>1 DEF Chain
  <2>5. Null \notin S
    BY AllocatorAssumption
  <2>6. q[o] = h[s].prev <=> o = p - 1
    <3>1. p # 1 => p - 1 \in 1..k
      BY <1>1
    <3>2. QED
      BY <1>1, <1>2, <1>6, <2>1, <2>5, <3>1
  <2>7. q[o] = h[s].next <=> o = p + 1
    <3>1. p # k => p + 1 \in 1..k
      BY <1>1
    <3>2. QED
      BY <1>1, <1>2, <1>6, <2>1, <2>5, <3>1
  <2>8. g[e[j]].next = IF o = p - 1 THEN (IF p = k THEN Null ELSE q[p + 1])
                       ELSE IF o = k THEN Null ELSE q[o + 1]
    BY <1>6, <2>1, <2>3, <2>4, <2>6
  <2>9. g[e[j]].prev = IF o = p + 1 THEN (IF p = 1 THEN Null ELSE q[p - 1])
                       ELSE IF o = 1 THEN Null ELSE q[o - 1]
    BY <1>6, <2>1, <2>3, <2>4, <2>7
  <2>10. j # k - 1 => e[j + 1] = IF j + 1 < p THEN q[j + 1] ELSE q[j + 2]
    <3>1. j # k - 1 => j + 1 \in 1..(k - 1) /\ (j + 1) + 1 = j + 2
      BY <1>1
    <3>2. QED
      BY <3>1
  <2>11. j # 1 => e[j - 1] = IF j - 1 < p THEN q[j - 1] ELSE q[j]
    <3>1. j # 1 => j - 1 \in 1..(k - 1) /\ (j - 1) + 1 = j
      BY <1>1
    <3>2. QED
      BY <3>1
  <2> HIDE DEF e
  <2>12. g[e[j]].next = IF j = k - 1 THEN Null ELSE e[j + 1]
    <3>1. CASE j < p - 1
      BY <1>1, <1>2, <2>8, <2>10, <3>1
    <3>2. CASE j = p - 1
      <4>1. o = j /\ o = p - 1 /\ p + 1 = j + 2
        BY <1>1, <1>2, <3>2
      <4>2. QED
        BY <1>1, <1>2, <2>8, <2>10, <3>2, <4>1
    <3>3. CASE j > p - 1
      <4>1. o = j + 1 /\ o # p - 1 /\ o + 1 = j + 2 /\ (o = k <=> j = k - 1)
        BY <1>1, <1>2, <3>3
      <4>2. QED
        BY <1>1, <1>2, <2>8, <2>10, <3>3, <4>1
    <3>4. QED
      BY <1>1, <1>2, <3>1, <3>2, <3>3
  <2>13. g[e[j]].prev = IF j = 1 THEN Null ELSE e[j - 1]
    <3>1. CASE j < p
      BY <1>1, <1>2, <2>9, <2>11, <3>1
    <3>2. CASE j = p
      <4>1. o = j + 1 /\ o = p + 1
        BY <1>1, <1>2, <3>2
      <4>2. QED
        BY <1>1, <1>2, <2>9, <2>11, <3>2, <4>1
    <3>3. CASE j > p
      <4>1. o = j + 1 /\ o # p + 1 /\ o # 1 /\ o - 1 = j /\ j # 1
        BY <1>1, <1>2, <3>3
      <4>2. QED
        BY <1>1, <1>2, <2>9, <2>11, <3>3, <4>1
    <3>4. QED
      BY <1>1, <1>2, <3>1, <3>2, <3>3
  <2>14. QED
    BY <2>12, <2>13
<1> HIDE DEF e, T, hd
<1>10. Chain(g, hd, T, e, k - 1)
  BY <1>3, <1>5, <1>7, <1>9 DEF Chain
<1>11. List(g, hd, T)
  BY <1>10 DEF List
<1>12. QED
  BY <1>11 DEF T, hd

\* A list with a slab pushed to its front
LEMMA ChainFront ==
    ASSUME NEW D \in SUBSET SlabAt, NEW S \in SUBSET D, NEW h, NEW g, NEW head, NEW q, NEW k,
           Chain(h, head, S, q, k), NEW s \in D, s \notin S, Linked(g, h, D, head, s)
    PROVE  List(g, s, S \cup {s})
<1>1. /\ k \in Nat /\ q \in [1..k -> S]
      /\ \A i, j \in 1..k : q[i] = q[j] => i = j
      /\ \A t \in S : \E j \in 1..k : q[j] = t
      /\ head = IF k = 0 THEN Null ELSE q[1]
  BY BijectionIs DEF Chain
<1> DEFINE e == [j \in 1..(k + 1) |-> IF j = 1 THEN s ELSE q[j - 1]]
           T == S \cup {s}
<1>2. \A j \in 1..(k + 1) : /\ j = 1 => e[j] = s
                            /\ j # 1 => j - 1 \in 1..k /\ e[j] = q[j - 1]
  BY <1>1
<1>3. k + 1 \in Nat /\ 1 \in 1..(k + 1) /\ e[1] = s
  BY <1>1
<1>4. e \in Bijection(1..(k + 1), T)
  <2>1. e \in [1..(k + 1) -> T]
    <3>1. \A j \in 1..(k + 1) : e[j] \in T
      BY <1>1, <1>2
    <3>2. e = [j \in 1..(k + 1) |-> e[j]]
      OBVIOUS
    <3> HIDE DEF e, T
    <3>3. QED
      BY <3>1, <3>2
  <2>2. ASSUME NEW i \in 1..(k + 1), NEW j \in 1..(k + 1), e[i] = e[j]
        PROVE  i = j
    <3> HIDE DEF e
    <3>1. CASE i = 1 /\ j # 1
      BY <1>1, <1>2, <2>2, <3>1
    <3>2. CASE i # 1 /\ j = 1
      BY <1>1, <1>2, <2>2, <3>2
    <3>3. CASE i # 1 /\ j # 1
      <4>1. i - 1 = j - 1
        BY <1>1, <1>2, <2>2, <3>3
      <4>2. QED
        BY <4>1
    <3>4. QED
      BY <3>1, <3>2, <3>3
  <2>3. ASSUME NEW t \in T
        PROVE  \E j \in 1..(k + 1) : e[j] = t
    <3>1. CASE t = s
      BY <1>3, <3>1
    <3>2. CASE t # s
      <4>1. PICK j \in 1..k : q[j] = t
        BY <1>1, <3>2
      <4>2. j + 1 \in 1..(k + 1) /\ j + 1 # 1 /\ (j + 1) - 1 = j
        BY <1>1
      <4>3. e[j + 1] = t
        BY <4>1, <4>2
      <4>4. QED
        BY <4>2, <4>3
    <3>3. QED
      BY <3>1, <3>2
  <2> HIDE DEF e, T
  <2>4. QED
    BY <1>3, <2>1, <2>2, <2>3, BijectionIs
<1>5. ASSUME NEW j \in 1..(k + 1)
      PROVE  /\ g[e[j]].next = IF j = k + 1 THEN Null ELSE e[j + 1]
             /\ g[e[j]].prev = IF j = 1 THEN Null ELSE e[j - 1]
  <2>1. j # k + 1 => j + 1 \in 1..(k + 1) /\ j + 1 # 1 /\ (j + 1) - 1 = j /\ e[j + 1] = q[j]
    BY <1>1
  <2>2. j # 1 => j - 1 \in 1..k /\ j - 1 \in 1..(k + 1)
    BY <1>1
  <2>3. CASE j = 1
    <3>1. g[s].next = head /\ g[s].prev = Null
      BY DEF Linked
    <3>2. QED
      BY <1>1, <1>3, <2>1, <2>3, <3>1
  <2>4. CASE j # 1
    <3>1. e[j] = q[j - 1] /\ q[j - 1] \in S /\ q[j - 1] \in D /\ q[j - 1] # s
      BY <1>1, <1>2, <2>2, <2>4
    <3>2. /\ g[q[j - 1]].next = h[q[j - 1]].next
          /\ g[q[j - 1]].prev = IF q[j - 1] = head THEN s ELSE h[q[j - 1]].prev
      BY <3>1 DEF Linked
    <3>3. /\ h[q[j - 1]].next = IF j - 1 = k THEN Null ELSE q[(j - 1) + 1]
          /\ h[q[j - 1]].prev = IF j - 1 = 1 THEN Null ELSE q[(j - 1) - 1]
      BY <2>2, <2>4 DEF Chain
    <3>4. g[e[j]].next = IF j = k + 1 THEN Null ELSE e[j + 1]
      <4>1. (j - 1) + 1 = j /\ (j - 1 = k <=> j = k + 1)
        BY <1>1
      <4>2. QED
        BY <2>1, <3>1, <3>2, <3>3, <4>1
    <3>5. q[j - 1] = head <=> j = 2
      <4>1. k # 0 /\ 1 \in 1..k
        BY <1>1, <2>2, <2>4
      <4>2. QED
        BY <1>1, <2>2, <2>4, <4>1
    <3>6. g[e[j]].prev = IF j = 1 THEN Null ELSE e[j - 1]
      <4>1. CASE j = 2
        BY <1>3, <3>1, <3>2, <3>5, <4>1
      <4>2. CASE j # 2
        <5>1. j - 1 # 1 /\ j - 1 \in 1..(k + 1)
          BY <2>2, <2>4, <4>2
        <5>2. e[j - 1] = q[(j - 1) - 1]
          BY <1>2, <5>1
        <5>3. QED
          BY <2>4, <3>1, <3>2, <3>3, <3>5, <4>2, <5>1, <5>2
      <4>3. QED
        BY <4>1, <4>2
    <3>7. QED
      BY <3>4, <3>6
  <2>5. QED
    BY <2>3, <2>4
<1> HIDE DEF e, T
<1>6. s = IF k + 1 = 0 THEN Null ELSE e[1]
  BY <1>1, <1>3
<1>7. Chain(g, s, T, e, k + 1)
  BY <1>3, <1>4, <1>5, <1>6 DEF Chain
<1>8. List(g, s, T)
  BY <1>7 DEF List
<1>9. QED
  BY <1>8 DEF T

\* A list whose slabs keep their links
LEMMA ListSame ==
    ASSUME NEW S, NEW h, NEW g, NEW head, List(h, head, S),
           \A t \in S : g[t].next = h[t].next /\ g[t].prev = h[t].prev
    PROVE  List(g, head, S)
<1>1. PICK k, q : Chain(h, head, S, q, k)
  BY DEF List
<1>2. \A j \in 1..k : q[j] \in S
  BY <1>1, BijectionIs DEF Chain
<1>3. Chain(g, head, S, q, k)
  BY <1>1, <1>2 DEF Chain
<1>4. QED
  BY <1>3 DEF List

\* Lists of other slabs than those of S stay what they are
OthersStay(g, h, D, S) ==
    \A T \in SUBSET D, head \in Pointer : T \cap S = {} /\ List(h, head, T) => List(g, head, T)

\* The head of a list is one of its slabs, if it has any
LEMMA ListHead ==
    ASSUME NEW D \in SUBSET SlabAt, NEW S \in SUBSET D, NEW h, NEW head, List(h, head, S)
    PROVE  /\ head = Null <=> S = {}
           /\ head # Null => head \in S
           /\ head \in Pointer
<1>1. PICK k, q : Chain(h, head, S, q, k)
  BY DEF List
<1>2. /\ k \in Nat /\ q \in [1..k -> S] /\ (\A t \in S : \E j \in 1..k : q[j] = t)
      /\ head = IF k = 0 THEN Null ELSE q[1]
  <2>1. k \in Nat /\ q \in Bijection(1..k, S) /\ head = IF k = 0 THEN Null ELSE q[1]
    BY <1>1 DEF Chain
  <2>2. QED
    BY <2>1, BijectionIs
<1>3. Null \notin S
  BY AllocatorAssumption
<1>4. k # 0 => 1 \in 1..k
  BY <1>2
<1>5. k = 0 => S = {}
  BY <1>2
<1>6. QED
  BY <1>2, <1>3, <1>4, <1>5 DEF Pointer

\* r is what is left of memory h and the list of S without s, which has no links then
WithoutSlab(r, h, D, S, s) ==
    /\ r.mem \in [D -> HeaderRecord] /\ SameCells(r.mem, h, D)
    /\ List(r.mem, r.head, S \ {s}) /\ r.head \in Pointer
    /\ r.mem[s].prev = Null
    /\ OthersStay(r.mem, h, D, S)

\* r is memory h and the list of S with s at its front
WithSlab(r, h, D, S, s) ==
    /\ r.mem \in [D -> HeaderRecord] /\ SameCells(r.mem, h, D)
    /\ List(r.mem, r.head, S \cup {s}) /\ r.head = s
    /\ OthersStay(r.mem, h, D, S \cup {s})

\* remove_from_slab_list takes a slab out of its list
LEMMA RemovedList ==
    ASSUME NEW D \in SUBSET SlabAt, NEW S \in SUBSET D, NEW h \in [D -> HeaderRecord], NEW head,
           List(h, head, S), NEW s \in S
    PROVE  WithoutSlab(RemovedFrom(h, head, s), h, D, S, s)
<1> DEFINE r == RemovedFrom(h, head, s)
<1>1. PICK k, q : Chain(h, head, S, q, k)
  BY DEF List
<1>2. PICK p \in 1..k : q[p] = s
  <2>1. k \in Nat /\ q \in Bijection(1..k, S)
    BY <1>1 DEF Chain
  <2>2. QED
    BY <2>1, BijectionIs
<1>3. /\ h[s].prev \in (S \cup {Null}) \ {s} /\ h[s].next \in (S \cup {Null}) \ {s}
  BY <1>1, <1>2, ChainNeighbours
<1>4. /\ Unlinked(r.mem, h, D, s)
      /\ r.head = IF h[s].prev = Null THEN h[s].next ELSE head
  BY <1>3, RemovedFields
<1> HIDE DEF r
<1>5. List(r.mem, r.head, S \ {s})
  <2>1. List(r.mem, IF h[s].prev = Null THEN h[s].next ELSE head, S \ {s})
    BY <1>1, <1>4, ChainCut
  <2>2. QED
    BY <1>4, <2>1
<1>6. OthersStay(r.mem, h, D, S)
  <2>1. SUFFICES ASSUME NEW T \in SUBSET D, NEW hd \in Pointer, T \cap S = {}, List(h, hd, T)
                 PROVE  List(r.mem, hd, T)
    BY DEF OthersStay
  <2>2. ASSUME NEW t \in T
        PROVE  r.mem[t].next = h[t].next /\ r.mem[t].prev = h[t].prev
    <3>1. t \in D /\ t \notin S /\ t # Null
      BY <2>1, AllocatorAssumption
    <3>2. t # s /\ t # h[s].prev /\ t # h[s].next
      BY <1>3, <3>1
    <3>3. QED
      BY <1>4, <3>1, <3>2 DEF Unlinked
  <2>3. QED
    BY <2>1, <2>2, ListSame
<1>7. S \ {s} \in SUBSET D
  OBVIOUS
<1>8. r.head \in Pointer
  BY <1>5, <1>7, ListHead
<1>9. WithoutSlab(r, h, D, S, s)
  BY <1>4, <1>5, <1>6, <1>8 DEF Unlinked, WithoutSlab
<1>10. QED
  BY <1>9 DEF r

\* push_to_slab_list puts a slab without links into a list
LEMMA PushedList ==
    ASSUME NEW D \in SUBSET SlabAt, NEW S \in SUBSET D, NEW h \in [D -> HeaderRecord], NEW head,
           List(h, head, S), NEW s \in D, s \notin S, h[s].prev = Null
    PROVE  WithSlab(PushedTo(h, head, s), h, D, S, s)
<1> DEFINE r == PushedTo(h, head, s)
<1>1. PICK k, q : Chain(h, head, S, q, k)
  BY DEF List
<1>2. head \in (S \cup {Null}) \ {s}
  <2>1. head = Null \/ head \in S
    BY ListHead
  <2>2. s # Null
    BY AllocatorAssumption
  <2>3. QED
    BY <2>1, <2>2
<1>3. Linked(r.mem, h, D, head, s) /\ r.head = s
  BY <1>2, PushedFields
<1> HIDE DEF r
<1>4. List(r.mem, r.head, S \cup {s})
  BY <1>1, <1>3, ChainFront
<1>5. OthersStay(r.mem, h, D, S \cup {s})
  <2>1. SUFFICES ASSUME NEW T \in SUBSET D, NEW hd \in Pointer, T \cap (S \cup {s}) = {},
                        List(h, hd, T)
                 PROVE  List(r.mem, hd, T)
    BY DEF OthersStay
  <2>2. ASSUME NEW t \in T
        PROVE  r.mem[t].next = h[t].next /\ r.mem[t].prev = h[t].prev
    <3>1. t \in D /\ t \notin S /\ t # Null /\ t # s
      BY <2>1, AllocatorAssumption
    <3>2. t # head
      BY <1>2, <3>1
    <3>3. QED
      BY <1>3, <3>1, <3>2 DEF Linked
  <2>3. QED
    BY <2>1, <2>2, ListSame
<1>6. WithSlab(r, h, D, S, s)
  BY <1>3, <1>4, <1>5 DEF Linked, WithSlab
<1>7. QED
  BY <1>6 DEF r

\* g is memory h in which s is no longer in the list of S, of head from, but in that of T,
\* of head to
Exchanged(g, from, to, h, D, S, T, s) ==
    /\ g \in [D -> HeaderRecord] /\ SameCells(g, h, D)
    /\ List(g, from, S \ {s}) /\ from \in Pointer
    /\ List(g, to, T \cup {s}) /\ to = s
    /\ OthersStay(g, h, D, S \cup T)

\* A slab that goes from one list to another
LEMMA MovedList ==
    ASSUME NEW D \in SUBSET SlabAt, NEW S \in SUBSET D, NEW T \in SUBSET D, S \cap T = {},
           NEW h \in [D -> HeaderRecord], NEW from, NEW to, List(h, from, S), List(h, to, T),
           NEW s \in S, NEW r, r = RemovedFrom(h, from, s), NEW p, p = PushedTo(r.mem, to, s)
    PROVE  Exchanged(p.mem, r.head, p.head, h, D, S, T, s)
<1>1. /\ r.mem \in [D -> HeaderRecord] /\ SameCells(r.mem, h, D)
      /\ List(r.mem, r.head, S \ {s}) /\ r.head \in Pointer
      /\ r.mem[s].prev = Null
      /\ OthersStay(r.mem, h, D, S)
  <2>1. WithoutSlab(r, h, D, S, s)
    BY RemovedList
  <2>2. QED
    BY <2>1 DEF WithoutSlab
<1>2. to \in Pointer
  BY ListHead
<1>3. List(r.mem, to, T)
  BY <1>1, <1>2 DEF OthersStay
<1>4. s \in D /\ s \notin T
  OBVIOUS
<1>5. /\ p.mem \in [D -> HeaderRecord] /\ SameCells(p.mem, r.mem, D)
      /\ List(p.mem, p.head, T \cup {s}) /\ p.head = s
      /\ OthersStay(p.mem, r.mem, D, T \cup {s})
  <2>1. WithSlab(p, r.mem, D, T, s)
    BY <1>1, <1>3, <1>4, PushedList
  <2>2. QED
    BY <2>1 DEF WithSlab
<1>6. List(p.mem, r.head, S \ {s})
  <2>1. S \ {s} \in SUBSET D /\ (S \ {s}) \cap (T \cup {s}) = {}
    OBVIOUS
  <2>2. QED
    BY <1>1, <1>5, <2>1 DEF OthersStay
<1>7. OthersStay(p.mem, h, D, S \cup T)
  <2>1. SUFFICES ASSUME NEW U \in SUBSET D, NEW hd \in Pointer, U \cap (S \cup T) = {},
                        List(h, hd, U)
                 PROVE  List(p.mem, hd, U)
    BY DEF OthersStay
  <2>2. U \cap S = {} /\ U \cap (T \cup {s}) = {}
    BY <2>1
  <2>3. List(r.mem, hd, U)
    BY <1>1, <2>1, <2>2 DEF OthersStay
  <2>4. QED
    BY <1>5, <2>2, <2>3 DEF OthersStay
<1>8. SameCells(p.mem, h, D)
  BY <1>1, <1>5 DEF SameCells
<1>9. QED
  BY <1>1, <1>5, <1>6, <1>7, <1>8 DEF Exchanged

-----------------------------------------------------------------------------
(* Allocators.                                                             *)

Names == {"empty", "wip", "filled"}

Memories == UNION { [D -> HeaderRecord] : D \in SUBSET SlabAt }

Allocators == [mem : Memories,
               empty : [Index -> Pointer], wip : [Index -> Pointer], filled : [Index -> Pointer]]

\* The list a slab belongs into
Home(h) == << IF IsSlabEmpty(h) THEN "empty" ELSE IF IsSlabFilled(h) THEN "filled" ELSE "wip",
              IndexFromCellSize(h.cell_size) >>

Homes(mem) == [s \in DOMAIN mem |-> Home(mem[s])]

\* The slabs that place puts into list l of cell size i
At(place, l, i) == { s \in DOMAIN place : place[s] = <<l, i>> }

\* The lists have the slabs that place says
Listed(x, place) ==
    \A l \in Names, i \in Index : List(x.mem, x[l][i], At(place, l, i))

\* The free cells of slab s are some of its cells, each once
CellsOK(s, h) ==
    /\ h.cell_size \in CellSizes
    /\ h.free_list \in Injection(1..h.free_cells_cnt, Cells(s, h.cell_size))

\* Every slab is where it belongs
Good(x) ==
    /\ x \in Allocators
    /\ \A s \in DOMAIN x.mem : CellsOK(s, x.mem[s])
    /\ Listed(x, Homes(x.mem))

\* The fields of an allocator
LEMMA AllocatorFields ==
    ASSUME NEW x \in Allocators
    PROVE  /\ DOMAIN x.mem \in SUBSET SlabAt
           /\ x.mem \in [DOMAIN x.mem -> HeaderRecord]
           /\ x.empty \in [Index -> Pointer] /\ x.wip \in [Index -> Pointer]
           /\ x.filled \in [Index -> Pointer]
           /\ \A l \in Names, i \in Index : x[l] \in [Index -> Pointer] /\ x[l][i] \in Pointer
<1>1. PICK D \in SUBSET SlabAt : x.mem \in [D -> HeaderRecord]
  BY DEF Allocators, Memories
<1>2. DOMAIN x.mem = D
  BY <1>1
<1>3. /\ x.empty \in [Index -> Pointer] /\ x.wip \in [Index -> Pointer]
      /\ x.filled \in [Index -> Pointer]
  BY DEF Allocators
<1>4. x["empty"] = x.empty /\ x["wip"] = x.wip /\ x["filled"] = x.filled
  OBVIOUS
<1>5. \A l \in Names : x[l] \in [Index -> Pointer]
  BY <1>3, <1>4 DEF Names
<1>6. QED
  BY <1>1, <1>2, <1>3, <1>5

\* y is x with memory g and the heads hf and ht of two lists of cell size i
Headed(y, x, i, g, from, hf, to, ht) ==
    /\ y \in Allocators /\ y.mem = g
    /\ \A l \in Names, j \in Index :
           y[l][j] = IF l = from /\ j = i THEN hf
                     ELSE IF l = to /\ j = i THEN ht ELSE x[l][j]

\* The pairs of lists slabs are moved between
Moves == { <<"empty", "wip">>, <<"wip", "filled">>, <<"filled", "wip">>, <<"wip", "empty">> }

\* What Moved changes of the record, for the pairs of lists it is used with
LEMMA MovedFields ==
    ASSUME NEW x \in Allocators, NEW i \in Index, NEW D \in SUBSET SlabAt,
           NEW g \in [D -> HeaderRecord], NEW hf \in Pointer, NEW ht \in Pointer,
           NEW from, NEW to, <<from, to>> \in Moves
    PROVE  Headed([x EXCEPT !.mem = g, ![from][i] = hf, ![to][i] = ht], x, i, g, from, hf, to, ht)
<1> DEFINE y == [x EXCEPT !.mem = g, ![from][i] = hf, ![to][i] = ht]
<1>1. /\ x.empty \in [Index -> Pointer] /\ x.wip \in [Index -> Pointer]
      /\ x.filled \in [Index -> Pointer]
      /\ x["empty"] = x.empty /\ x["wip"] = x.wip /\ x["filled"] = x.filled
  BY AllocatorFields
<1>2. g \in Memories
  BY DEF Memories
<1>3. CASE from = "empty" /\ to = "wip"
  <2>1. /\ y.mem = g
        /\ y.empty = [x.empty EXCEPT ![i] = hf]
        /\ y.wip = [x.wip EXCEPT ![i] = ht]
        /\ y.filled = x.filled
    BY <1>3 DEF Allocators
  <2>2. y \in Allocators
    BY <1>1, <1>2, <1>3 DEF Allocators
  <2>3. y["empty"] = y.empty /\ y["wip"] = y.wip /\ y["filled"] = y.filled
    OBVIOUS
  <2> HIDE DEF y
  <2>4. ASSUME NEW l \in Names, NEW j \in Index
        PROVE  y[l][j] = IF l = from /\ j = i THEN hf
                         ELSE IF l = to /\ j = i THEN ht ELSE x[l][j]
    <3>1. CASE l = "empty"
      BY <1>1, <1>3, <2>1, <2>3, <3>1
    <3>2. CASE l = "wip"
      BY <1>1, <1>3, <2>1, <2>3, <3>2
    <3>3. CASE l = "filled"
      BY <1>1, <1>3, <2>1, <2>3, <3>3
    <3>4. QED
      BY <3>1, <3>2, <3>3 DEF Names
  <2>5. Headed(y, x, i, g, from, hf, to, ht)
    BY <2>1, <2>2, <2>4 DEF Headed
  <2>6. QED
    BY <2>5 DEF y
<1>4. CASE from = "wip" /\ to = "filled"
  <2>1. /\ y.mem = g
        /\ y.empty = x.empty
        /\ y.wip = [x.wip EXCEPT ![i] = hf]
        /\ y.filled = [x.filled EXCEPT ![i] = ht]
    BY <1>4 DEF Allocators
  <2>2. y \in Allocators
    BY <1>1, <1>2, <1>4 DEF Allocators
  <2>3. y["empty"] = y.empty /\ y["wip"] = y.wip /\ y["filled"] = y.filled
    OBVIOUS
  <2> HIDE DEF y
  <2>4. ASSUME NEW l \in Names, NEW j \in Index
        PROVE  y[l][j] = IF l = from /\ j = i THEN hf
                         ELSE IF l = to /\ j = i THEN ht ELSE x[l][j]
    <3>1. CASE l = "empty"
      BY <1>1, <1>4, <2>1, <2>3, <3>1
    <3>2. CASE l = "wip"
      BY <1>1, <1>4, <2>1, <2>3, <3>2
    <3>3. CASE l = "filled"
      BY <1>1, <1>4, <2>1, <2>3, <3>3
    <3>4. QED
      BY <3>1, <3>2, <3>3 DEF Names
  <2>5. Headed(y, x, i, g, from, hf, to, ht)
    BY <2>1, <2>2, <2>4 DEF Headed
  <2>6. QED
    BY <2>5 DEF y
<1>5. CASE from = "filled" /\ to = "wip"
  <2>1. /\ y.mem = g
        /\ y.empty = x.empty
        /\ y.wip = [x.wip EXCEPT ![i] = ht]
        /\ y.filled = [x.filled EXCEPT ![i] = hf]
    BY <1>5 DEF Allocators
  <2>2. y \in Allocators
    BY <1>1, <1>2, <1>5 DEF Allocators
  <2>3. y["empty"] = y.empty /\ y["wip"] = y.wip /\ y["filled"] = y.filled
    OBVIOUS
  <2> HIDE DEF y
  <2>4. ASSUME NEW l \in Names, NEW j \in Index
        PROVE  y[l][j] = IF l = from /\ j = i THEN hf
                         ELSE IF l = to /\ j = i THEN ht ELSE x[l][j]
    <3>1. CASE l = "empty"
      BY <1>1, <1>5, <2>1, <2>3, <3>1
    <3>2. CASE l = "wip"
      BY <1>1, <1>5, <2>1, <2>3, <3>2
    <3>3. CASE l = "filled"
      BY <1>1, <1>5, <2>1, <2>3, <3>3
    <3>4. QED
      BY <3>1, <3>2, <3>3 DEF Names
  <2>5. Headed(y, x, i, g, from, hf, to, ht)
    BY <2>1, <2>2, <2>4 DEF Headed
  <2>6. QED
    BY <2>5 DEF y
<1>6. CASE from = "wip" /\ to = "empty"
  <2>1. /\ y.mem = g
        /\ y.empty = [x.empty EXCEPT ![i] = ht]
        /\ y.wip = [x.wip EXCEPT ![i] = hf]
        /\ y.filled = x.filled
    BY <1>6 DEF Allocators
  <2>2. y \in Allocators
    BY <1>1, <1>2, <1>6 DEF Allocators
  <2>3. y["empty"] = y.empty /\ y["wip"] = y.wip /\ y["filled"] = y.filled
    OBVIOUS
  <2> HIDE DEF y
  <2>4. ASSUME NEW l \in Names, NEW j \in Index
        PROVE  y[l][j] = IF l = from /\ j = i THEN hf
                         ELSE IF l = to /\ j = i THEN ht ELSE x[l][j]
    <3>1. CASE l = "empty"
      BY <1>1, <1>6, <2>1, <2>3, <3>1
    <3>2. CASE l = "wip"
      BY <1>1, <1>6, <2>1, <2>3, <3>2
    <3>3. CASE l = "filled"
      BY <1>1, <1>6, <2>1, <2>3, <3>3
    <3>4. QED
      BY <3>1, <3>2, <3>3 DEF Names
  <2>5. Headed(y, x, i, g, from, hf, to, ht)
    BY <2>1, <2>2, <2>4 DEF Headed
  <2>6. QED
    BY <2>5 DEF y
<1>7. QED
  BY <1>3, <1>4, <1>5, <1>6 DEF Moves

\* List l of cell size j according to new, in which s is in list to of cell size i
MovedAt(new, place, l, j, s, from, to, i) ==
    At(new, l, j) = IF l = from /\ j = i THEN At(place, l, j) \ {s}
                    ELSE IF l = to /\ j = i THEN At(place, l, j) \cup {s}
                    ELSE At(place, l, j)

\* The place of one slab changes its two lists
LEMMA AtMoved ==
    ASSUME NEW place, NEW s \in DOMAIN place, NEW from, NEW to, from # to, NEW i, NEW j, NEW l,
           place[s] = <<from, i>>, NEW new, new = [place EXCEPT ![s] = <<to, i>>]
    PROVE  MovedAt(new, place, l, j, s, from, to, i)
<1>1. DOMAIN new = DOMAIN place
  OBVIOUS
<1>2. \A t \in DOMAIN place : new[t] = IF t = s THEN <<to, i>> ELSE place[t]
  OBVIOUS
<1>3. CASE l = from /\ j = i
  BY <1>1, <1>2, <1>3 DEF At, MovedAt
<1>4. CASE l = to /\ j = i
  BY <1>1, <1>2, <1>4 DEF At, MovedAt
<1>5. CASE ~(l = from /\ j = i) /\ ~(l = to /\ j = i)
  BY <1>1, <1>2, <1>5 DEF At, MovedAt
<1>6. QED
  BY <1>1, <1>3, <1>4, <1>5

\* y is x after slab s went to list l of cell size i
Rehoused(y, x, place, s, l, i) ==
    /\ y \in Allocators /\ DOMAIN y.mem = DOMAIN x.mem
    /\ SameCells(y.mem, x.mem, DOMAIN x.mem)
    /\ Listed(y, [place EXCEPT ![s] = <<l, i>>])
    /\ y[l][i] = s

\* Moved does that
LEMMA MovedPlace ==
    ASSUME NEW x \in Allocators, NEW place, DOMAIN place = DOMAIN x.mem, Listed(x, place),
           NEW i \in Index, NEW s \in DOMAIN x.mem, NEW from, NEW to, <<from, to>> \in Moves,
           place[s] = <<from, i>>
    PROVE  Rehoused(Moved(x, i, s, from, to), x, place, s, to, i)
<1> DEFINE D == DOMAIN x.mem
           S == At(place, from, i)
           T == At(place, to, i)
           r == RemovedFrom(x.mem, x[from][i], s)
           p == PushedTo(r.mem, x[to][i], s)
           y == [x EXCEPT !.mem = p.mem, ![from][i] = r.head, ![to][i] = p.head]
           new == [place EXCEPT ![s] = <<to, i>>]
<1>1. Moved(x, i, s, from, to) = y
  BY DEF Moved
<1>2. from \in Names /\ to \in Names /\ from # to
  BY DEF Moves, Names
<1>3. D \in SUBSET SlabAt /\ x.mem \in [D -> HeaderRecord]
  BY AllocatorFields
<1>4. S \in SUBSET D /\ T \in SUBSET D /\ S \cap T = {} /\ s \in S
  BY <1>2 DEF At
<1>5. List(x.mem, x[from][i], S) /\ List(x.mem, x[to][i], T)
  BY <1>2 DEF Listed
<1>6. Exchanged(p.mem, r.head, p.head, x.mem, D, S, T, s)
  <2> HIDE DEF D, S, T
  <2>1. QED
    BY <1>3, <1>4, <1>5, MovedList
<1>7. /\ p.mem \in [D -> HeaderRecord] /\ SameCells(p.mem, x.mem, D)
      /\ List(p.mem, r.head, S \ {s}) /\ r.head \in Pointer
      /\ List(p.mem, p.head, T \cup {s}) /\ p.head = s
      /\ OthersStay(p.mem, x.mem, D, S \cup T)
  BY <1>6 DEF Exchanged
<1>8. p.head \in Pointer
  BY <1>3, <1>7 DEF Pointer
<1> HIDE DEF r, p
<1>9. Headed(y, x, i, p.mem, from, r.head, to, p.head)
  <2>1. p.mem \in [D -> HeaderRecord] /\ r.head \in Pointer /\ D \in SUBSET SlabAt
    BY <1>3, <1>7
  <2> HIDE DEF D
  <2>2. QED
    BY <1>8, <2>1, MovedFields
<1> HIDE DEF y
<1>10. /\ y \in Allocators /\ y.mem = p.mem
       /\ \A l \in Names, j \in Index :
              y[l][j] = IF l = from /\ j = i THEN r.head
                        ELSE IF l = to /\ j = i THEN p.head ELSE x[l][j]
  BY <1>9 DEF Headed
<1>11. ASSUME NEW l \in Names, NEW j \in Index
       PROVE  List(y.mem, y[l][j], At(new, l, j))
  <2> HIDE DEF D, S, T, new
  <2>1. At(new, l, j) = IF l = from /\ j = i THEN At(place, l, j) \ {s}
                        ELSE IF l = to /\ j = i THEN At(place, l, j) \cup {s}
                        ELSE At(place, l, j)
    <3>1. new = [place EXCEPT ![s] = <<to, i>>] /\ s \in DOMAIN place
      BY DEF new
    <3>2. MovedAt(new, place, l, j, s, from, to, i)
      BY <1>2, <3>1, AtMoved
    <3>3. QED
      BY <3>2 DEF MovedAt
  <2>2. CASE l = from /\ j = i
    <3>1. At(new, l, j) = S \ {s} /\ y[l][j] = r.head
      BY <1>10, <2>1, <2>2 DEF S
    <3>2. QED
      BY <1>7, <1>10, <3>1
  <2>3. CASE l = to /\ j = i
    <3>1. At(new, l, j) = T \cup {s} /\ y[l][j] = p.head
      BY <1>2, <1>10, <2>1, <2>3 DEF T
    <3>2. QED
      BY <1>7, <1>10, <3>1
  <2>4. CASE ~(l = from /\ j = i) /\ ~(l = to /\ j = i)
    <3>1. At(new, l, j) = At(place, l, j) /\ y[l][j] = x[l][j]
      BY <1>10, <2>1, <2>4
    <3>2. List(x.mem, x[l][j], At(place, l, j))
      BY DEF Listed
    <3>3. At(place, l, j) \in SUBSET D /\ At(place, l, j) \cap (S \cup T) = {}
      BY <2>4 DEF At, S, T, D
    <3>4. x[l][j] \in Pointer
      BY AllocatorFields
    <3>5. List(p.mem, x[l][j], At(place, l, j))
      BY <1>7, <3>2, <3>3, <3>4 DEF OthersStay
    <3>6. QED
      BY <1>10, <3>1, <3>5
  <2>5. QED
    BY <2>2, <2>3, <2>4
<1>12. Listed(y, new)
  BY <1>11 DEF Listed
<1>13. DOMAIN y.mem = D
  BY <1>7, <1>10
<1>14. y[to][i] = s
  BY <1>2, <1>7, <1>10
<1>15. QED
  BY <1>1, <1>7, <1>10, <1>12, <1>13, <1>14 DEF Rehoused

-----------------------------------------------------------------------------
(* Free cells.                                                             *)

FreeIn(h) == { h.free_list[j] : j \in 1..h.free_cells_cnt }

\* A slab has MaxCells cells
LEMMA CellsCount ==
    ASSUME NEW s \in SlabAt, NEW cs \in CellSizes
    PROVE  IsFiniteSet(Cells(s, cs)) /\ Cardinality(Cells(s, cs)) = MaxCells(cs)
<1> DEFINE M == MaxCells(cs)
           f == [j \in 1..M |-> Cell(s, cs, j)]
<1>1. M \in Nat /\ cs \in Nat \ {0} /\ s + Reserved(cs) \in Nat
  BY CellSizeFits, AllocatorAssumption DEF SizeFits
<1>2. IsFiniteSet(1..M) /\ Cardinality(1..M) = M
  BY <1>1, FS_Interval
<1>3. \A j, k \in 1..M : f[j] = f[k] => j = k
  <2>1. SUFFICES ASSUME NEW j \in 1..M, NEW k \in 1..M, f[j] = f[k], j < k PROVE FALSE
    <3>1. \A j, k \in 1..M : j < k \/ k < j \/ j = k
      BY <1>1
    <3> HIDE DEF f, M
    <3>2. QED
      BY <2>1, <3>1
  <2> DEFINE b == s + Reserved(cs)
             p == (j - 1) * cs
             q == (k - 1) * cs
  <2>2. b + p = b + q
    BY <2>1 DEF Cell
  <2>3. q - p = (k - j) * cs /\ (k - j) * cs > 0 /\ p \in Int /\ q \in Int
    <3>1. k - j \in Nat \ {0} /\ j \in Int /\ k \in Int
      BY <1>1, <2>1
    <3>2. QED
      BY <1>1, <3>1
  <2> HIDE DEF b, p, q
  <2>4. QED
    BY <1>1, <2>2, <2>3 DEF b
<1>4. f \in Bijection(1..M, Cells(s, cs))
  <2>1. f \in [1..M -> Cells(s, cs)] /\ \A c \in Cells(s, cs) : \E j \in 1..M : f[j] = c
    BY DEF Cells
  <2> HIDE DEF f, M
  <2>2. QED
    BY <1>1, <1>3, <2>1, BijectionIs
<1>5. QED
  BY <1>2, <1>4, FS_Bijection DEF ExistsBijection

\* What CellsOK says of the free list
LEMMA FreeList ==
    ASSUME NEW s, NEW h \in HeaderRecord, CellsOK(s, h)
    PROVE  LET n == h.free_cells_cnt
           IN  /\ n \in Nat /\ DOMAIN h.free_list = 1..n /\ Len(h.free_list) = n
               /\ h.free_list \in [1..n -> Cells(s, h.cell_size)] /\ h.free_list \in Seq(Nat)
               /\ \A i, j \in 1..n : h.free_list[i] = h.free_list[j] => i = j
               /\ FreeIn(h) \subseteq Cells(s, h.cell_size)
               /\ h.cell_size \in CellSizes
<1> DEFINE n == h.free_cells_cnt
<1>1. n \in Nat /\ h.free_list \in Seq(Nat)
  BY DEF HeaderRecord
<1>2. /\ h.free_list \in [1..n -> Cells(s, h.cell_size)]
      /\ \A i, j \in 1..n : h.free_list[i] = h.free_list[j] => i = j
  BY DEF CellsOK, Injection, IsInjective
<1>3. DOMAIN h.free_list = 1..n /\ Len(h.free_list) = n
  BY <1>1, <1>2
<1>4. FreeIn(h) \subseteq Cells(s, h.cell_size)
  BY <1>2 DEF FreeIn
<1>5. QED
  BY <1>1, <1>2, <1>3, <1>4 DEF CellsOK

\* No more cells are free than there are, and when as many are, all are
LEMMA FreeCount ==
    ASSUME NEW s \in SlabAt, NEW h \in HeaderRecord, CellsOK(s, h)
    PROVE  /\ h.free_cells_cnt <= MaxCells(h.cell_size)
           /\ h.free_cells_cnt = MaxCells(h.cell_size) <=> FreeIn(h) = Cells(s, h.cell_size)
           /\ h.free_cells_cnt = 0 <=> FreeIn(h) = {}
           /\ Cells(s, h.cell_size) # {}
           /\ IsFiniteSet(FreeIn(h)) /\ Cardinality(FreeIn(h)) = h.free_cells_cnt
<1> DEFINE n == h.free_cells_cnt
           C == Cells(s, h.cell_size)
           M == MaxCells(h.cell_size)
           f == h.free_list
<1>1. /\ n \in Nat /\ f \in [1..n -> C] /\ h.cell_size \in CellSizes
      /\ \A i, j \in 1..n : f[i] = f[j] => i = j
  BY FreeList
<1>2. IsFiniteSet(C) /\ Cardinality(C) = M /\ M > 1 /\ M \in Nat
  BY <1>1, CellsCount, CellSizeFits DEF SizeFits
<1>3. IsFiniteSet(1..n) /\ Cardinality(1..n) = n
  BY <1>1, FS_Interval
<1>4. f \in Bijection(1..n, FreeIn(h))
  <2>1. f \in [1..n -> FreeIn(h)] /\ \A c \in FreeIn(h) : \E j \in 1..n : f[j] = c
    BY <1>1 DEF FreeIn
  <2> HIDE DEF f, n
  <2>2. QED
    BY <1>1, <2>1, BijectionIs
<1>5. IsFiniteSet(FreeIn(h)) /\ Cardinality(FreeIn(h)) = n
  BY <1>3, <1>4, FS_Bijection DEF ExistsBijection
<1>6. FreeIn(h) \in SUBSET C
  BY <1>1 DEF FreeIn
<1> HIDE DEF C, M, f, n
<1>7. n <= M /\ (n = M <=> FreeIn(h) = C)
  BY <1>2, <1>5, <1>6, FS_Subset
<1>8. (n = 0 <=> FreeIn(h) = {}) /\ C # {}
  BY <1>2, <1>5, FS_EmptySet
<1>9. QED
  BY <1>5, <1>7, <1>8 DEF C, M, f, n

\* g is h with the free cells F
FreeNow(g, h, s, F) ==
    /\ g \in HeaderRecord /\ CellsOK(s, g) /\ FreeIn(g) = F
    /\ g.cell_size = h.cell_size /\ g.prev = h.prev /\ g.next = h.next

\* pop_from_cell_list
LEMMA PoppedHeader ==
    ASSUME NEW s \in SlabAt, NEW h \in HeaderRecord, CellsOK(s, h), h.free_cells_cnt # 0,
           NEW g, g = [h EXCEPT !.free_list = Tail(@), !.free_cells_cnt = @ - 1]
    PROVE  /\ Head(h.free_list) \in FreeIn(h)
           /\ FreeNow(g, h, s, FreeIn(h) \ {Head(h.free_list)})
           /\ g.free_cells_cnt = h.free_cells_cnt - 1
<1> DEFINE n == h.free_cells_cnt
           C == Cells(s, h.cell_size)
           f == h.free_list
           t == Tail(f)
<1>1. /\ n \in Nat \ {0} /\ f \in [1..n -> C] /\ f \in Seq(Nat) /\ Len(f) = n
      /\ DOMAIN f = 1..n /\ h.cell_size \in CellSizes
      /\ \A i, j \in 1..n : f[i] = f[j] => i = j
  BY FreeList
<1>2. f # <<>>
  BY <1>1
<1>3. /\ t \in Seq(Nat) /\ Len(t) = n - 1 /\ Head(f) = f[1]
      /\ \A j \in 1..(n - 1) : t[j] = f[j + 1]
  BY <1>1, <1>2
<1>4. DOMAIN t = 1..(n - 1)
  BY <1>3
<1>5. /\ g.free_list = t /\ g.free_cells_cnt = n - 1
      /\ g.cell_size = h.cell_size /\ g.prev = h.prev /\ g.next = h.next
  BY DEF HeaderRecord
<1>6. g \in HeaderRecord
  <2>1. n - 1 \in Nat
    BY <1>1
  <2>2. QED
    BY <1>3, <2>1 DEF HeaderRecord
<1> HIDE DEF t
<1>7. \A j \in 1..(n - 1) : j + 1 \in 1..n /\ j + 1 # 1
  BY <1>1
<1>8. t \in Injection(1..(n - 1), C)
  <2> HIDE DEF n, f, C
  <2>1. \A j \in 1..(n - 1) : t[j] \in C
    BY <1>1, <1>3, <1>7
  <2>2. \A i, j \in 1..(n - 1) : t[i] = t[j] => i = j
    <3>1. SUFFICES ASSUME NEW i \in 1..(n - 1), NEW j \in 1..(n - 1), t[i] = t[j]
                   PROVE  i = j
      OBVIOUS
    <3>2. i + 1 = j + 1
      BY <1>1, <1>3, <1>7, <3>1
    <3>3. QED
      BY <3>2
  <2>3. t \in [1..(n - 1) -> C]
    BY <1>3, <1>4, <2>1
  <2>4. QED
    BY <2>2, <2>3 DEF Injection, IsInjective
<1>9. FreeIn(h) = {f[j] : j \in 1..n} /\ FreeIn(g) = {t[j] : j \in 1..(n - 1)}
  BY <1>5 DEF FreeIn
<1>10. FreeIn(g) = FreeIn(h) \ {Head(f)}
  <2>1. \A c \in FreeIn(g) : c \in FreeIn(h) /\ c # Head(f)
    <3>1. 1 \in 1..n
      BY <1>1
    <3>2. SUFFICES ASSUME NEW j \in 1..(n - 1)
                   PROVE  f[j + 1] \in FreeIn(h) /\ f[j + 1] # f[1]
      BY <1>3, <1>9
    <3>3. QED
      BY <1>1, <1>7, <1>9, <3>1
  <2>2. ASSUME NEW c \in FreeIn(h), c # Head(f)
        PROVE  c \in FreeIn(g)
    <3>1. PICK j \in 1..n : c = f[j]
      BY <1>9
    <3>2. j # 1
      BY <1>3, <2>2, <3>1
    <3>3. j - 1 \in 1..(n - 1) /\ (j - 1) + 1 = j
      BY <1>1, <3>2
    <3>4. t[j - 1] = f[j]
      BY <1>3, <3>3
    <3>5. QED
      BY <1>9, <3>1, <3>3, <3>4
  <2>3. QED
    BY <2>1, <2>2
<1>11. Head(f) \in FreeIn(h)
  <2>1. 1 \in 1..n
    BY <1>1
  <2>2. QED
    BY <1>3, <1>9, <2>1
<1>12. CellsOK(s, g)
  BY <1>1, <1>5, <1>8 DEF CellsOK
<1>13. QED
  BY <1>5, <1>6, <1>10, <1>11, <1>12 DEF FreeNow

\* push_to_cell_list of a cell that is not free
LEMMA PushedHeader ==
    ASSUME NEW s \in SlabAt, NEW h \in HeaderRecord, CellsOK(s, h),
           NEW c \in Cells(s, h.cell_size), c \notin FreeIn(h),
           NEW g, g = [h EXCEPT !.free_list = <<c>> \o @, !.free_cells_cnt = @ + 1]
    PROVE  /\ FreeNow(g, h, s, FreeIn(h) \cup {c})
           /\ g.free_cells_cnt = h.free_cells_cnt + 1
<1> DEFINE n == h.free_cells_cnt
           C == Cells(s, h.cell_size)
           f == h.free_list
           e == <<c>> \o f
<1>1. /\ n \in Nat /\ f \in [1..n -> C] /\ f \in Seq(Nat) /\ Len(f) = n
      /\ DOMAIN f = 1..n /\ h.cell_size \in CellSizes
      /\ \A i, j \in 1..n : f[i] = f[j] => i = j
  BY FreeList
<1>2. c \in Nat
  BY <1>1, CellPlace
<1>3. /\ e \in Seq(Nat) /\ Len(e) = n + 1 /\ e[1] = c
      /\ \A j \in 1..(n + 1) : j # 1 => e[j] = f[j - 1]
  BY <1>1, <1>2
<1>4. DOMAIN e = 1..(n + 1)
  BY <1>3
<1>5. /\ g.free_list = e /\ g.free_cells_cnt = n + 1
      /\ g.cell_size = h.cell_size /\ g.prev = h.prev /\ g.next = h.next
  BY DEF HeaderRecord
<1>6. g \in HeaderRecord
  <2>1. n + 1 \in Nat
    BY <1>1
  <2>2. QED
    BY <1>3, <2>1 DEF HeaderRecord
<1> HIDE DEF e
<1>7. \A j \in 1..(n + 1) : j # 1 => j - 1 \in 1..n
  BY <1>1
<1>8. \A j \in 1..n : f[j] \in FreeIn(h) /\ f[j] # c
  BY DEF FreeIn
<1>9. e \in Injection(1..(n + 1), C)
  <2>1. \A j \in 1..(n + 1) : e[j] \in C
    BY <1>1, <1>3, <1>7
  <2>2. \A i, j \in 1..(n + 1) : e[i] = e[j] => i = j
    <3>1. SUFFICES ASSUME NEW i \in 1..(n + 1), NEW j \in 1..(n + 1), e[i] = e[j]
                   PROVE  i = j
      OBVIOUS
    <3>2. CASE i = 1 \/ j = 1
      BY <1>3, <1>7, <1>8, <3>1, <3>2
    <3>3. CASE i # 1 /\ j # 1
      <4>1. i - 1 = j - 1
        BY <1>1, <1>3, <1>7, <3>1, <3>3
      <4>2. QED
        BY <4>1
    <3>4. QED
      BY <3>2, <3>3
  <2>3. e \in [1..(n + 1) -> C]
    BY <1>3, <1>4, <2>1
  <2>4. QED
    BY <2>2, <2>3 DEF Injection, IsInjective
<1>10. FreeIn(h) = {f[j] : j \in 1..n} /\ FreeIn(g) = {e[j] : j \in 1..(n + 1)}
  BY <1>5 DEF FreeIn
<1>11. FreeIn(g) = FreeIn(h) \cup {c}
  <2>1. \A d \in FreeIn(g) : d \in FreeIn(h) \/ d = c
    BY <1>3, <1>7, <1>8, <1>10
  <2>2. ASSUME NEW d \in FreeIn(h)
        PROVE  d \in FreeIn(g)
    <3>1. PICK j \in 1..n : d = f[j]
      BY <1>10
    <3>2. j + 1 \in 1..(n + 1) /\ j + 1 # 1 /\ (j + 1) - 1 = j
      BY <1>1
    <3>3. e[j + 1] = d
      BY <1>3, <3>1, <3>2
    <3>4. QED
      BY <1>10, <3>2, <3>3
  <2>3. c \in FreeIn(g)
    <3>1. 1 \in 1..(n + 1)
      BY <1>1
    <3>2. QED
      BY <1>3, <1>10, <3>1
  <2>4. QED
    BY <2>1, <2>2, <2>3
<1>12. CellsOK(s, g)
  BY <1>1, <1>5, <1>9 DEF CellsOK
<1>13. QED
  BY <1>5, <1>6, <1>11, <1>12 DEF FreeNow

-----------------------------------------------------------------------------
(* What smalloc and sfree do to an allocator.                              *)

\* y is x with g for the header of s, whose links are the same
Put(y, x, s, g) ==
    /\ y \in Allocators /\ DOMAIN y.mem = DOMAIN x.mem
    /\ y.mem[s] = g
    /\ \A t \in DOMAIN x.mem : t # s => y.mem[t] = x.mem[t]
    /\ \A l \in Names : y[l] = x[l]
    /\ \A place : DOMAIN place = DOMAIN x.mem /\ Listed(x, place) => Listed(y, place)

\* Such an assignment
LEMMA HeaderPut ==
    ASSUME NEW x \in Allocators, NEW s \in DOMAIN x.mem, NEW g \in HeaderRecord,
           g.prev = x.mem[s].prev, g.next = x.mem[s].next,
           NEW y, y = [x EXCEPT !.mem = [x.mem EXCEPT ![s] = g]]
    PROVE  Put(y, x, s, g)
<1> DEFINE D == DOMAIN x.mem
           m == [x.mem EXCEPT ![s] = g]
<1>1. D \in SUBSET SlabAt /\ x.mem \in [D -> HeaderRecord]
  BY AllocatorFields
<1>2. m \in [D -> HeaderRecord] /\ m[s] = g /\ \A t \in D : t # s => m[t] = x.mem[t]
  BY <1>1
<1>3. /\ y.mem = m
      /\ y["empty"] = x["empty"] /\ y["wip"] = x["wip"] /\ y["filled"] = x["filled"]
  BY DEF Allocators
<1>4. y \in Allocators
  <2>1. m \in Memories
    BY <1>1, <1>2 DEF Memories
  <2>2. y = [x EXCEPT !.mem = m]
    OBVIOUS
  <2> HIDE DEF m
  <2>3. QED
    BY <2>1, <2>2 DEF Allocators
<1> HIDE DEF m
<1>5. \A l \in Names : y[l] = x[l]
  BY <1>3 DEF Names
<1>6. \A t \in D : m[t].next = x.mem[t].next /\ m[t].prev = x.mem[t].prev
  BY <1>2
<1>7. ASSUME NEW place, DOMAIN place = D, Listed(x, place)
      PROVE  Listed(y, place)
  <2>1. SUFFICES ASSUME NEW l \in Names, NEW i \in Index
                 PROVE  List(m, x[l][i], At(place, l, i))
    BY <1>3, <1>5 DEF Listed
  <2>2. List(x.mem, x[l][i], At(place, l, i))
    BY <1>7 DEF Listed
  <2>3. \A t \in At(place, l, i) : m[t].next = x.mem[t].next /\ m[t].prev = x.mem[t].prev
    BY <1>6, <1>7 DEF At
  <2>4. QED
    BY <2>2, <2>3, ListSame
<1>8. DOMAIN y.mem = D
  BY <1>2, <1>3
<1>9. QED
  BY <1>2, <1>3, <1>4, <1>5, <1>7, <1>8 DEF Put

\* pop_from_cell_list on slab s
LEMMA PoppedCellIs ==
    ASSUME NEW x \in Allocators, NEW s \in DOMAIN x.mem, CellsOK(s, x.mem[s]),
           x.mem[s].free_cells_cnt # 0
    PROVE  LET h == x.mem[s]
           IN  /\ Head(h.free_list) \in FreeIn(h)
               /\ \E g : /\ Put(PoppedCell(x, s), x, s, g)
                         /\ FreeNow(g, h, s, FreeIn(h) \ {Head(h.free_list)})
                         /\ g.free_cells_cnt = h.free_cells_cnt - 1
<1> DEFINE h == x.mem[s]
           g == [h EXCEPT !.free_list = Tail(@), !.free_cells_cnt = @ - 1]
<1>1. s \in SlabAt /\ h \in HeaderRecord
  BY AllocatorFields, Fields
<1>2. /\ Head(h.free_list) \in FreeIn(h)
      /\ FreeNow(g, h, s, FreeIn(h) \ {Head(h.free_list)})
      /\ g.free_cells_cnt = h.free_cells_cnt - 1
  <2> HIDE DEF h
  <2>1. h.free_cells_cnt # 0 /\ CellsOK(s, h)
    BY DEF h
  <2>2. QED
    BY <1>1, <2>1, PoppedHeader
<1>3. PoppedCell(x, s) = [x EXCEPT !.mem = [x.mem EXCEPT ![s] = g]]
  BY <1>1 DEF PoppedCell, Allocators
<1>4. g \in HeaderRecord /\ g.prev = h.prev /\ g.next = h.next
  BY <1>2 DEF FreeNow
<1> HIDE DEF g
<1>5. Put(PoppedCell(x, s), x, s, g)
  BY <1>3, <1>4, HeaderPut
<1>6. QED
  BY <1>2, <1>5

\* push_to_cell_list of cell c on slab s
LEMMA PushedIs ==
    ASSUME NEW x \in Allocators, NEW s \in DOMAIN x.mem, CellsOK(s, x.mem[s]),
           NEW c \in Cells(s, x.mem[s].cell_size), c \notin FreeIn(x.mem[s])
    PROVE  LET h == x.mem[s]
           IN  \E g : /\ Put(Pushed(x, s, c), x, s, g)
                      /\ FreeNow(g, h, s, FreeIn(h) \cup {c})
                      /\ g.free_cells_cnt = h.free_cells_cnt + 1
<1> DEFINE h == x.mem[s]
           g == [h EXCEPT !.free_list = <<c>> \o @, !.free_cells_cnt = @ + 1]
<1>1. s \in SlabAt /\ h \in HeaderRecord
  BY AllocatorFields, Fields
<1>2. /\ FreeNow(g, h, s, FreeIn(h) \cup {c})
      /\ g.free_cells_cnt = h.free_cells_cnt + 1
  <2> HIDE DEF h
  <2>1. c \in Cells(s, h.cell_size) /\ c \notin FreeIn(h) /\ CellsOK(s, h)
    BY DEF h
  <2>2. QED
    BY <1>1, <2>1, PushedHeader
<1>3. Pushed(x, s, c) = [x EXCEPT !.mem = [x.mem EXCEPT ![s] = g]]
  BY <1>1 DEF Pushed, Allocators
<1>4. g \in HeaderRecord /\ g.prev = h.prev /\ g.next = h.next
  BY <1>2 DEF FreeNow
<1> HIDE DEF g
<1>5. Put(Pushed(x, s, c), x, s, g)
  BY <1>3, <1>4, HeaderPut
<1>6. QED
  BY <1>2, <1>5

\* Where a slab belongs
LEMMA HomeIs ==
    ASSUME NEW s \in SlabAt, NEW h \in HeaderRecord, CellsOK(s, h)
    PROVE  /\ \E l \in Names, i \in Index : Home(h) = <<l, i>>
           /\ \A l \in Names, i \in Index : Home(h) = <<l, i>> => h.cell_size = MinCell * 2^i
           /\ \A i \in Index : h.cell_size = MinCell * 2^i =>
                  Home(h) = << IF h.free_cells_cnt = MaxCells(h.cell_size) THEN "empty"
                               ELSE IF h.free_cells_cnt = 0 THEN "filled" ELSE "wip", i >>
<1>1. PICK j \in Index : h.cell_size = MinCell * 2^j
  BY DEF CellsOK, CellSizes
<1>2. \A i \in Index : h.cell_size = MinCell * 2^i => i = j
  BY <1>1, IndexOfSize
<1>3. IndexFromCellSize(h.cell_size) = j
  BY <1>1, IndexOfSize
<1> DEFINE l == IF h.free_cells_cnt = MaxCells(h.cell_size) THEN "empty"
                ELSE IF h.free_cells_cnt = 0 THEN "filled" ELSE "wip"
<1>4. Home(h) = <<l, j>> /\ l \in Names
  BY <1>3 DEF Home, IsSlabEmpty, IsSlabFilled, Names
<1> HIDE DEF l
<1>5. \A k \in Names, i \in Index : Home(h) = <<k, i>> => i = j
  BY <1>4
<1>6. QED
  BY <1>1, <1>2, <1>4, <1>5 DEF l

\* Memories with the same cells have the same free cells and the same places for slabs
LEMMA SameCellsSame ==
    ASSUME NEW D, NEW g \in [D -> HeaderRecord], NEW h \in [D -> HeaderRecord], SameCells(g, h, D)
    PROVE  \A t \in D : /\ FreeIn(g[t]) = FreeIn(h[t]) /\ g[t].cell_size = h[t].cell_size
                        /\ g[t].free_cells_cnt = h[t].free_cells_cnt
                        /\ Home(g[t]) = Home(h[t])
                        /\ CellsOK(t, g[t]) <=> CellsOK(t, h[t])
BY DEF SameCells, FreeIn, Home, CellsOK, IsSlabEmpty, IsSlabFilled

\* z is x with an empty slab s of cell size cs in front of the empty slabs of index i
NewlyThere(z, x, i, cs, s) ==
    /\ Good(z)
    /\ DOMAIN z.mem = DOMAIN x.mem \cup {s}
    /\ SameCells(z.mem, x.mem, DOMAIN x.mem)
    /\ z.mem[s].cell_size = cs /\ FreeIn(z.mem[s]) = Cells(s, cs)
    /\ z.empty[i] = s

\* new_slab lays out a slab whose cells are all free
LEMMA NewSlabIs ==
    ASSUME NEW s \in SlabAt, NEW cs \in CellSizes, NEW h, h = NewSlab(cs, s)
    PROVE  /\ h \in HeaderRecord /\ CellsOK(s, h) /\ h.prev = Null /\ h.next = Null
           /\ h.cell_size = cs /\ FreeIn(h) = Cells(s, cs) /\ h.free_cells_cnt = MaxCells(cs)
<1> DEFINE M == MaxCells(cs)
           f == [j \in 1..M |-> s + Reserved(cs) + (j - 1) * cs]
<1>1. M \in Nat /\ cs \in Nat
  BY CellSizeFits DEF SizeFits
<1>2. /\ h.cell_size = cs /\ h.free_list = f /\ h.free_cells_cnt = M
      /\ h.prev = Null /\ h.next = Null
      /\ h = [cell_size |-> cs, free_list |-> f, free_cells_cnt |-> M, prev |-> Null, next |-> Null]
  BY DEF NewSlab
<1>3. \A j \in 1..M : f[j] = Cell(s, cs, j)
  BY DEF Cell
<1>4. f = [j \in 1..M |-> f[j]]
  OBVIOUS
<1> HIDE DEF f
<1>5. \A j \in 1..M : f[j] \in Cells(s, cs)
  BY <1>3 DEF Cells
<1>6. f \in [1..M -> Cells(s, cs)]
  BY <1>4, <1>5
<1>7. \A c \in Cells(s, cs) : c \in Nat
  BY CellPlace
<1>8. f \in Seq(Nat)
  <2>1. f \in [1..M -> Nat]
    BY <1>6, <1>7
  <2> HIDE DEF M
  <2>2. QED
    BY <1>1, <2>1
<1>9. Null \in Pointer
  BY DEF Pointer
<1>10. h \in HeaderRecord
  BY <1>1, <1>2, <1>8, <1>9 DEF HeaderRecord
<1>11. f \in Surjection(1..M, Cells(s, cs))
  BY <1>3, <1>6 DEF Cells, Surjection
<1>12. f \in Injection(1..M, Cells(s, cs))
  <2>1. IsFiniteSet(1..M) /\ Cardinality(1..M) = M
    BY <1>1, FS_Interval
  <2>2. IsFiniteSet(Cells(s, cs)) /\ Cardinality(Cells(s, cs)) = M
    BY CellsCount
  <2>3. QED
    BY <1>11, <2>1, <2>2, FS_Surjection
<1>13. CellsOK(s, h)
  BY <1>2, <1>12 DEF CellsOK
<1>14. FreeIn(h) = Cells(s, cs)
  BY <1>2, <1>3 DEF FreeIn, Cells
<1>15. QED
  BY <1>2, <1>10, <1>13, <1>14

\* WithNewSlab does that
LEMMA NewSlabGood ==
    ASSUME NEW x, Good(x), NEW i \in Index, NEW cs, cs = MinCell * 2^i,
           NEW s \in SlabAt, s \notin DOMAIN x.mem
    PROVE  NewlyThere(WithNewSlab(x, i, cs, s), x, i, cs, s)
<1> DEFINE D == DOMAIN x.mem
           E == D \cup {s}
           m == [t \in E |-> IF t = s THEN NewSlab(cs, s) ELSE x.mem[t]]
           p == PushedTo(m, x.empty[i], s)
           z == [x EXCEPT !.mem = p.mem, !.empty[i] = p.head]
           S == At(Homes(x.mem), "empty", i)
           new == Homes(z.mem)
<1>1. WithNewSlab(x, i, cs, s) = z
  BY DEF WithNewSlab
<1>2. /\ x \in Allocators /\ Listed(x, Homes(x.mem)) /\ \A t \in D : CellsOK(t, x.mem[t])
  BY DEF Good
<1>3. D \in SUBSET SlabAt /\ x.mem \in [D -> HeaderRecord] /\ E \in SUBSET SlabAt
  BY <1>2, AllocatorFields
<1>4. cs \in CellSizes
  BY IndexOfSize
<1>5. /\ m[s] \in HeaderRecord /\ CellsOK(s, m[s]) /\ m[s].prev = Null
      /\ m[s].cell_size = cs /\ FreeIn(m[s]) = Cells(s, cs)
      /\ m[s].free_cells_cnt = MaxCells(cs)
  <2>1. m[s] = NewSlab(cs, s)
    OBVIOUS
  <2> HIDE DEF m
  <2>2. QED
    BY <1>4, <2>1, NewSlabIs
<1>6. \A t \in D : m[t] = x.mem[t] /\ t # s
  OBVIOUS
<1>7. m \in [E -> HeaderRecord]
  <2>1. \A t \in E : m[t] \in HeaderRecord
    BY <1>3, <1>5, <1>6
  <2>2. m = [t \in E |-> m[t]]
    OBVIOUS
  <2> HIDE DEF m
  <2>3. QED
    BY <2>1, <2>2
<1> HIDE DEF m
<1>8. DOMAIN Homes(x.mem) = D /\ \A t \in D : Homes(x.mem)[t] = Home(x.mem[t])
  BY DEF Homes
<1>9. "empty" \in Names /\ x["empty"] = x.empty
  BY DEF Names
<1>10. ASSUME NEW l \in Names, NEW j \in Index
       PROVE  List(m, x[l][j], At(Homes(x.mem), l, j)) /\ At(Homes(x.mem), l, j) \in SUBSET D
  <2>1. List(x.mem, x[l][j], At(Homes(x.mem), l, j))
    BY <1>2 DEF Listed
  <2>2. At(Homes(x.mem), l, j) \in SUBSET D
    BY <1>8 DEF At
  <2>3. \A t \in At(Homes(x.mem), l, j) : m[t].next = x.mem[t].next /\ m[t].prev = x.mem[t].prev
    BY <1>6, <2>2
  <2>4. QED
    BY <2>1, <2>2, <2>3, ListSame
<1>11. List(m, x.empty[i], S) /\ S \in SUBSET E /\ s \notin S
  BY <1>9, <1>10
<1>12. WithSlab(p, m, E, S, s)
  <2> HIDE DEF E, S
  <2>1. s \in E
    BY DEF E
  <2>2. QED
    BY <1>3, <1>5, <1>7, <1>11, <2>1, PushedList
<1> HIDE DEF p
<1>13. /\ p.mem \in [E -> HeaderRecord] /\ SameCells(p.mem, m, E)
       /\ List(p.mem, p.head, S \cup {s}) /\ p.head = s
       /\ OthersStay(p.mem, m, E, S \cup {s})
  BY <1>12 DEF WithSlab
<1>14. /\ z.mem = p.mem /\ z.empty = [x.empty EXCEPT ![i] = s]
       /\ z.wip = x.wip /\ z.filled = x.filled
       /\ z["empty"] = z.empty /\ z["wip"] = z.wip /\ z["filled"] = z.filled
       /\ x["empty"] = x.empty /\ x["wip"] = x.wip /\ x["filled"] = x.filled
  BY <1>2, <1>13 DEF Allocators
<1>15. /\ x.empty \in [Index -> Pointer] /\ s \in Pointer
  BY <1>2, AllocatorFields DEF Pointer
<1>16. z \in Allocators
  <2>1. p.mem \in Memories
    BY <1>3, <1>13 DEF Memories
  <2>2. QED
    BY <1>2, <1>13, <1>15, <2>1 DEF Allocators
<1> HIDE DEF z
<1>17. \A l \in Names, j \in Index : z[l][j] = IF l = "empty" /\ j = i THEN s ELSE x[l][j]
  <2>1. \A j \in Index : z["empty"][j] = IF j = i THEN s ELSE x["empty"][j]
    BY <1>14, <1>15
  <2>2. QED
    BY <1>14, <2>1 DEF Names
<1>18. \A t \in E : /\ FreeIn(p.mem[t]) = FreeIn(m[t]) /\ p.mem[t].cell_size = m[t].cell_size
                    /\ p.mem[t].free_cells_cnt = m[t].free_cells_cnt
                    /\ Home(p.mem[t]) = Home(m[t])
                    /\ CellsOK(t, p.mem[t]) <=> CellsOK(t, m[t])
  BY <1>7, <1>13, SameCellsSame
<1>19. Home(m[s]) = <<"empty", i>>
  BY <1>5, HomeIs
<1>20. DOMAIN new = E /\ \A t \in E : new[t] = IF t = s THEN <<"empty", i>> ELSE Homes(x.mem)[t]
  <2>1. DOMAIN z.mem = E
    BY <1>13, <1>14
  <2>2. QED
    BY <1>6, <1>8, <1>14, <1>18, <1>19, <2>1 DEF Homes
<1> HIDE DEF new
<1>21. ASSUME NEW l \in Names, NEW j \in Index
       PROVE  List(z.mem, z[l][j], At(new, l, j))
  <2>1. CASE l = "empty" /\ j = i
    <3>1. At(new, l, j) = S \cup {s}
      BY <1>8, <1>20, <2>1 DEF At
    <3>2. QED
      BY <1>13, <1>14, <1>17, <2>1, <3>1
  <2>2. CASE ~(l = "empty" /\ j = i)
    <3>1. At(new, l, j) = At(Homes(x.mem), l, j)
      BY <1>8, <1>20, <2>2 DEF At
    <3>2. List(m, x[l][j], At(new, l, j)) /\ At(new, l, j) \in SUBSET E
      BY <1>10, <3>1
    <3>3. At(new, l, j) \cap (S \cup {s}) = {}
      BY <1>8, <2>2, <3>1 DEF At
    <3>4. x[l][j] \in Pointer
      BY <1>2, AllocatorFields
    <3>5. List(p.mem, x[l][j], At(new, l, j))
      BY <1>13, <3>2, <3>3, <3>4 DEF OthersStay
    <3>6. QED
      BY <1>14, <1>17, <2>2, <3>5
  <2>3. QED
    BY <2>1, <2>2
<1>22. Listed(z, new)
  BY <1>21 DEF Listed
<1>23. \A t \in DOMAIN z.mem : CellsOK(t, z.mem[t])
  BY <1>2, <1>5, <1>6, <1>13, <1>14, <1>18
<1>24. Good(z)
  BY <1>16, <1>22, <1>23 DEF Good, new
<1>25. SameCells(z.mem, x.mem, D)
  BY <1>6, <1>13, <1>14 DEF SameCells
<1>26. z.mem[s].cell_size = cs /\ FreeIn(z.mem[s]) = Cells(s, cs)
  BY <1>5, <1>14, <1>18
<1>27. z.empty[i] = s
  BY <1>14, <1>15
<1>28. DOMAIN z.mem = E
  BY <1>13, <1>14
<1>29. NewlyThere(z, x, i, cs, s)
  BY <1>24, <1>25, <1>26, <1>27, <1>28 DEF NewlyThere
<1>30. QED
  BY <1>1, <1>29 DEF z

\* w is z with slab s, which has free cells, in front of the wip slabs of index i
WipFirst(w, z, i, s) ==
    /\ w \in Allocators /\ DOMAIN w.mem = DOMAIN z.mem
    /\ SameCells(w.mem, z.mem, DOMAIN z.mem)
    /\ s \in DOMAIN z.mem /\ w.wip[i] = s
    /\ z.mem[s].cell_size = MinCell * 2^i /\ z.mem[s].free_cells_cnt # 0
    /\ Listed(w, [Homes(z.mem) EXCEPT ![s] = <<"wip", i>>])

\* WithWip sees to that, if there is a wip or an empty slab
LEMMA WithWipIs ==
    ASSUME NEW z, Good(z), NEW i \in Index, ~(z.wip[i] = Null /\ z.empty[i] = Null),
           NEW w, w = WithWip(z, i)
    PROVE  WipFirst(w, z, i, w.wip[i])
<1> DEFINE D == DOMAIN z.mem
           place == Homes(z.mem)
<1>1. z \in Allocators /\ Listed(z, place) /\ \A t \in D : CellsOK(t, z.mem[t])
  BY DEF Good
<1>2. D \in SUBSET SlabAt /\ z.mem \in [D -> HeaderRecord]
  BY <1>1, AllocatorFields
<1>3. DOMAIN place = D /\ \A t \in D : place[t] = Home(z.mem[t])
  BY DEF Homes
<1> HIDE DEF place
<1>4. "wip" \in Names /\ "empty" \in Names /\ z["wip"] = z.wip /\ z["empty"] = z.empty
  BY DEF Names
<1>5. ASSUME NEW l \in Names, NEW s, s = z[l][i], s # Null
      PROVE  s \in D /\ place[s] = <<l, i>> /\ z.mem[s].cell_size = MinCell * 2^i
  <2>1. List(z.mem, s, At(place, l, i)) /\ At(place, l, i) \in SUBSET D
    BY <1>1, <1>3, <1>5 DEF Listed, At
  <2>2. s \in At(place, l, i)
    BY <1>2, <1>5, <2>1, ListHead
  <2>3. s \in D /\ place[s] = <<l, i>>
    BY <1>3, <2>2 DEF At
  <2>4. Home(z.mem[s]) = <<l, i>>
    BY <1>3, <2>3
  <2>5. z.mem[s] \in HeaderRecord /\ CellsOK(s, z.mem[s]) /\ s \in SlabAt
    BY <1>1, <1>2, <2>3
  <2>6. z.mem[s].cell_size = MinCell * 2^i
    BY <2>4, <2>5, HomeIs
  <2>7. QED
    BY <2>3, <2>6
<1>6. ASSUME NEW s \in D, NEW l \in {"wip", "empty"}, place[s] = <<l, i>>
      PROVE  z.mem[s].free_cells_cnt # 0
  <2>1. z.mem[s] \in HeaderRecord /\ CellsOK(s, z.mem[s]) /\ s \in SlabAt
    BY <1>1, <1>2
  <2> DEFINE h == z.mem[s]
  <2>2. Home(h) = <<l, i>>
    BY <1>3, <1>6
  <2>3. h.cell_size = MinCell * 2^i
    BY <2>1, <2>2, <1>4, HomeIs
  <2>4. Home(h) = << IF h.free_cells_cnt = MaxCells(h.cell_size) THEN "empty"
                     ELSE IF h.free_cells_cnt = 0 THEN "filled" ELSE "wip", i >>
    BY <2>1, <2>3, HomeIs
  <2>5. MaxCells(h.cell_size) # 0
    BY <2>1, CellSizeFits DEF CellsOK, SizeFits
  <2> HIDE DEF h
  <2>6. h.free_cells_cnt # 0
    BY <2>2, <2>4, <2>5
  <2>7. QED
    BY <2>6 DEF h
<1>7. CASE z.wip[i] # Null
  <2> DEFINE s == z.wip[i]
  <2>1. w = z
    BY <1>7 DEF WithWip
  <2>2. s \in D /\ place[s] = <<"wip", i>> /\ z.mem[s].cell_size = MinCell * 2^i
    BY <1>4, <1>5, <1>7
  <2>3. z.mem[s].free_cells_cnt # 0
    BY <1>6, <2>2
  <2>4. [place EXCEPT ![s] = <<"wip", i>>] = place
    <3>1. place = [t \in D |-> place[t]]
      BY DEF place, Homes
    <3> DEFINE new == [place EXCEPT ![s] = <<"wip", i>>]
    <3>2. new = [t \in D |-> new[t]]
      BY <3>1
    <3>3. \A t \in D : new[t] = place[t]
      BY <1>3, <2>2
    <3> HIDE DEF new
    <3>4. new = place
      BY <3>1, <3>2, <3>3
    <3>5. QED
      BY <3>4 DEF new
  <2>5. SameCells(z.mem, z.mem, D)
    BY DEF SameCells
  <2>6. QED
    BY <1>1, <2>1, <2>2, <2>3, <2>4, <2>5 DEF WipFirst, place
<1>8. CASE z.wip[i] = Null
  <2> DEFINE s == z.empty[i]
  <2>1. w = Moved(z, i, s, "empty", "wip")
    BY <1>8 DEF WithWip
  <2>2. s \in D /\ place[s] = <<"empty", i>> /\ z.mem[s].cell_size = MinCell * 2^i
    BY <1>4, <1>5, <1>8
  <2>3. z.mem[s].free_cells_cnt # 0
    BY <1>6, <2>2
  <2>4. <<"empty", "wip">> \in Moves
    BY DEF Moves
  <2> HIDE DEF s
  <2>5. Rehoused(w, z, place, s, "wip", i)
    BY <1>1, <1>3, <2>1, <2>2, <2>4, MovedPlace
  <2>6. /\ w \in Allocators /\ DOMAIN w.mem = D /\ SameCells(w.mem, z.mem, D)
        /\ Listed(w, [place EXCEPT ![s] = <<"wip", i>>]) /\ w.wip[i] = s
    BY <2>5 DEF Rehoused
  <2>7. QED
    BY <2>2, <2>3, <2>6 DEF WipFirst, place
<1>9. QED
  BY <1>7, <1>8

\* y is z with one free cell less, c, of slab s
CellTaken(y, z, s, c) ==
    /\ Good(y)
    /\ DOMAIN y.mem = DOMAIN z.mem /\ s \in DOMAIN z.mem
    /\ c \in FreeIn(z.mem[s])
    /\ \A t \in DOMAIN z.mem :
           /\ y.mem[t].cell_size = z.mem[t].cell_size
           /\ FreeIn(y.mem[t]) = IF t = s THEN FreeIn(z.mem[s]) \ {c} ELSE FreeIn(z.mem[t])

\* smalloc takes a cell off the first wip slab and moves the slab when it is filled
LEMMA PoppedGood ==
    ASSUME NEW z, Good(z), NEW i \in Index, NEW w, NEW s, WipFirst(w, z, i, s)
    PROVE  CellTaken(Popped(w, i), z, s, Head(w.mem[s].free_list))
<1> DEFINE D == DOMAIN z.mem
           c == Head(w.mem[s].free_list)
           v == PoppedCell(w, s)
           y == Popped(w, i)
           place == [Homes(z.mem) EXCEPT ![s] = <<"wip", i>>]
<1>1. /\ z \in Allocators /\ \A t \in D : CellsOK(t, z.mem[t])
  BY DEF Good
<1>2. D \in SUBSET SlabAt /\ z.mem \in [D -> HeaderRecord]
  BY <1>1, AllocatorFields
<1>3. /\ w \in Allocators /\ DOMAIN w.mem = D /\ SameCells(w.mem, z.mem, D)
      /\ s \in D /\ w.wip[i] = s
      /\ z.mem[s].cell_size = MinCell * 2^i /\ z.mem[s].free_cells_cnt # 0
      /\ Listed(w, place)
  BY DEF WipFirst
<1>4. w.mem \in [D -> HeaderRecord]
  BY <1>3, AllocatorFields
<1>5. \A t \in D : /\ FreeIn(w.mem[t]) = FreeIn(z.mem[t]) /\ w.mem[t].cell_size = z.mem[t].cell_size
                   /\ w.mem[t].free_cells_cnt = z.mem[t].free_cells_cnt
                   /\ Home(w.mem[t]) = Home(z.mem[t])
                   /\ CellsOK(t, w.mem[t]) <=> CellsOK(t, z.mem[t])
  BY <1>2, <1>3, <1>4, SameCellsSame
<1>6. CellsOK(s, w.mem[s]) /\ w.mem[s].free_cells_cnt # 0 /\ s \in DOMAIN w.mem
  BY <1>1, <1>3, <1>5
<1>7. c \in FreeIn(w.mem[s])
  BY <1>3, <1>6, PoppedCellIs
<1>8. PICK g : /\ Put(v, w, s, g) /\ FreeNow(g, w.mem[s], s, FreeIn(w.mem[s]) \ {c})
               /\ g.free_cells_cnt = w.mem[s].free_cells_cnt - 1
  BY <1>3, <1>6, PoppedCellIs
<1>9. /\ v \in Allocators /\ DOMAIN v.mem = D /\ v.mem[s] = g
      /\ \A t \in D : t # s => v.mem[t] = w.mem[t]
      /\ \A l \in Names : v[l] = w[l]
      /\ \A pl : DOMAIN pl = D /\ Listed(w, pl) => Listed(v, pl)
  BY <1>3, <1>8 DEF Put
<1>10. /\ g \in HeaderRecord /\ CellsOK(s, g) /\ FreeIn(g) = FreeIn(z.mem[s]) \ {c}
       /\ g.cell_size = MinCell * 2^i
       /\ g.free_cells_cnt = z.mem[s].free_cells_cnt - 1
  BY <1>3, <1>5, <1>8 DEF FreeNow
<1>11. DOMAIN place = D /\ \A t \in D : place[t] = IF t = s THEN <<"wip", i>> ELSE Home(z.mem[t])
  BY DEF Homes
<1> HIDE DEF place, v
<1>12. Listed(v, place)
  BY <1>3, <1>9, <1>11
<1>13. v.mem \in [D -> HeaderRecord]
  BY <1>9, AllocatorFields
<1>14. \A t \in D : CellsOK(t, v.mem[t])
  BY <1>1, <1>5, <1>9, <1>10
<1>15. \A t \in D : /\ v.mem[t].cell_size = z.mem[t].cell_size
                    /\ FreeIn(v.mem[t]) = IF t = s THEN FreeIn(z.mem[s]) \ {c} ELSE FreeIn(z.mem[t])
  BY <1>3, <1>5, <1>9, <1>10
<1>16. \A t \in D : t # s => Home(v.mem[t]) = place[t]
  BY <1>5, <1>9, <1>11
<1>17. z.mem[s].free_cells_cnt \in Nat /\ s \in SlabAt /\ z.mem[s] \in HeaderRecord
  BY <1>2, <1>3, Fields
<1>18. z.mem[s].free_cells_cnt <= MaxCells(g.cell_size) /\ MaxCells(g.cell_size) \in Nat
  <2>1. z.mem[s].free_cells_cnt <= MaxCells(z.mem[s].cell_size)
    BY <1>1, <1>3, <1>17, FreeCount
  <2>2. MaxCells(z.mem[s].cell_size) \in Nat
    BY <1>1, <1>3, CellSizeFits DEF CellsOK, SizeFits
  <2>3. QED
    BY <1>3, <1>10, <2>1, <2>2
<1>19. g.free_cells_cnt \in Nat /\ g.free_cells_cnt # MaxCells(g.cell_size)
  BY <1>3, <1>10, <1>17, <1>18
<1>20. Home(g) = << IF g.free_cells_cnt = 0 THEN "filled" ELSE "wip", i >>
  BY <1>10, <1>17, <1>19, HomeIs
<1>21. y = IF g.free_cells_cnt = 0 THEN Moved(v, i, s, "wip", "filled") ELSE v
  BY <1>3, <1>9 DEF Popped, IsSlabFilled, v
<1>22. c \in FreeIn(z.mem[s])
  BY <1>3, <1>5, <1>7
<1> HIDE DEF c, y
<1>23. CASE g.free_cells_cnt # 0
  <2>1. y = v
    BY <1>21, <1>23
  <2>2. place = Homes(v.mem)
    <3>1. \A t \in D : Homes(v.mem)[t] = place[t]
      BY <1>9, <1>11, <1>16, <1>20, <1>23 DEF Homes
    <3>2. place = [t \in D |-> place[t]]
      BY <1>11 DEF place
    <3>3. Homes(v.mem) = [t \in D |-> Homes(v.mem)[t]]
      BY <1>9 DEF Homes
    <3>4. QED
      BY <3>1, <3>2, <3>3
  <2>3. Good(y)
    BY <1>9, <1>12, <1>14, <2>1, <2>2 DEF Good
  <2>4. QED
    BY <1>3, <1>9, <1>15, <1>22, <2>1, <2>3 DEF CellTaken, c, y
<1>24. CASE g.free_cells_cnt = 0
  <2>1. y = Moved(v, i, s, "wip", "filled")
    BY <1>21, <1>24
  <2>2. <<"wip", "filled">> \in Moves
    BY DEF Moves
  <2>3. Rehoused(y, v, place, s, "filled", i)
    BY <1>3, <1>9, <1>11, <1>12, <2>1, <2>2, MovedPlace
  <2> DEFINE new == [place EXCEPT ![s] = <<"filled", i>>]
  <2>4. /\ y \in Allocators /\ DOMAIN y.mem = D /\ SameCells(y.mem, v.mem, D) /\ Listed(y, new)
    BY <1>9, <2>3 DEF Rehoused
  <2>5. y.mem \in [D -> HeaderRecord]
    BY <2>4, AllocatorFields
  <2>6. \A t \in D : /\ FreeIn(y.mem[t]) = FreeIn(v.mem[t]) /\ y.mem[t].cell_size = v.mem[t].cell_size
                     /\ Home(y.mem[t]) = Home(v.mem[t])
                     /\ CellsOK(t, y.mem[t]) <=> CellsOK(t, v.mem[t])
    BY <1>13, <2>4, <2>5, SameCellsSame
  <2>7. new = Homes(y.mem)
    <3>1. \A t \in D : new[t] = IF t = s THEN <<"filled", i>> ELSE place[t]
      BY <1>11
    <3>2. \A t \in D : Homes(y.mem)[t] = Home(v.mem[t])
      BY <2>4, <2>6 DEF Homes
    <3>3. \A t \in D : Homes(y.mem)[t] = new[t]
      BY <1>9, <1>16, <1>20, <1>24, <3>1, <3>2
    <3>4. new = [t \in D |-> new[t]]
      BY <1>11
    <3>5. Homes(y.mem) = [t \in D |-> Homes(y.mem)[t]]
      BY <2>4 DEF Homes
    <3> HIDE DEF new
    <3>6. QED
      BY <3>3, <3>4, <3>5
  <2>8. Good(y)
    BY <1>14, <2>4, <2>6, <2>7 DEF Good
  <2>9. QED
    BY <1>3, <1>15, <1>22, <2>4, <2>6, <2>8 DEF CellTaken, c, y
<1>25. QED
  BY <1>23, <1>24

\* A slab whose header changed and that is moved to where it then belongs is in its place
LEMMA MovedGood ==
    ASSUME NEW v \in Allocators, \A t \in DOMAIN v.mem : CellsOK(t, v.mem[t]),
           NEW place, DOMAIN place = DOMAIN v.mem, Listed(v, place),
           NEW s \in DOMAIN v.mem, \A t \in DOMAIN v.mem : t # s => Home(v.mem[t]) = place[t],
           NEW i \in Index, NEW from, NEW to, <<from, to>> \in Moves, place[s] = <<from, i>>,
           Home(v.mem[s]) = <<to, i>>,
           NEW y, y = Moved(v, i, s, from, to)
    PROVE  Good(y) /\ DOMAIN y.mem = DOMAIN v.mem /\ SameCells(y.mem, v.mem, DOMAIN v.mem)
<1> DEFINE D == DOMAIN v.mem
           new == [place EXCEPT ![s] = <<to, i>>]
<1>1. Rehoused(y, v, place, s, to, i)
  BY MovedPlace
<1>2. /\ y \in Allocators /\ DOMAIN y.mem = D /\ SameCells(y.mem, v.mem, D) /\ Listed(y, new)
  BY <1>1 DEF Rehoused
<1>3. y.mem \in [D -> HeaderRecord] /\ v.mem \in [D -> HeaderRecord]
  BY <1>2, AllocatorFields
<1>4. \A t \in D : /\ Home(y.mem[t]) = Home(v.mem[t])
                   /\ CellsOK(t, y.mem[t]) <=> CellsOK(t, v.mem[t])
  BY <1>2, <1>3, SameCellsSame
<1>5. new = Homes(y.mem)
  <2>1. \A t \in D : new[t] = IF t = s THEN <<to, i>> ELSE place[t]
    OBVIOUS
  <2>2. \A t \in D : Homes(y.mem)[t] = Home(v.mem[t])
    BY <1>2, <1>4 DEF Homes
  <2>3. \A t \in D : Homes(y.mem)[t] = new[t]
    BY <2>1, <2>2
  <2>4. DOMAIN new = D /\ new = [t \in DOMAIN new |-> new[t]]
    OBVIOUS
  <2>5. Homes(y.mem) = [t \in D |-> Homes(y.mem)[t]]
    BY <1>2 DEF Homes
  <2> HIDE DEF new
  <2>6. QED
    BY <2>3, <2>4, <2>5
<1>6. Good(y)
  BY <1>2, <1>4, <1>5 DEF Good
<1>7. QED
  BY <1>2, <1>6

\* y is z with one more free cell, c, of slab s
CellGiven(y, z, s, c) ==
    /\ Good(y)
    /\ DOMAIN y.mem = DOMAIN z.mem
    /\ \A t \in DOMAIN z.mem :
           /\ y.mem[t].cell_size = z.mem[t].cell_size
           /\ FreeIn(y.mem[t]) = IF t = s THEN FreeIn(z.mem[s]) \cup {c} ELSE FreeIn(z.mem[t])

\* sfree gives a cell back to its slab and moves the slab when it was filled or is empty now
LEMMA SfreedGood ==
    ASSUME NEW z, Good(z), NEW s \in DOMAIN z.mem, NEW c \in Cells(s, z.mem[s].cell_size),
           c \notin FreeIn(z.mem[s])
    PROVE  CellGiven(Sfreed(z, c), z, s, c)
<1> DEFINE D == DOMAIN z.mem
           h == z.mem[s]
           M == MaxCells(h.cell_size)
           n == h.free_cells_cnt
           v == Pushed(z, s, c)
           y == Sfreed(z, c)
           place == Homes(z.mem)
<1>1. z \in Allocators /\ Listed(z, place) /\ \A t \in D : CellsOK(t, z.mem[t])
  BY DEF Good
<1>2. D \in SUBSET SlabAt /\ z.mem \in [D -> HeaderRecord]
  BY <1>1, AllocatorFields
<1>3. h \in HeaderRecord /\ s \in SlabAt /\ CellsOK(s, h) /\ n \in Nat
  BY <1>1, <1>2, Fields
<1>4. PICK i \in Index : h.cell_size = MinCell * 2^i
  BY <1>3 DEF CellsOK, CellSizes
<1>5. M \in Nat /\ M > 1
  BY <1>3, CellSizeFits DEF CellsOK, SizeFits
<1>6. n <= M /\ n # M
  <2>1. /\ h.free_cells_cnt <= MaxCells(h.cell_size)
        /\ h.free_cells_cnt = MaxCells(h.cell_size) <=> FreeIn(h) = Cells(s, h.cell_size)
    <3> HIDE DEF h
    <3>1. QED
      BY <1>3, FreeCount
  <2>2. QED
    BY <2>1
<1>7. SlabFromCell(c) = s
  BY <1>3, CellPlace DEF CellsOK
<1>8. PICK g : /\ Put(v, z, s, g) /\ FreeNow(g, h, s, FreeIn(h) \cup {c})
               /\ g.free_cells_cnt = n + 1
  BY <1>1, PushedIs
<1>9. /\ v \in Allocators /\ DOMAIN v.mem = D /\ v.mem[s] = g
      /\ \A t \in D : t # s => v.mem[t] = z.mem[t]
      /\ \A pl : DOMAIN pl = D /\ Listed(z, pl) => Listed(v, pl)
  BY <1>8 DEF Put
<1>10. /\ g \in HeaderRecord /\ CellsOK(s, g) /\ FreeIn(g) = FreeIn(h) \cup {c}
       /\ g.cell_size = MinCell * 2^i /\ MaxCells(g.cell_size) = M
  BY <1>4, <1>8 DEF FreeNow
<1>11. IndexFromCellSize(g.cell_size) = i
  BY <1>10, IndexOfSize
<1>12. DOMAIN place = D /\ \A t \in D : place[t] = Home(z.mem[t])
  BY DEF Homes
<1>13. Home(h) = << IF n = M THEN "empty" ELSE IF n = 0 THEN "filled" ELSE "wip", i >>
  BY <1>3, <1>4, HomeIs
<1>14. Home(g) = << IF n + 1 = M THEN "empty" ELSE IF n + 1 = 0 THEN "filled" ELSE "wip", i >>
  BY <1>3, <1>8, <1>10, HomeIs
<1>15. y = IF n + 1 = 1 THEN Moved(v, i, s, "filled", "wip")
           ELSE IF n + 1 = M THEN Moved(v, i, s, "wip", "empty") ELSE v
  BY <1>7, <1>8, <1>9, <1>10, <1>11 DEF Sfreed, BecameWip, BecameEmpty, IsSlabEmpty
<1> HIDE DEF v, y, place
<1>16. Listed(v, place)
  BY <1>1, <1>9, <1>12
<1>17. \A t \in D : CellsOK(t, v.mem[t])
  BY <1>1, <1>9, <1>10
<1>18. \A t \in D : /\ v.mem[t].cell_size = z.mem[t].cell_size
                    /\ FreeIn(v.mem[t]) = IF t = s THEN FreeIn(h) \cup {c} ELSE FreeIn(z.mem[t])
  BY <1>4, <1>9, <1>10
<1>19. \A t \in D : t # s => Home(v.mem[t]) = place[t]
  BY <1>9, <1>12
<1>20. place[s] = Home(h)
  BY <1>12
<1> HIDE DEF h, n, M
<1>21. Good(y) /\ DOMAIN y.mem = D /\ SameCells(y.mem, v.mem, D)
  <2>1. CASE n = 0
    <3>1. <<"filled", "wip">> \in Moves
      BY DEF Moves
    <3>2. place[s] = <<"filled", i>> /\ Home(v.mem[s]) = <<"wip", i>>
      BY <1>5, <1>9, <1>13, <1>14, <1>20, <2>1
    <3>3. y = Moved(v, i, s, "filled", "wip")
      BY <1>15, <2>1
    <3>4. QED
      BY <1>9, <1>12, <1>16, <1>17, <1>19, <3>1, <3>2, <3>3, MovedGood
  <2>2. CASE n # 0 /\ n + 1 = M
    <3>1. <<"wip", "empty">> \in Moves
      BY DEF Moves
    <3>2. place[s] = <<"wip", i>> /\ Home(v.mem[s]) = <<"empty", i>>
      BY <1>6, <1>9, <1>13, <1>14, <1>20, <2>2
    <3>3. y = Moved(v, i, s, "wip", "empty")
      BY <1>3, <1>15, <2>2
    <3>4. QED
      BY <1>9, <1>12, <1>16, <1>17, <1>19, <3>1, <3>2, <3>3, MovedGood
  <2>3. CASE n # 0 /\ n + 1 # M
    <3>1. y = v
      BY <1>3, <1>15, <2>3
    <3>2. Home(v.mem[s]) = place[s]
      BY <1>3, <1>6, <1>9, <1>13, <1>14, <1>20, <2>3
    <3>3. \A t \in D : Homes(v.mem)[t] = place[t]
      BY <1>9, <1>19, <3>2 DEF Homes
    <3>4. place = [t \in D |-> place[t]]
      BY DEF place, Homes
    <3>5. Homes(v.mem) = [t \in D |-> Homes(v.mem)[t]]
      BY <1>9 DEF Homes
    <3>6. Homes(v.mem) = place
      BY <3>3, <3>4, <3>5
    <3>7. SameCells(v.mem, v.mem, D)
      BY DEF SameCells
    <3>8. QED
      BY <1>9, <1>16, <1>17, <3>1, <3>6, <3>7 DEF Good
  <2>4. QED
    BY <2>1, <2>2, <2>3
<1>22. \A t \in D : FreeIn(y.mem[t]) = FreeIn(v.mem[t]) /\ y.mem[t].cell_size = v.mem[t].cell_size
  BY <1>21 DEF SameCells, FreeIn
<1>23. QED
  BY <1>18, <1>21, <1>22 DEF CellGiven, y, h

-----------------------------------------------------------------------------
(* What clear does to an allocator.                                        *)

\* y is x without some of the slabs whose cells are all free
Freed(y, x) ==
    /\ Good(y)
    /\ DOMAIN y.mem \subseteq DOMAIN x.mem
    /\ SameCells(y.mem, x.mem, DOMAIN y.mem)
    /\ \A s \in DOMAIN x.mem \ DOMAIN y.mem : FreeIn(x.mem[s]) = Cells(s, x.mem[s].cell_size)

\* The first slab of a list is there and belongs into it
LEMMA HeadIs ==
    ASSUME NEW x, Good(x), NEW l \in Names, NEW i \in Index, x[l][i] # Null
    PROVE  x[l][i] \in DOMAIN x.mem /\ Home(x.mem[x[l][i]]) = <<l, i>>
<1>1. /\ x \in Allocators /\ List(x.mem, x[l][i], At(Homes(x.mem), l, i))
  BY DEF Good, Listed
<1>2. DOMAIN x.mem \in SUBSET SlabAt
  BY <1>1, AllocatorFields
<1>3. At(Homes(x.mem), l, i) \in SUBSET DOMAIN x.mem
  BY DEF At, Homes
<1>4. x[l][i] \in At(Homes(x.mem), l, i)
  BY <1>1, <1>2, <1>3, ListHead
<1>5. QED
  BY <1>3, <1>4 DEF At, Homes

\* The slabs of the list of empty slabs have no cell in use
LEMMA EmptyIs ==
    ASSUME NEW s \in SlabAt, NEW h \in HeaderRecord, CellsOK(s, h)
    PROVE  (\E i \in Index : Home(h) = <<"empty", i>>) <=> FreeIn(h) = Cells(s, h.cell_size)
<1>1. PICK i \in Index : h.cell_size = MinCell * 2^i
  BY DEF CellsOK, CellSizes
<1>2. Home(h) = << IF h.free_cells_cnt = MaxCells(h.cell_size) THEN "empty"
                   ELSE IF h.free_cells_cnt = 0 THEN "filled" ELSE "wip", i >>
  BY <1>1, HomeIs
<1>3. h.free_cells_cnt = MaxCells(h.cell_size) <=> FreeIn(h) = Cells(s, h.cell_size)
  BY FreeCount
<1>4. "filled" # "empty" /\ "wip" # "empty"
  OBVIOUS
<1>5. (\E j \in Index : Home(h) = <<"empty", j>>) <=> h.free_cells_cnt = MaxCells(h.cell_size)
  BY <1>2, <1>4
<1>6. QED
  BY <1>3, <1>5

\* FirstFreed frees one slab
LEMMA FirstFreedGood ==
    ASSUME NEW x, Good(x), NEW i \in Index, x.empty[i] # Null
    PROVE  /\ Freed(FirstFreed(x, i), x)
           /\ x.empty[i] \in DOMAIN x.mem
           /\ DOMAIN FirstFreed(x, i).mem = DOMAIN x.mem \ {x.empty[i]}
<1> DEFINE D == DOMAIN x.mem
           s == x.empty[i]
           r == RemovedFrom(x.mem, s, s)
           E == D \ {s}
           m == [t \in E |-> r.mem[t]]
           y == [x EXCEPT !.mem = m, !.empty[i] = r.head]
           place == Homes(x.mem)
           S == At(place, "empty", i)
<1>1. FirstFreed(x, i) = y
  BY DEF FirstFreed
<1>2. x \in Allocators /\ Listed(x, place) /\ \A t \in D : CellsOK(t, x.mem[t])
  BY DEF Good
<1>3. D \in SUBSET SlabAt /\ E \in SUBSET SlabAt /\ x.mem \in [D -> HeaderRecord]
  BY <1>2, AllocatorFields
<1>4. "empty" \in Names /\ x["empty"] = x.empty
  BY DEF Names
<1>5. s \in D /\ Home(x.mem[s]) = <<"empty", i>>
  BY <1>4, HeadIs
<1>6. DOMAIN place = D /\ \A t \in D : place[t] = Home(x.mem[t])
  BY DEF Homes
<1>7. List(x.mem, s, S) /\ S \in SUBSET D /\ s \in S
  BY <1>2, <1>4, <1>5, <1>6 DEF Listed, At
<1>8. WithoutSlab(r, x.mem, D, S, s)
  <2> HIDE DEF D, S, s
  <2>1. QED
    BY <1>3, <1>7, RemovedList
<1> HIDE DEF r, s
<1>9. /\ r.mem \in [D -> HeaderRecord] /\ SameCells(r.mem, x.mem, D)
      /\ List(r.mem, r.head, S \ {s}) /\ r.head \in Pointer
      /\ OthersStay(r.mem, x.mem, D, S)
  BY <1>8 DEF WithoutSlab
<1>10. m \in [E -> HeaderRecord] /\ \A t \in E : m[t] = r.mem[t]
  BY <1>9
<1>11. y = [x EXCEPT !.mem = m, !.empty[i] = r.head]
  OBVIOUS
<1> HIDE DEF m
<1>12. /\ y.mem = m /\ y.empty = [x.empty EXCEPT ![i] = r.head]
       /\ y.wip = x.wip /\ y.filled = x.filled
       /\ y["empty"] = y.empty /\ y["wip"] = y.wip /\ y["filled"] = y.filled
       /\ x["empty"] = x.empty /\ x["wip"] = x.wip /\ x["filled"] = x.filled
  BY <1>2, <1>11 DEF Allocators
<1>13. x.empty \in [Index -> Pointer]
  BY <1>2, AllocatorFields
<1>14. y \in Allocators
  <2>1. m \in Memories
    BY <1>3, <1>10 DEF Memories
  <2>2. QED
    BY <1>2, <1>9, <1>11, <1>13, <2>1 DEF Allocators
<1> HIDE DEF y
<1>15. \A l \in Names, j \in Index : y[l][j] = IF l = "empty" /\ j = i THEN r.head ELSE x[l][j]
  <2>1. \A j \in Index : y["empty"][j] = IF j = i THEN r.head ELSE x["empty"][j]
    BY <1>12, <1>13
  <2>2. QED
    BY <1>12, <2>1 DEF Names
<1>16. DOMAIN y.mem = E
  BY <1>10, <1>12
<1>17. SameCells(y.mem, x.mem, E)
  BY <1>9, <1>10, <1>12 DEF SameCells
<1>18. y.mem \in [E -> HeaderRecord] /\ \A t \in E : x.mem[t] \in HeaderRecord
  BY <1>3, <1>10, <1>12
<1>19. \A t \in E : /\ Home(y.mem[t]) = Home(x.mem[t])
                    /\ CellsOK(t, y.mem[t]) <=> CellsOK(t, x.mem[t])
  BY <1>17, <1>18 DEF SameCells, FreeIn, Home, CellsOK, IsSlabEmpty, IsSlabFilled
<1> DEFINE new == Homes(y.mem)
<1>20. DOMAIN new = E /\ \A t \in E : new[t] = place[t]
  BY <1>6, <1>16, <1>19 DEF Homes
<1> HIDE DEF new, place
<1>21. ASSUME NEW l \in Names, NEW j \in Index
       PROVE  List(y.mem, y[l][j], At(new, l, j))
  <2>1. \A t \in E : y.mem[t].next = r.mem[t].next /\ y.mem[t].prev = r.mem[t].prev
    BY <1>10, <1>12
  <2>2. CASE l = "empty" /\ j = i
    <3>1. At(new, l, j) = S \ {s}
      BY <1>6, <1>20, <2>2 DEF At
    <3>2. \A t \in S \ {s} : y.mem[t].next = r.mem[t].next /\ y.mem[t].prev = r.mem[t].prev
      BY <1>7, <2>1
    <3>3. List(y.mem, r.head, S \ {s})
      BY <1>9, <3>2, ListSame
    <3>4. QED
      BY <1>15, <2>2, <3>1, <3>3
  <2>3. CASE ~(l = "empty" /\ j = i)
    <3>1. s \notin At(place, l, j)
      BY <1>5, <1>6, <2>3 DEF At
    <3>2. At(new, l, j) = At(place, l, j)
      BY <1>6, <1>20, <3>1 DEF At
    <3>3. List(x.mem, x[l][j], At(place, l, j)) /\ x[l][j] \in Pointer
      BY <1>2, AllocatorFields DEF Listed
    <3>4. At(place, l, j) \in SUBSET D /\ At(place, l, j) \cap S = {}
      BY <1>6, <2>3 DEF At
    <3>5. List(r.mem, x[l][j], At(place, l, j))
      BY <1>9, <3>3, <3>4 DEF OthersStay
    <3>6. \A t \in At(place, l, j) : y.mem[t].next = r.mem[t].next /\ y.mem[t].prev = r.mem[t].prev
      BY <2>1, <3>1, <3>4
    <3>7. List(y.mem, x[l][j], At(place, l, j))
      BY <3>5, <3>6, ListSame
    <3>8. QED
      BY <1>15, <2>3, <3>2, <3>7
  <2>4. QED
    BY <2>2, <2>3
<1>22. Good(y)
  BY <1>2, <1>14, <1>16, <1>19, <1>21 DEF Good, Listed, new
<1>23. FreeIn(x.mem[s]) = Cells(s, x.mem[s].cell_size)
  BY <1>2, <1>3, <1>5, EmptyIs
<1>24. Freed(y, x)
  BY <1>16, <1>17, <1>22, <1>23 DEF Freed
<1>25. QED
  BY <1>1, <1>5, <1>16, <1>24 DEF y, s

\* What is freed in two goes
LEMMA FreedTwice ==
    ASSUME NEW x, NEW y, NEW z, Good(x), Freed(y, x), Freed(z, y)
    PROVE  Freed(z, x)
<1>1. /\ DOMAIN y.mem \subseteq DOMAIN x.mem /\ DOMAIN z.mem \subseteq DOMAIN y.mem
      /\ Good(z)
  BY DEF Freed
<1>2. SameCells(z.mem, x.mem, DOMAIN z.mem)
  BY <1>1 DEF Freed, SameCells
<1>3. ASSUME NEW s \in DOMAIN x.mem \ DOMAIN z.mem
      PROVE  FreeIn(x.mem[s]) = Cells(s, x.mem[s].cell_size)
  <2>1. CASE s \notin DOMAIN y.mem
    BY <2>1 DEF Freed
  <2>2. CASE s \in DOMAIN y.mem
    <3>1. FreeIn(y.mem[s]) = Cells(s, y.mem[s].cell_size)
      BY <1>3, <2>2 DEF Freed
    <3>2. FreeIn(y.mem[s]) = FreeIn(x.mem[s]) /\ y.mem[s].cell_size = x.mem[s].cell_size
      BY <2>2 DEF Freed, SameCells, FreeIn
    <3>3. QED
      BY <3>1, <3>2
  <2>3. QED
    BY <2>1, <2>2
<1>4. QED
  BY <1>1, <1>2, <1>3 DEF Freed

NoEmpties(x) == \A i \in Index : x.empty[i] = Null

\* A turn of the loop of clear frees a slab if an empty one is left
LEMMA TurnFrees ==
    ASSUME NEW x, Good(x)
    PROVE  /\ Freed(Turn(x), x)
           /\ NoEmpties(x) => Turn(x) = x
           /\ ~NoEmpties(x) => \E s \in DOMAIN x.mem : DOMAIN Turn(x).mem = DOMAIN x.mem \ {s}
<1>1. CASE NoEmpties(x)
  <2>1. Turn(x) = x
    BY <1>1 DEF Turn, NoEmpties
  <2>2. Freed(x, x)
    BY DEF Freed, SameCells
  <2>3. QED
    BY <1>1, <2>1, <2>2
<1>2. CASE ~NoEmpties(x)
  <2> DEFINE T == { i \in Index : x.empty[i] # Null }
             i == CHOOSE k \in Index : x.empty[k] # Null /\ \A j \in 0..(k - 1) : x.empty[j] = Null
  <2>1. \E k \in Index : x.empty[k] # Null /\ \A j \in 0..(k - 1) : x.empty[j] = Null
    <3>1. T \in SUBSET Nat /\ T # {}
      BY <1>2, Constants DEF NoEmpties
    <3>2. PICK k \in T : \A j \in T : k <= j
      <4> HIDE DEF T
      <4>1. QED
        BY <3>1, Least
    <3>3. \A j \in 0..(k - 1) : j \in Index /\ ~(k <= j)
      BY <3>2, Constants DEF Index
    <3>4. \A j \in 0..(k - 1) : x.empty[j] = Null
      BY <3>2, <3>3
    <3>5. QED
      BY <3>2, <3>4
  <2>2. i \in Index /\ x.empty[i] # Null
    BY <2>1
  <2>3. Turn(x) = FirstFreed(x, i)
    BY <1>2 DEF Turn, NoEmpties
  <2> HIDE DEF i
  <2>4. QED
    BY <1>2, <2>2, <2>3, FirstFreedGood
<1>3. QED
  BY <1>1, <1>2

\* n steps from x on
Runs(Y, x, step, n) ==
    { f \in [0..n -> Y] : f[0] = x /\ \A k \in 1..n : f[k] = step[f[k - 1]] }

\* The values of a step that is repeated
LEMMA Repeated ==
    ASSUME NEW Y, NEW x \in Y, NEW step \in [Y -> Y], NEW n \in Nat
    PROVE  Runs(Y, x, step, n) # {}
<1> DEFINE T == { m \in Nat : Runs(Y, x, step, m) = {} }
<1>1. SUFFICES ASSUME T # {} PROVE FALSE
  OBVIOUS
<1>2. PICK m \in T : \A i \in T : m <= i
  <2>1. T \in SUBSET Nat
    OBVIOUS
  <2> HIDE DEF T
  <2>2. QED
    BY <1>1, <2>1, Least
<1>3. m # 0
  <2> DEFINE f == [k \in 0..0 |-> x]
  <2>1. f \in Runs(Y, x, step, 0)
    BY DEF Runs
  <2>2. QED
    BY <1>2, <2>1
<1>4. m - 1 \in Nat /\ Runs(Y, x, step, m - 1) # {}
  <2>1. m \in Nat /\ m - 1 \in Nat /\ ~(m <= m - 1)
    BY <1>2, <1>3
  <2>2. m - 1 \notin T
    <3> HIDE DEF T
    <3>1. QED
      BY <1>2, <2>1
  <2>3. QED
    BY <2>1, <2>2
<1>5. PICK f : f \in Runs(Y, x, step, m - 1)
  BY <1>4
<1>6. /\ f \in [0..(m - 1) -> Y] /\ f[0] = x
      /\ \A k \in 1..(m - 1) : f[k] = step[f[k - 1]]
  BY <1>5 DEF Runs
<1> DEFINE g == [k \in 0..m |-> IF k = m THEN step[f[m - 1]] ELSE f[k]]
<1>7. \A k \in 0..m : g[k] = IF k = m THEN step[f[m - 1]] ELSE f[k]
  OBVIOUS
<1>8. step[f[m - 1]] \in Y
  BY <1>4, <1>6
<1>9. \A k \in 0..m : k # m => k \in 0..(m - 1) /\ f[k] \in Y
  BY <1>4, <1>6
<1>10. g \in [0..m -> Y]
  BY <1>8, <1>9
<1> HIDE DEF g
<1>11. g[0] = x
  BY <1>3, <1>4, <1>6, <1>7
<1>12. ASSUME NEW k \in 1..m
       PROVE  g[k] = step[g[k - 1]]
  <2>1. k \in 0..m /\ k - 1 \in 0..m /\ k - 1 # m
    BY <1>2
  <2>2. g[k - 1] = f[k - 1]
    BY <1>7, <2>1
  <2>3. CASE k = m
    BY <1>7, <2>1, <2>2, <2>3
  <2>4. CASE k # m
    <3>1. k \in 1..(m - 1)
      BY <1>2, <2>4
    <3>2. QED
      BY <1>6, <1>7, <2>1, <2>2, <2>4, <3>1
  <2>5. QED
    BY <2>3, <2>4
<1>13. g \in Runs(Y, x, step, m)
  BY <1>10, <1>11, <1>12 DEF Runs
<1>14. QED
  BY <1>2, <1>13

\* clear frees the empty slabs, all of them
LEMMA ClearedIs ==
    ASSUME NEW x, Good(x)
    PROVE  Freed(Cleared(x), x) /\ NoEmpties(Cleared(x))
<1> DEFINE N == Cardinality(SlabAt)
           Y == { y \in Allocators : Good(y) }
           step == [y \in Y |-> Turn(y)]
           drain == CHOOSE f : f = [k \in 0..N |-> IF k = 0 THEN x ELSE Turn(f[k - 1])]
<1>1. N \in Nat /\ IsFiniteSet(SlabAt)
  BY AllocatorAssumption, FS_CardinalityType
<1>2. \A y \in Y : Turn(y) \in Y
  BY TurnFrees DEF Freed, Good
<1>3. x \in Y /\ step \in [Y -> Y] /\ \A y \in Y : step[y] = Turn(y)
  BY <1>2 DEF Good
<1>4. Cleared(x) = drain[N]
  BY DEF Cleared
<1>5. drain = [k \in 0..N |-> IF k = 0 THEN x ELSE Turn(drain[k - 1])]
  <2>1. PICK f \in [0..N -> Y] : f[0] = x /\ \A k \in 1..N : f[k] = step[f[k - 1]]
    <3>1. x \in Y /\ step \in [Y -> Y]
      BY <1>3
    <3> HIDE DEF Y, step, N, drain
    <3>2. Runs(Y, x, step, N) # {}
      BY <1>1, <3>1, Repeated
    <3>3. QED
      BY <3>2 DEF Runs
  <2>2. \A k \in 1..N : k - 1 \in 0..N /\ f[k - 1] \in Y
    BY <1>1, <2>1
  <2>3. \A k \in 0..N : k = 0 \/ k \in 1..N
    BY <1>1
  <2> DEFINE g == [k \in 0..N |-> IF k = 0 THEN x ELSE Turn(f[k - 1])]
  <2>4. \A k \in 0..N : f[k] = g[k]
    BY <1>3, <2>1, <2>2, <2>3
  <2>5. DOMAIN g = 0..N /\ g = [k \in 0..N |-> g[k]] /\ f = [k \in 0..N |-> f[k]]
    BY <2>1
  <2>6. f = g
    <3> HIDE DEF g, N
    <3>1. QED
      BY <2>4, <2>5
  <2>7. f = [k \in 0..N |-> IF k = 0 THEN x ELSE Turn(f[k - 1])]
    BY <2>6
  <2> HIDE DEF N
  <2>8. QED
    BY <2>7
<1> HIDE DEF drain
<1>6. drain[0] = x /\ \A k \in 1..N : drain[k] = Turn(drain[k - 1])
  <2>1. \A k \in 0..N : drain[k] = IF k = 0 THEN x ELSE Turn(drain[k - 1])
    BY <1>5
  <2>2. 0 \in 0..N /\ \A k \in 1..N : k \in 0..N /\ k # 0
    BY <1>1
  <2>3. QED
    BY <2>1, <2>2
<1> DEFINE D == DOMAIN x.mem
           Slabs(k) == Cardinality(DOMAIN drain[k].mem)
           P(k) == /\ Freed(drain[k], x)
                   /\ NoEmpties(drain[k]) \/ Slabs(k) + k <= Cardinality(D)
<1>7. D \in SUBSET SlabAt /\ IsFiniteSet(D) /\ Cardinality(D) \in Nat /\ Cardinality(D) <= N
  <2>1. D \in SUBSET SlabAt
    BY AllocatorFields DEF Good
  <2> HIDE DEF D
  <2>2. QED
    BY <1>1, <2>1, FS_Subset, FS_CardinalityType
<1>8. ASSUME NEW y, Freed(y, x)
      PROVE  /\ DOMAIN y.mem \in SUBSET SlabAt /\ IsFiniteSet(DOMAIN y.mem)
             /\ Cardinality(DOMAIN y.mem) \in Nat
  <2>1. DOMAIN y.mem \in SUBSET SlabAt
    BY <1>8, AllocatorFields DEF Freed, Good
  <2>2. QED
    BY <1>1, <2>1, FS_Subset, FS_CardinalityType
<1>9. P(0)
  <2>1. Freed(x, x)
    BY DEF Freed, SameCells
  <2>2. QED
    BY <1>6, <1>7, <2>1
<1>10. ASSUME NEW k \in 1..N, P(k - 1)
       PROVE  P(k)
  <2> DEFINE y == drain[k - 1]
             z == drain[k]
  <2>1. z = Turn(y) /\ Freed(y, x) /\ Good(y)
    BY <1>6, <1>10 DEF Freed
  <2>2. Freed(z, x)
    <3>1. Freed(z, y)
      BY <2>1, TurnFrees
    <3> HIDE DEF y, z
    <3>2. QED
      BY <2>1, <3>1, FreedTwice
  <2>3. CASE NoEmpties(y)
    BY <2>1, <2>2, <2>3, TurnFrees
  <2>4. CASE ~NoEmpties(y)
    <3>1. PICK s \in DOMAIN y.mem : DOMAIN z.mem = DOMAIN y.mem \ {s}
      BY <2>1, <2>4, TurnFrees
    <3>2. IsFiniteSet(DOMAIN y.mem) /\ Slabs(k - 1) \in Nat
      BY <1>8, <2>1
    <3>3. Slabs(k) = Slabs(k - 1) - 1
      <4> DEFINE E == DOMAIN y.mem
      <4>1. IsFiniteSet(E) /\ s \in E /\ DOMAIN z.mem = E \ {s} /\ Slabs(k - 1) = Cardinality(E)
        BY <3>1, <3>2
      <4> HIDE DEF E, y
      <4>2. Cardinality(E \ {s}) = Cardinality(E) - 1
        BY <4>1, FS_RemoveElement
      <4>3. QED
        BY <4>1, <4>2
    <3>4. Slabs(k - 1) + (k - 1) <= Cardinality(D)
      BY <1>10, <2>4
    <3> HIDE DEF Slabs, D, y, z, N
    <3>5. k \in Nat
      BY <1>1
    <3>6. Slabs(k) + k <= Cardinality(D)
      BY <1>7, <3>2, <3>3, <3>4, <3>5
    <3>7. QED
      BY <2>2, <3>6 DEF z
  <2>5. QED
    BY <2>3, <2>4
<1>11. P(N)
  <2> DEFINE T == { k \in 0..N : ~P(k) }
  <2>1. SUFFICES ASSUME T # {} PROVE FALSE
    BY <1>1
  <2> HIDE DEF P
  <2>2. PICK k \in T : \A j \in T : k <= j
    <3>1. T \in SUBSET Nat
      OBVIOUS
    <3> HIDE DEF T
    <3>2. QED
      BY <2>1, <3>1, Least
  <2>3. k \in 1..N /\ k - 1 \in 0..N
    BY <1>1, <1>9, <2>2
  <2>4. P(k - 1)
    <3>1. ~(k <= k - 1)
      BY <2>3
    <3>2. QED
      BY <2>2, <2>3, <3>1
  <2>5. QED
    BY <1>10, <2>2, <2>3, <2>4
<1>12. NoEmpties(drain[N])
  <2>1. SUFFICES ASSUME ~NoEmpties(drain[N]) PROVE FALSE
    OBVIOUS
  <2>2. Freed(drain[N], x) /\ Good(drain[N]) /\ Slabs(N) + N <= Cardinality(D)
    BY <1>11, <2>1 DEF Freed
  <2>3. IsFiniteSet(DOMAIN drain[N].mem) /\ Slabs(N) \in Nat
    BY <1>8, <2>2
  <2>4. Slabs(N) = 0
    <3> HIDE DEF N, D, Slabs
    <3>1. QED
      BY <1>1, <1>7, <2>2, <2>3
  <2>5. DOMAIN drain[N].mem = {}
    BY <2>3, <2>4, FS_EmptySet
  <2>6. PICK i \in Index : drain[N].empty[i] # Null
    BY <2>1 DEF NoEmpties
  <2>7. "empty" \in Names /\ drain[N]["empty"] = drain[N].empty
    BY DEF Names
  <2>8. drain[N].empty[i] \in DOMAIN drain[N].mem
    BY <2>2, <2>6, <2>7, HeadIs
  <2>9. QED
    BY <2>5, <2>8
<1>13. QED
  BY <1>4, <1>11, <1>12

-----------------------------------------------------------------------------
(* The cells that are in use, and the steps that change them.              *)

\* c is a cell of slab s, of cell size cs, that is not free
InUse(mem, s, cs, c) ==
    s \in DOMAIN mem /\ mem[s].cell_size = cs /\ c \in Cells(s, cs) /\ c \notin FreeIn(mem[s])

\* y is x in which cell c of slab t is in use, which it was not
InUseToo(y, x, t, cs, c) ==
    /\ Good(y) /\ DOMAIN y.mem = DOMAIN x.mem \cup {t}
    /\ \A k : ~InUse(x.mem, t, k, c)
    /\ \A s, k, d : InUse(y.mem, s, k, d) <=> InUse(x.mem, s, k, d) \/ (s = t /\ k = cs /\ d = c)

\* smalloc, with a new slab where it takes one
LEMMA CellTakenIs ==
    ASSUME NEW x, Good(x), NEW i \in Index, NEW cs, cs = MinCell * 2^i, NEW s \in SlabAt,
           x.wip[i] = Null /\ x.empty[i] = Null => s \notin DOMAIN x.mem,
           NEW z, z = IF x.wip[i] = Null /\ x.empty[i] = Null THEN WithNewSlab(x, i, cs, s) ELSE x,
           NEW w, w = WithWip(z, i)
    PROVE  /\ InUseToo(Popped(w, i), x, w.wip[i], cs, Head(w.mem[w.wip[i]].free_list))
           /\ w.wip[i] \in DOMAIN x.mem \/ (w.wip[i] = s /\ x.wip[i] = Null /\ x.empty[i] = Null)
<1> DEFINE t == w.wip[i]
           c == Head(w.mem[t].free_list)
           y == Popped(w, i)
           D == DOMAIN x.mem
           none == x.wip[i] = Null /\ x.empty[i] = Null
<1>1. /\ Good(z) /\ ~(z.wip[i] = Null /\ z.empty[i] = Null)
      /\ \A u \in D : u \in DOMAIN z.mem /\ z.mem[u].cell_size = x.mem[u].cell_size
                      /\ FreeIn(z.mem[u]) = FreeIn(x.mem[u])
      /\ \A u \in DOMAIN z.mem : u \in D \/ (u = s /\ none /\ FreeIn(z.mem[u]) = Cells(u, cs))
  <2>1. CASE ~none
    BY <2>1
  <2>2. CASE none
    <3>1. NewlyThere(z, x, i, cs, s)
      BY <2>2, NewSlabGood
    <3>2. /\ Good(z) /\ DOMAIN z.mem = D \cup {s} /\ SameCells(z.mem, x.mem, D)
          /\ FreeIn(z.mem[s]) = Cells(s, cs) /\ z.empty[i] = s
      BY <3>1 DEF NewlyThere
    <3>3. s # Null
      BY AllocatorAssumption
    <3>4. \A u \in D : z.mem[u].cell_size = x.mem[u].cell_size /\ FreeIn(z.mem[u]) = FreeIn(x.mem[u])
      BY <3>2 DEF SameCells, FreeIn
    <3>5. QED
      BY <2>2, <3>2, <3>3, <3>4
  <2>3. QED
    BY <2>1, <2>2
<1>2. WipFirst(w, z, i, t)
  BY <1>1, WithWipIs
<1>3. CellTaken(y, z, t, c)
  BY <1>1, <1>2, PoppedGood
<1>4. z.mem[t].cell_size = cs
  BY <1>2 DEF WipFirst
<1>5. /\ Good(y) /\ DOMAIN y.mem = DOMAIN z.mem /\ t \in DOMAIN z.mem
      /\ c \in FreeIn(z.mem[t])
      /\ \A u \in DOMAIN z.mem :
             /\ y.mem[u].cell_size = z.mem[u].cell_size
             /\ FreeIn(y.mem[u]) = IF u = t THEN FreeIn(z.mem[t]) \ {c} ELSE FreeIn(z.mem[u])
  BY <1>3 DEF CellTaken
<1>6. c \in Cells(t, cs)
  <2>1. CellsOK(t, z.mem[t]) /\ z.mem[t] \in HeaderRecord
    BY <1>1, <1>5, AllocatorFields, Fields DEF Good
  <2>2. FreeIn(z.mem[t]) \subseteq Cells(t, z.mem[t].cell_size)
    BY <2>1, FreeList
  <2>3. QED
    BY <1>4, <1>5, <2>2
<1> HIDE DEF t, c, y
<1>7. DOMAIN z.mem = D \cup {t}
  <2>1. \A u \in DOMAIN z.mem : u \in D \/ u = t
    <3>1. SUFFICES ASSUME NEW u \in DOMAIN z.mem, u \notin D PROVE u = t
      OBVIOUS
    <3>2. u = s /\ none
      BY <1>1, <3>1
    <3>3. NewlyThere(z, x, i, cs, s)
      BY <3>2, NewSlabGood
    <3>4. w.wip[i] = s
      <4>1. z.wip[i] = Null /\ z.empty[i] = s
        <5>1. z.empty[i] = s
          BY <3>3 DEF NewlyThere
        <5>2. z = WithNewSlab(x, i, cs, s)
          BY <3>2
        <5>3. z.wip = x.wip
          BY <5>2 DEF WithNewSlab, Good, Allocators
        <5>4. QED
          BY <3>2, <5>1, <5>3
      <4>2. w = Moved(z, i, s, "empty", "wip")
        BY <4>1 DEF WithWip
      <4>3. "empty" \in Names /\ z["empty"] = z.empty
        BY DEF Names
      <4>4. s # Null
        BY AllocatorAssumption
      <4>5. s \in DOMAIN z.mem /\ Home(z.mem[s]) = <<"empty", i>>
        <5>1. z["empty"][i] # Null
          BY <4>1, <4>3, <4>4
        <5>2. QED
          BY <1>1, <4>1, <4>3, <5>1, HeadIs
      <4>6. Rehoused(w, z, Homes(z.mem), s, "wip", i)
        <5>1. z \in Allocators /\ Listed(z, Homes(z.mem)) /\ DOMAIN Homes(z.mem) = DOMAIN z.mem
          BY <1>1 DEF Good, Homes
        <5>2. <<"empty", "wip">> \in Moves
          BY DEF Moves
        <5>3. Homes(z.mem)[s] = <<"empty", i>>
          BY <4>5 DEF Homes
        <5>4. QED
          BY <4>2, <4>5, <5>1, <5>2, <5>3, MovedPlace
      <4>7. w["wip"][i] = s /\ w["wip"] = w.wip
        BY <4>6 DEF Rehoused
      <4>8. QED
        BY <4>7
    <3>5. QED
      BY <3>2, <3>4 DEF t
  <2>2. QED
    BY <1>1, <1>5, <2>1
<1>8. \A k : ~InUse(x.mem, t, k, c)
  BY <1>1, <1>5 DEF InUse
<1>9. ASSUME NEW u, NEW k, NEW d
      PROVE  InUse(y.mem, u, k, d) <=> InUse(x.mem, u, k, d) \/ (u = t /\ k = cs /\ d = c)
  <2>1. CASE u \in D
    <3>1. /\ u \in DOMAIN z.mem /\ z.mem[u].cell_size = x.mem[u].cell_size
          /\ FreeIn(z.mem[u]) = FreeIn(x.mem[u])
          /\ y.mem[u].cell_size = x.mem[u].cell_size
      BY <1>1, <1>5, <2>1
    <3>2. CASE u = t
      <4>1. FreeIn(y.mem[u]) = FreeIn(x.mem[u]) \ {c} /\ y.mem[u].cell_size = cs
        BY <1>4, <1>5, <3>1, <3>2
      <4>2. QED
        BY <1>5, <1>6, <1>7, <2>1, <3>1, <3>2, <4>1 DEF InUse
    <3>3. CASE u # t
      <4>1. FreeIn(y.mem[u]) = FreeIn(x.mem[u])
        BY <1>5, <3>1, <3>3
      <4>2. QED
        BY <1>5, <2>1, <3>1, <3>3, <4>1 DEF InUse
    <3>4. QED
      BY <3>2, <3>3
  <2>2. CASE u = t /\ u \notin D
    <3>1. ~InUse(x.mem, u, k, d)
      BY <2>2 DEF InUse
    <3>2. FreeIn(y.mem[u]) = Cells(u, cs) \ {c} /\ y.mem[u].cell_size = cs /\ u \in DOMAIN y.mem
      BY <1>1, <1>4, <1>5, <2>2
    <3>3. InUse(y.mem, u, k, d) <=> (k = cs /\ d = c)
      BY <1>6, <2>2, <3>2 DEF InUse
    <3>4. QED
      BY <2>2, <3>1, <3>3
  <2>3. CASE u # t /\ u \notin D
    BY <1>5, <1>7, <2>3 DEF InUse
  <2>4. QED
    BY <2>1, <2>2, <2>3
<1>10. InUseToo(y, x, t, cs, c)
  BY <1>5, <1>7, <1>8, <1>9 DEF InUseToo
<1>11. t \in D \/ (t = s /\ none)
  BY <1>1, <1>5
<1>12. QED
  BY <1>10, <1>11 DEF t, c, y

\* y is x in which cell c of slab t is free
NotInUse(y, x, t, c) ==
    /\ Good(y) /\ DOMAIN y.mem = DOMAIN x.mem
    /\ \A s, k, d : InUse(y.mem, s, k, d) <=> InUse(x.mem, s, k, d) /\ ~(s = t /\ d = c)

\* sfree
LEMMA CellGivenIs ==
    ASSUME NEW x, Good(x), NEW t, NEW cs, NEW c, InUse(x.mem, t, cs, c)
    PROVE  NotInUse(Sfreed(x, c), x, t, c)
<1> DEFINE y == Sfreed(x, c)
<1>1. CellGiven(y, x, t, c)
  BY SfreedGood DEF InUse
<1> HIDE DEF y
<1>2. /\ Good(y) /\ DOMAIN y.mem = DOMAIN x.mem
      /\ \A u \in DOMAIN x.mem :
             /\ y.mem[u].cell_size = x.mem[u].cell_size
             /\ FreeIn(y.mem[u]) = IF u = t THEN FreeIn(x.mem[t]) \cup {c} ELSE FreeIn(x.mem[u])
  BY <1>1 DEF CellGiven
<1>3. ASSUME NEW u, NEW k, NEW d
      PROVE  InUse(y.mem, u, k, d) <=> InUse(x.mem, u, k, d) /\ ~(u = t /\ d = c)
  BY <1>2 DEF InUse
<1>4. QED
  BY <1>2, <1>3 DEF NotInUse, y

\* clear: the cells in use stay, and a slab stays if it has one
LEMMA ClearedInUse ==
    ASSUME NEW x, Good(x), NEW y, y = Cleared(x)
    PROVE  /\ Good(y) /\ DOMAIN y.mem \subseteq DOMAIN x.mem
           /\ \A s, k, d : InUse(y.mem, s, k, d) <=> InUse(x.mem, s, k, d)
           /\ \A s \in DOMAIN y.mem : \E k, d : InUse(y.mem, s, k, d)
<1>1. Freed(y, x) /\ NoEmpties(y)
  BY ClearedIs
<1>2. /\ Good(y) /\ DOMAIN y.mem \subseteq DOMAIN x.mem
      /\ SameCells(y.mem, x.mem, DOMAIN y.mem)
      /\ \A s \in DOMAIN x.mem \ DOMAIN y.mem : FreeIn(x.mem[s]) = Cells(s, x.mem[s].cell_size)
  BY <1>1 DEF Freed
<1>3. \A s \in DOMAIN y.mem : /\ FreeIn(y.mem[s]) = FreeIn(x.mem[s])
                              /\ y.mem[s].cell_size = x.mem[s].cell_size
  BY <1>2 DEF SameCells, FreeIn
<1>4. ASSUME NEW s, NEW k, NEW d
      PROVE  InUse(y.mem, s, k, d) <=> InUse(x.mem, s, k, d)
  BY <1>2, <1>3 DEF InUse
<1>5. ASSUME NEW s \in DOMAIN y.mem
      PROVE  \E k, d : InUse(y.mem, s, k, d)
  <2> DEFINE h == y.mem[s]
  <2>1. /\ y \in Allocators /\ CellsOK(s, h) /\ Listed(y, Homes(y.mem))
        /\ h \in HeaderRecord /\ s \in SlabAt /\ DOMAIN y.mem \in SUBSET SlabAt
    BY <1>2, AllocatorFields, Fields DEF Good
  <2>2. FreeIn(h) # Cells(s, h.cell_size)
    <3>1. SUFFICES ASSUME FreeIn(h) = Cells(s, h.cell_size) PROVE FALSE
      OBVIOUS
    <3>2. PICK i \in Index : Home(h) = <<"empty", i>>
      <4> HIDE DEF h
      <4>1. QED
        BY <2>1, <3>1, EmptyIs
    <3>3. s \in At(Homes(y.mem), "empty", i)
      BY <3>2 DEF At, Homes
    <3>4. At(Homes(y.mem), "empty", i) \in SUBSET DOMAIN y.mem
      BY DEF At, Homes
    <3>5. List(y.mem, y["empty"][i], At(Homes(y.mem), "empty", i))
      BY <2>1 DEF Listed, Names
    <3>6. y["empty"][i] = Null
      BY <1>1 DEF NoEmpties
    <3>7. QED
      BY <2>1, <3>3, <3>4, <3>5, <3>6, ListHead
  <2>3. FreeIn(h) \subseteq Cells(s, h.cell_size)
    <3> HIDE DEF h
    <3>1. QED
      BY <2>1, FreeList
  <2>4. QED
    BY <2>2, <2>3 DEF InUse
<1>6. QED
  BY <1>2, <1>4, <1>5

-----------------------------------------------------------------------------
(* The inductive invariant.                                                *)

Small(L) == { x \in L : ~Large(Bytes(x.n)) }
Larges(L) == { x \in L : Large(Bytes(x.n)) }

\* The cells in use are those of the users, each with one user
Owned(mem, L) ==
    /\ \A x \in Small(L) : InUse(mem, SlabFromCell(x.ptr), CellSize(Bytes(x.n)), x.ptr)
    /\ \A s, cs, c : InUse(mem, s, cs, c) => \E x \in Small(L) : x.ptr = c
    /\ \A x, y \in Small(L) : x.ptr = y.ptr => x = y

\* Large blocks are apart from slabs and from each other
LargeApart(mem, L) ==
    /\ \A x \in Larges(L), s \in DOMAIN mem : Span(x.ptr, Bytes(x.n)) \cap Span(s, SlabSize) = {}
    /\ \A x, y \in Larges(L) :
           x # y => Span(x.ptr, Bytes(x.n)) \cap Span(y.ptr, Bytes(y.n)) = {}

Requests == [ptr : Nat, n : Count]

\* What holds in every state
Inv ==
    /\ Good(a)
    /\ live \subseteq Requests /\ IsFiniteSet(live) /\ undefined \in BOOLEAN
    /\ Owned(a.mem, live)
    /\ LargeApart(a.mem, live)

\* A request of n elements takes at least n bytes
LEMMA BytesIs ==
    ASSUME NEW n \in Count
    PROVE  /\ n \in Nat /\ Bytes(n) \in Nat /\ n <= Bytes(n) /\ FreedBytes(n) = n
           /\ MaxCell \in Nat \ {0}
           /\ Large(FreedBytes(n)) => Large(Bytes(n))
<1>1. n \in Nat /\ SizeOfT \in Nat \ {0}
  BY AllocatorAssumption, Constants
<1>2. n * SizeOfT \in Nat /\ n <= n * SizeOfT
  <2>1. \E d \in Nat : SizeOfT = d + 1
    <3>1. SizeOfT - 1 \in Nat /\ SizeOfT = (SizeOfT - 1) + 1
      BY <1>1
    <3>2. QED
      BY <3>1
  <2>2. PICK d \in Nat : SizeOfT = d + 1
    BY <2>1
  <2>3. n * (d + 1) = n * d + n /\ n * d \in Nat
    BY <1>1
  <2>4. n * SizeOfT = n * d + n
    BY <2>2, <2>3
  <2>5. QED
    BY <1>1, <2>3, <2>4
<1>3. MaxCell \in Nat \ {0}
  <2>1. PICK k \in Nat : MaxCell = 2^(k + (SlabTypes - 1))
    BY Sizes
  <2>2. SlabTypes - 1 \in Nat
    BY Constants
  <2>3. k + (SlabTypes - 1) \in Nat
    BY <2>2
  <2> HIDE DEF MaxCell
  <2>4. QED
    BY <2>1, <2>3, PowerNat
<1>4. Bytes(n) = n * SizeOfT /\ FreedBytes(n) = n
  BY DEF Bytes, FreedBytes
<1> HIDE DEF MaxCell
<1>5. Large(FreedBytes(n)) => Large(Bytes(n))
  BY <1>1, <1>2, <1>3, <1>4 DEF Large
<1>6. QED
  BY <1>1, <1>2, <1>3, <1>4, <1>5

\* Where a request has its cell
LEMMA CellOf ==
    ASSUME NEW mem, NEW L, Owned(mem, L), NEW x \in Small(L)
    PROVE  InUse(mem, SlabFromCell(x.ptr), CellSize(Bytes(x.n)), x.ptr)
BY DEF Owned

\* In the beginning there are no slabs
LEMMA InitInv == Init => Inv
<1> SUFFICES ASSUME Init PROVE Inv
  OBVIOUS
<1>1. /\ a = [mem |-> [s \in {} |-> <<>>], empty |-> [i \in Index |-> Null],
              wip |-> [i \in Index |-> Null], filled |-> [i \in Index |-> Null]]
      /\ live = {} /\ undefined = FALSE
  BY DEF Init
<1>2. /\ a.mem = [s \in {} |-> <<>>] /\ a.empty = [i \in Index |-> Null]
      /\ a.wip = [i \in Index |-> Null] /\ a.filled = [i \in Index |-> Null]
      /\ a["empty"] = a.empty /\ a["wip"] = a.wip /\ a["filled"] = a.filled
  BY <1>1
<1>3. DOMAIN a.mem = {}
  BY <1>2
<1>4. a.mem \in [{} -> HeaderRecord]
  BY <1>2
<1>5. a \in Allocators
  <2>1. a.mem \in Memories
    BY <1>4 DEF Memories
  <2>2. [i \in Index |-> Null] \in [Index -> Pointer]
    BY DEF Pointer
  <2>3. QED
    BY <1>1, <1>2, <2>1, <2>2 DEF Allocators
<1>6. Listed(a, Homes(a.mem))
  <2>1. SUFFICES ASSUME NEW l \in Names, NEW i \in Index
                 PROVE  List(a.mem, a[l][i], At(Homes(a.mem), l, i))
    BY DEF Listed
  <2>2. a[l][i] = Null
    BY <1>2 DEF Names
  <2>3. At(Homes(a.mem), l, i) = {}
    BY <1>3 DEF At, Homes
  <2> DEFINE q == [j \in 1..0 |-> {}]
  <2>4. q \in Bijection(1..0, {})
    <3>1. q \in [1..0 -> {}]
      OBVIOUS
    <3>2. 1..0 = {}
      OBVIOUS
    <3>3. (\A j, k \in 1..0 : q[j] = q[k] => j = k) /\ (\A s \in {} : \E j \in 1..0 : q[j] = s)
      BY <3>2
    <3> HIDE DEF q
    <3>4. QED
      BY <3>1, <3>3, BijectionIs
  <2>5. Chain(a.mem, Null, {}, q, 0)
    BY <2>4 DEF Chain
  <2>6. QED
    BY <2>2, <2>3, <2>5 DEF List
<1>7. Good(a)
  BY <1>3, <1>5, <1>6 DEF Good
<1>8. Owned(a.mem, live) /\ LargeApart(a.mem, live)
  BY <1>1, <1>3 DEF Owned, LargeApart, Small, Larges, InUse
<1>9. IsFiniteSet(live)
  BY <1>1, FS_EmptySet
<1>10. QED
  BY <1>1, <1>7, <1>8, <1>9 DEF Inv

\* aligned_alloc keeps large blocks apart
LEMMA AllocateLargeInv ==
    ASSUME Inv, NEW n \in Count, AllocateLarge(n)
    PROVE  Inv'
<1>1. /\ Large(Bytes(n)) /\ a' = a /\ undefined' = undefined
  BY DEF AllocateLarge
<1>2. PICK p \in FreeLarge(Bytes(n)) : live' = live \cup {[ptr |-> p, n |-> n]}
  BY DEF AllocateLarge
<1> DEFINE x == [ptr |-> p, n |-> n]
<1>3. /\ p \in Nat
      /\ \A t \in LargeSpans \cup { Span(s, SlabSize) : s \in DOMAIN a.mem } :
             Span(p, Bytes(n)) \cap t = {}
  BY AllocatorAssumption DEF FreeLarge
<1>4. x \in Requests /\ x.ptr = p /\ x.n = n
  BY <1>3 DEF Requests
<1> HIDE DEF x
<1>5. live' \subseteq Requests /\ IsFiniteSet(live')
  BY <1>2, <1>4, FS_AddElement DEF Inv, x
<1>6. Small(live') = Small(live) /\ Larges(live') = Larges(live) \cup {x}
  BY <1>1, <1>2, <1>4 DEF Small, Larges, x
<1>7. LargeApart(a.mem, live')
  <2>1. \A y \in Larges(live) : Span(y.ptr, Bytes(y.n)) \in LargeSpans
    BY DEF LargeSpans, Larges
  <2>2. \A y \in Larges(live) : Span(p, Bytes(n)) \cap Span(y.ptr, Bytes(y.n)) = {}
    BY <1>3, <2>1
  <2>3. \A s \in DOMAIN a.mem : Span(p, Bytes(n)) \cap Span(s, SlabSize) = {}
    BY <1>3
  <2>4. LargeApart(a.mem, live)
    BY DEF Inv
  <2>5. \A y \in Larges(live'), s \in DOMAIN a.mem :
            Span(y.ptr, Bytes(y.n)) \cap Span(s, SlabSize) = {}
    BY <1>4, <1>6, <2>3, <2>4 DEF LargeApart
  <2>6. \A y, z \in Larges(live') :
            y # z => Span(y.ptr, Bytes(y.n)) \cap Span(z.ptr, Bytes(z.n)) = {}
    BY <1>4, <1>6, <2>2, <2>4 DEF LargeApart
  <2>7. QED
    BY <2>5, <2>6 DEF LargeApart
<1>8. Owned(a.mem, live')
  BY <1>6 DEF Inv, Owned
<1>9. QED
  BY <1>1, <1>5, <1>7, <1>8 DEF Inv

\* What smalloc did: cell c of slab t is in use
CellGot(n, t, c) ==
    /\ live' = live \cup {[ptr |-> c, n |-> n]}
    /\ undefined' = undefined
    /\ c \in Nat /\ SlabFromCell(c) = t
    /\ InUseToo(a', a, t, CellSize(Bytes(n)), c)
    /\ t \in DOMAIN a.mem \/ \A v \in LargeSpans : Span(t, SlabSize) \cap v = {}

\* The cell is one of a new slab where there is neither a wip nor an empty one
LEMMA AllocateCellIs ==
    ASSUME Inv, NEW n \in Count, ~Large(Bytes(n)), NEW s \in SlabAt, AllocateCell(n, s)
    PROVE  \E t, c : CellGot(n, t, c)
<1> DEFINE cs == CellSize(Bytes(n))
           i == IndexFromCellSize(cs)
           none == a.wip[i] = Null /\ a.empty[i] = Null
           z == IF none THEN WithNewSlab(a, i, cs, s) ELSE a
           w == WithWip(z, i)
           t == w.wip[i]
           c == Head(w.mem[t].free_list)
           x == [ptr |-> c, n |-> n]
<1>1. /\ none => s \in FreeSlabs
      /\ live' = live \cup {x}
      /\ a' = Popped(w, i)
      /\ undefined' = undefined
  BY DEF AllocateCell
<1>2. cs \in CellSizes
  <2>1. Bytes(n) \in Nat /\ Bytes(n) <= MaxCell
    <3>1. Bytes(n) \in Nat /\ MaxCell \in Nat
      BY BytesIs
    <3>2. ~(Bytes(n) > MaxCell)
      BY DEF Large
    <3> HIDE DEF MaxCell
    <3>3. QED
      BY <3>1, <3>2
  <2>2. QED
    BY <2>1, CellSizeOf
<1>3. i \in Index /\ cs = MinCell * 2^i
  <2>1. PICK j \in Index : cs = MinCell * 2^j
    BY <1>2 DEF CellSizes
  <2>2. i = j
    BY <2>1, IndexOfSize
  <2>3. QED
    BY <2>1, <2>2
<1>4. none => s \notin DOMAIN a.mem /\ \A v \in LargeSpans : Span(s, SlabSize) \cap v = {}
  BY <1>1 DEF FreeSlabs
<1> HIDE DEF cs, i
<1>5. /\ InUseToo(a', a, t, cs, c)
      /\ t \in DOMAIN a.mem \/ (t = s /\ none)
  <2>1. none => s \notin DOMAIN a.mem
    BY <1>4
  <2>2. Good(a)
    BY DEF Inv
  <2>3. z = IF none THEN WithNewSlab(a, i, cs, s) ELSE a
    OBVIOUS
  <2> HIDE DEF z
  <2>4. w = WithWip(z, i)
    OBVIOUS
  <2> HIDE DEF w
  <2>5. /\ InUseToo(Popped(w, i), a, w.wip[i], cs, Head(w.mem[w.wip[i]].free_list))
        /\ w.wip[i] \in DOMAIN a.mem \/ (w.wip[i] = s /\ a.wip[i] = Null /\ a.empty[i] = Null)
    BY <1>3, <2>1, <2>2, <2>3, <2>4, CellTakenIs
  <2>6. QED
    BY <1>1, <2>5
<1> HIDE DEF z, w, t, c, none
<1>6. /\ Good(a') /\ DOMAIN a'.mem = DOMAIN a.mem \cup {t}
      /\ \A k : ~InUse(a.mem, t, k, c)
      /\ \A u, k, d : InUse(a'.mem, u, k, d) <=> InUse(a.mem, u, k, d) \/ (u = t /\ k = cs /\ d = c)
  BY <1>5 DEF InUseToo
<1>7. InUse(a'.mem, t, cs, c)
  BY <1>6
<1>8. c \in Nat /\ SlabFromCell(c) = t
  <2>1. t \in SlabAt
    BY <1>6, AllocatorFields DEF Good
  <2>2. c \in Cells(t, cs)
    BY <1>7 DEF InUse
  <2>3. QED
    BY <1>2, <2>1, <2>2, CellPlace
<1>9. t \in DOMAIN a.mem \/ \A v \in LargeSpans : Span(t, SlabSize) \cap v = {}
  BY <1>4, <1>5
<1>10. CellGot(n, t, c)
  BY <1>1, <1>5, <1>8, <1>9 DEF CellGot, cs
<1>11. QED
  BY <1>10

\* smalloc gives a cell nobody has
LEMMA AllocateCellInv ==
    ASSUME Inv, NEW n \in Count, ~Large(Bytes(n)), NEW s \in SlabAt, AllocateCell(n, s)
    PROVE  Inv'
<1> DEFINE cs == CellSize(Bytes(n))
<1>1. PICK t, c : CellGot(n, t, c)
  BY AllocateCellIs
<1> DEFINE x == [ptr |-> c, n |-> n]
<1>2. /\ live' = live \cup {x}
      /\ undefined' = undefined
      /\ c \in Nat /\ SlabFromCell(c) = t
      /\ t \in DOMAIN a.mem \/ \A v \in LargeSpans : Span(t, SlabSize) \cap v = {}
  BY <1>1 DEF CellGot
<1>3. /\ Good(a') /\ DOMAIN a'.mem = DOMAIN a.mem \cup {t}
      /\ \A k : ~InUse(a.mem, t, k, c)
      /\ \A u, k, d : InUse(a'.mem, u, k, d) <=> InUse(a.mem, u, k, d) \/ (u = t /\ k = cs /\ d = c)
  BY <1>1 DEF CellGot, InUseToo
<1> HIDE DEF cs
<1>4. InUse(a'.mem, t, cs, c)
  BY <1>3
<1>5. x \in Requests /\ x.ptr = c /\ x.n = n
  BY <1>2 DEF Requests
<1> HIDE DEF x
<1>6. live' \subseteq Requests /\ IsFiniteSet(live')
  BY <1>2, <1>5, FS_AddElement DEF Inv
<1>7. Small(live') = Small(live) \cup {x} /\ Larges(live') = Larges(live)
  BY <1>2, <1>5 DEF Small, Larges
<1>8. Owned(a'.mem, live')
  <2>1. Owned(a.mem, live)
    BY DEF Inv
  <2>2. \A y \in Small(live') : InUse(a'.mem, SlabFromCell(y.ptr), CellSize(Bytes(y.n)), y.ptr)
    <3>1. InUse(a'.mem, SlabFromCell(x.ptr), CellSize(Bytes(x.n)), x.ptr)
      BY <1>2, <1>4, <1>5 DEF cs
    <3>2. \A y \in Small(live) : InUse(a'.mem, SlabFromCell(y.ptr), CellSize(Bytes(y.n)), y.ptr)
      BY <1>3, <2>1 DEF Owned
    <3>3. QED
      BY <1>7, <3>1, <3>2
  <2>3. \A u, k, d : InUse(a'.mem, u, k, d) => \E y \in Small(live') : y.ptr = d
    BY <1>3, <1>5, <1>7, <2>1 DEF Owned
  <2>4. \A y \in Small(live) : y.ptr # c
    BY <1>2, <1>3, <2>1, CellOf
  <2>5. \A y, v \in Small(live') : y.ptr = v.ptr => y = v
    BY <1>5, <1>7, <2>1, <2>4 DEF Owned
  <2>6. QED
    BY <2>2, <2>3, <2>5 DEF Owned
<1>9. LargeApart(a'.mem, live')
  <2>1. LargeApart(a.mem, live)
    BY DEF Inv
  <2>2. \A y \in Larges(live) : t \notin DOMAIN a.mem =>
            Span(y.ptr, Bytes(y.n)) \cap Span(t, SlabSize) = {}
    BY <1>2 DEF LargeSpans, Larges
  <2>3. QED
    BY <1>3, <1>7, <2>1, <2>2 DEF LargeApart
<1>10. QED
  BY <1>2, <1>3, <1>6, <1>8, <1>9 DEF Inv

\* Users without one of them
LEMMA LessLive ==
    ASSUME Inv, NEW x \in live, NEW L, L = live \ {x}
    PROVE  /\ L \subseteq Requests /\ IsFiniteSet(L)
           /\ LargeApart(a.mem, L)
           /\ Small(L) = Small(live) \ {x}
<1>1. L \subseteq Requests /\ IsFiniteSet(L)
  BY FS_RemoveElement DEF Inv
<1>2. Larges(L) \subseteq Larges(live) /\ Small(L) = Small(live) \ {x}
  BY DEF Larges, Small
<1>3. LargeApart(a.mem, L)
  BY <1>2 DEF Inv, LargeApart
<1>4. QED
  BY <1>1, <1>2, <1>3

\* A block that has no cell goes
LEMMA LargeGone ==
    ASSUME Inv, NEW x \in live, Large(Bytes(x.n)), live' = live \ {x}, a' = a, undefined' \in BOOLEAN
    PROVE  Inv'
<1>1. /\ live' \subseteq Requests /\ IsFiniteSet(live') /\ LargeApart(a.mem, live')
      /\ Small(live') = Small(live) \ {x}
  BY LessLive
<1>2. Small(live') = Small(live)
  BY <1>1 DEF Small
<1>3. Owned(a.mem, live')
  BY <1>2 DEF Inv, Owned
<1>4. QED
  BY <1>1, <1>3 DEF Inv

\* The slab of a large block is none
LEMMA LargeInNoSlab ==
    ASSUME Inv, NEW x \in live, Large(Bytes(x.n))
    PROVE  SlabFromCell(x.ptr) \notin DOMAIN a.mem
<1>1. SUFFICES ASSUME SlabFromCell(x.ptr) \in DOMAIN a.mem PROVE FALSE
  OBVIOUS
<1> DEFINE p == x.ptr
           s == SlabFromCell(p)
           m == Bytes(x.n)
<1>2. p \in Nat /\ x.n \in Count
  BY DEF Inv, Requests
<1>3. m \in Nat /\ m > 0
  <2>1. m \in Nat /\ MaxCell \in Nat \ {0}
    BY <1>2, BytesIs
  <2> HIDE DEF m, MaxCell
  <2>2. m > MaxCell
    BY DEF Large, m
  <2>3. QED
    BY <2>1, <2>2
<1>4. s \in Nat /\ s <= p /\ p <= s + SlabSize - 1
  <2>1. SlabSize \in Nat \ {0}
    BY Constants
  <2>2. s = p - (p % SlabSize)
    BY DEF SlabFromCell
  <2>3. p % SlabSize \in 0..(SlabSize - 1) /\ p % SlabSize = p - SlabSize * (p \div SlabSize)
    BY <1>2, <2>1
  <2>4. s \in SlabAt
    BY <1>1, AllocatorFields DEF Inv, Good
  <2>5. s \in Nat
    BY <2>4, AllocatorAssumption
  <2> HIDE DEF p, s
  <2>6. QED
    BY <1>2, <2>1, <2>2, <2>3, <2>5
<1>5. SlabSize \in Nat \ {0}
  BY Constants
<1> HIDE DEF p, s, m
<1>6. p \in Span(p, m) /\ p \in Span(s, SlabSize)
  BY <1>2, <1>3, <1>4, <1>5 DEF Span
<1>7. Span(p, m) \cap Span(s, SlabSize) = {}
  BY <1>1 DEF Inv, LargeApart, Larges, p, s, m
<1>8. QED
  BY <1>6, <1>7

\* sfree frees the cell of the user
LEMMA SmallGone ==
    ASSUME Inv, NEW x \in live, ~Large(Bytes(x.n)), live' = live \ {x},
           a' = Sfreed(a, x.ptr), undefined' = undefined
    PROVE  Inv'
<1> DEFINE t == SlabFromCell(x.ptr)
           c == x.ptr
<1>1. /\ live' \subseteq Requests /\ IsFiniteSet(live') /\ LargeApart(a.mem, live')
      /\ Small(live') = Small(live) \ {x}
  BY LessLive
<1>2. Owned(a.mem, live) /\ x \in Small(live) /\ Good(a)
  BY DEF Inv, Small
<1>3. InUse(a.mem, t, CellSize(Bytes(x.n)), c)
  BY <1>2, CellOf
<1>4. NotInUse(a', a, t, c)
  BY <1>2, <1>3, CellGivenIs
<1>5. /\ Good(a') /\ DOMAIN a'.mem = DOMAIN a.mem
      /\ \A s, k, d : InUse(a'.mem, s, k, d) <=> InUse(a.mem, s, k, d) /\ ~(s = t /\ d = c)
  BY <1>4 DEF NotInUse
<1>6. LargeApart(a'.mem, live')
  BY <1>1, <1>5 DEF LargeApart
<1>7. Owned(a'.mem, live')
  <2>1. \A y \in Small(live') : InUse(a'.mem, SlabFromCell(y.ptr), CellSize(Bytes(y.n)), y.ptr)
    BY <1>1, <1>2, <1>5 DEF Owned
  <2>2. ASSUME NEW s, NEW k, NEW d, InUse(a'.mem, s, k, d)
        PROVE  \E y \in Small(live') : y.ptr = d
    <3>1. InUse(a.mem, s, k, d) /\ ~(s = t /\ d = c)
      BY <1>5, <2>2
    <3>2. SlabFromCell(d) = s
      <4>1. s \in SlabAt /\ k \in CellSizes /\ d \in Cells(s, k)
        <5>1. s \in DOMAIN a.mem /\ d \in Cells(s, k) /\ a.mem[s].cell_size = k
          BY <3>1 DEF InUse
        <5>2. CellsOK(s, a.mem[s]) /\ s \in SlabAt
          BY <1>2, <5>1, AllocatorFields DEF Good
        <5>3. QED
          BY <5>1, <5>2 DEF CellsOK
      <4>2. QED
        BY <4>1, CellPlace
    <3>3. d # c
      BY <3>1, <3>2
    <3>4. PICK y \in Small(live) : y.ptr = d
      BY <1>2, <3>1 DEF Owned
    <3>5. QED
      BY <1>1, <3>3, <3>4
  <2>3. \A y, v \in Small(live') : y.ptr = v.ptr => y = v
    BY <1>1, <1>2 DEF Owned
  <2>4. QED
    BY <2>1, <2>2, <2>3 DEF Owned
<1>8. QED
  BY <1>1, <1>5, <1>6, <1>7 DEF Inv

\* deallocate, of a large block and of a cell, whatever it takes them for
LEMMA DeallocateInv ==
    ASSUME Inv, NEW x \in live, Deallocate(x)
    PROVE  Inv'
<1>1. live' = live \ {x} /\ (DeallocateLarge(x) \/ DeallocateCell(x))
  BY DEF Deallocate
<1>2. x.n \in Count
  BY DEF Inv, Requests
<1>3. CASE DeallocateLarge(x)
  <2>1. Large(Bytes(x.n)) /\ a' = a /\ undefined' = undefined
    BY <1>2, <1>3, BytesIs DEF DeallocateLarge
  <2>2. undefined' \in BOOLEAN
    BY <2>1 DEF Inv
  <2>3. QED
    BY <1>1, <2>1, <2>2, LargeGone
<1>4. CASE DeallocateCell(x)
  <2>1. CASE Large(Bytes(x.n))
    <3>1. a' = a /\ undefined' = TRUE
      BY <1>4, <2>1, LargeInNoSlab DEF DeallocateCell
    <3>2. QED
      BY <1>1, <2>1, <3>1, LargeGone
  <2>2. CASE ~Large(Bytes(x.n))
    <3>1. x \in Small(live) /\ Owned(a.mem, live)
      BY <2>2 DEF Small, Inv
    <3>2. SlabFromCell(x.ptr) \in DOMAIN a.mem
      BY <3>1, CellOf DEF InUse
    <3>3. a' = Sfreed(a, x.ptr) /\ undefined' = undefined
      BY <1>4, <3>2 DEF DeallocateCell
    <3>4. QED
      BY <1>1, <2>2, <3>3, SmallGone
  <2>3. QED
    BY <2>1, <2>2
<1>5. QED
  BY <1>1, <1>3, <1>4

\* clear takes nothing away that is in use
LEMMA ClearInv ==
    ASSUME Inv, Clear
    PROVE  Inv'
<1>1. a' = Cleared(a) /\ live' = live /\ undefined' = undefined /\ Good(a)
  BY DEF Clear, Inv
<1>2. /\ Good(a') /\ DOMAIN a'.mem \subseteq DOMAIN a.mem
      /\ \A s, k, d : InUse(a'.mem, s, k, d) <=> InUse(a.mem, s, k, d)
  BY <1>1, ClearedInUse
<1>3. Owned(a'.mem, live)
  BY <1>2 DEF Inv, Owned
<1>4. LargeApart(a'.mem, live)
  BY <1>2 DEF Inv, LargeApart
<1>5. QED
  BY <1>1, <1>2, <1>3, <1>4 DEF Inv

\* Every step keeps the invariant
LEMMA NextInv == Inv /\ [Next]_vars => Inv'
<1> SUFFICES ASSUME Inv, [Next]_vars PROVE Inv'
  OBVIOUS
<1>1. ASSUME NEW n \in Count, Allocate(n)
      PROVE  Inv'
  <2>1. CASE AllocateLarge(n)
    BY <2>1, AllocateLargeInv
  <2>2. CASE ~Large(Bytes(n)) /\ \E s \in SlabAt : AllocateCell(n, s)
    BY <2>2, AllocateCellInv
  <2>3. QED
    BY <1>1, <2>1, <2>2 DEF Allocate
<1>2. ASSUME NEW x \in live, Deallocate(x)
      PROVE  Inv'
  BY <1>2, DeallocateInv
<1>3. CASE Clear
  BY <1>3, ClearInv
<1>4. CASE UNCHANGED vars
  BY <1>4 DEF vars, Inv
<1>5. QED
  BY <1>1, <1>2, <1>3, <1>4 DEF Next

\* The invariant of every behaviour: each slab is in the list it belongs into, its free
\* cells are cells of it, and the cells that are not free are the users', one each
\* (singleton_slab_allocator.hpp:142-210)
THEOREM SlabAllocatorInvariant == Spec => []Inv
BY InitInv, NextInv, PTL DEF Spec

-----------------------------------------------------------------------------
(* Types.                                                                  *)

\* A slab's links lead to slabs
LEMMA LinksIn ==
    ASSUME NEW x, Good(x), NEW s \in DOMAIN x.mem
    PROVE  {x.mem[s].prev, x.mem[s].next} \subseteq DOMAIN x.mem \cup {Null}
<1> DEFINE D == DOMAIN x.mem
<1>1. /\ D \in SUBSET SlabAt /\ x.mem \in [D -> HeaderRecord] /\ CellsOK(s, x.mem[s])
      /\ Listed(x, Homes(x.mem))
  BY AllocatorFields DEF Good
<1>2. PICK l \in Names, i \in Index : Home(x.mem[s]) = <<l, i>>
  BY <1>1, HomeIs
<1> DEFINE S == At(Homes(x.mem), l, i)
<1>3. s \in S /\ S \subseteq D
  BY <1>2 DEF At, Homes
<1>4. PICK k, q : Chain(x.mem, x[l][i], S, q, k)
  BY <1>1 DEF Listed, List
<1>5. k \in Nat /\ q \in Bijection(1..k, S)
  BY <1>4 DEF Chain
<1>6. PICK p \in 1..k : q[p] = s
  <2> HIDE DEF S
  <2>1. QED
    BY <1>3, <1>5, BijectionIs
<1>7. x.mem[q[p]].prev \in (S \cup {Null}) \ {q[p]} /\ x.mem[q[p]].next \in (S \cup {Null}) \ {q[p]}
  <2> HIDE DEF S, D
  <2>1. QED
    BY <1>1, <1>3, <1>4, ChainNeighbours
<1>8. QED
  BY <1>3, <1>6, <1>7

\* The invariant gives the types
LEMMA InvTypeOK == Inv => TypeOK
<1> SUFFICES ASSUME Inv PROVE TypeOK
  OBVIOUS
<1>1. Good(a) /\ a \in Allocators
  BY DEF Inv, Good
<1>2. /\ DOMAIN a.mem \in SUBSET SlabAt /\ a.mem \in [DOMAIN a.mem -> HeaderRecord]
      /\ \A l \in Names : a[l] \in [Index -> Pointer]
  BY <1>1, AllocatorFields, Constants
<1>3. ASSUME NEW s \in DOMAIN a.mem
      PROVE  HeaderOK(a.mem[s])
  <2>1. a.mem[s] \in HeaderRecord /\ CellsOK(s, a.mem[s])
    BY <1>1, <1>2 DEF Good
  <2>2. /\ a.mem[s].free_list \in Seq(Nat) /\ Len(a.mem[s].free_list) = a.mem[s].free_cells_cnt
        /\ a.mem[s].cell_size \in CellSizes
    BY <2>1, FreeList
  <2>3. {a.mem[s].prev, a.mem[s].next} \subseteq DOMAIN a.mem \cup {Null}
    BY <1>1, LinksIn
  <2>4. QED
    BY <2>2, <2>3 DEF HeaderOK, CellSizes
<1>4. ASSUME NEW l \in Names
      PROVE  a[l] \in [Index -> DOMAIN a.mem \cup {Null}]
  <2>1. \A i \in Index : a[l][i] \in DOMAIN a.mem \cup {Null}
    BY <1>1, HeadIs
  <2>2. QED
    BY <1>2, <2>1
<1>5. live \subseteq [ptr : Nat, n : Count] /\ undefined \in BOOLEAN
  BY DEF Inv, Requests
<1>6. QED
  BY <1>2, <1>3, <1>4, <1>5 DEF TypeOK, Names

\* A header is one new_slab and the lists can have made, and free_cells_cnt counts the
\* free list (singleton_slab_allocator.hpp:51-52)
THEOREM SlabAllocatorTypes == Spec => []TypeOK
BY SlabAllocatorInvariant, InvTypeOK, PTL

-----------------------------------------------------------------------------
(* The bytes of users, and the allocator's own.                            *)

\* The bytes of a cell, or the first ones of it, are in its slab behind the header
LEMMA CellInSlab ==
    ASSUME NEW s \in SlabAt, NEW cs \in CellSizes, NEW c \in Cells(s, cs), NEW m \in Nat, m <= cs
    PROVE  /\ Span(c, m) \subseteq Span(s, SlabSize)
           /\ Span(c, m) \cap Span(s, HeaderSize) = {}
           /\ Span(c, m) # {}
<1>1. /\ c \in Nat /\ cs \in Nat \ {0} /\ s + HeaderSize <= c /\ c + cs <= s + SlabSize
  BY CellPlace
<1>2. s \in Nat /\ HeaderSize \in Nat \ {0} /\ SlabSize \in Nat \ {0}
  BY AllocatorAssumption, Constants
<1>3. \A b \in Span(c, m) : b \in Int /\ c <= b /\ b < c + cs
  BY <1>1 DEF Span
<1>4. Span(c, m) \subseteq Span(s, SlabSize)
  BY <1>1, <1>2, <1>3 DEF Span
<1>5. \A b \in Span(s, HeaderSize) : b < s + HeaderSize
  BY <1>2 DEF Span
<1>6. Span(c, m) \cap Span(s, HeaderSize) = {}
  BY <1>1, <1>2, <1>3, <1>5
<1>7. c \in Span(c, m)
  BY <1>1 DEF Span
<1>8. QED
  BY <1>4, <1>6, <1>7

\* Slabs share no byte
LEMMA SlabSpansApart ==
    ASSUME NEW s \in SlabAt, NEW t \in SlabAt, s # t
    PROVE  Span(s, SlabSize) \cap Span(t, SlabSize) = {}
<1>1. s \in Nat /\ t \in Nat /\ SlabSize \in Nat \ {0}
  BY AllocatorAssumption, Constants
<1>2. s + SlabSize <= t \/ t + SlabSize <= s
  BY <1>1, SlabsApart
<1>3. QED
  BY <1>1, <1>2 DEF Span

\* A header is in its slab
LEMMA HeaderInSlab ==
    ASSUME NEW s \in SlabAt
    PROVE  Span(s, HeaderSize) \subseteq Span(s, SlabSize)
<1>1. s \in Nat /\ HeaderSize \in Nat \ {0} /\ SlabSize \in Nat \ {0} /\ 0 \in Index
  BY AllocatorAssumption, Constants
<1> DEFINE cs == MinCell * 2^0
<1>2. cs \in CellSizes
  BY <1>1, IndexOfSize
<1> HIDE DEF cs
<1>3. Reserved(cs) + MaxCells(cs) * cs <= SlabSize /\ HeaderSize <= Reserved(cs)
      /\ MaxCells(cs) * cs \in Nat /\ Reserved(cs) \in Nat
  BY <1>2, CellSizeFits DEF SizeFits
<1>4. HeaderSize <= SlabSize
  BY <1>1, <1>3
<1>5. QED
  BY <1>1, <1>4 DEF Span

\* Two cells of a slab share no byte
LEMMA CellSpansApart ==
    ASSUME NEW s \in SlabAt, NEW cs \in CellSizes, NEW c \in Cells(s, cs), NEW d \in Cells(s, cs),
           c # d, NEW m \in Nat, m <= cs, NEW k \in Nat, k <= cs
    PROVE  Span(c, m) \cap Span(d, k) = {}
<1>1. c \in Nat /\ d \in Nat /\ cs \in Nat \ {0}
  BY CellPlace
<1>2. c + cs <= d \/ d + cs <= c
  BY <1>1, CellsApart
<1>3. \A b \in Span(c, m) : b \in Int /\ c <= b /\ b < c + cs
  BY <1>1 DEF Span
<1>4. \A b \in Span(d, k) : b \in Int /\ d <= b /\ b < d + cs
  BY <1>1 DEF Span
<1>5. QED
  BY <1>1, <1>2, <1>3, <1>4

\* What is known of a user's cell
CellFacts(x, s, cs) ==
    /\ s \in SlabAt /\ s \in DOMAIN a.mem /\ cs \in CellSizes
    /\ x.ptr \in Cells(s, cs) /\ x.ptr \notin FreeIn(a.mem[s]) /\ a.mem[s].cell_size = cs
    /\ Bytes(x.n) \in Nat /\ Bytes(x.n) <= cs

\* A user of a cell has it in a slab that is there
LEMMA SmallFacts ==
    ASSUME Inv, NEW x \in Small(live)
    PROVE  CellFacts(x, SlabFromCell(x.ptr), CellSize(Bytes(x.n)))
<1> DEFINE s == SlabFromCell(x.ptr)
           cs == CellSize(Bytes(x.n))
<1>1. Owned(a.mem, live) /\ Good(a) /\ x.n \in Count /\ ~Large(Bytes(x.n))
  BY DEF Inv, Small, Requests
<1>2. InUse(a.mem, s, cs, x.ptr)
  BY <1>1, CellOf
<1>3. /\ s \in DOMAIN a.mem /\ a.mem[s].cell_size = cs /\ x.ptr \in Cells(s, cs)
      /\ x.ptr \notin FreeIn(a.mem[s])
  BY <1>2 DEF InUse
<1>4. s \in SlabAt
  BY <1>1, <1>3, AllocatorFields DEF Good
<1>5. Bytes(x.n) \in Nat /\ Bytes(x.n) <= MaxCell
  <2>1. Bytes(x.n) \in Nat /\ MaxCell \in Nat
    BY <1>1, BytesIs
  <2>2. ~(Bytes(x.n) > MaxCell)
    BY <1>1 DEF Large
  <2> HIDE DEF MaxCell
  <2>3. QED
    BY <2>1, <2>2
<1>6. cs \in CellSizes /\ Bytes(x.n) <= cs
  BY <1>5, CellSizeOf
<1>7. QED
  BY <1>3, <1>4, <1>5, <1>6 DEF CellFacts

\* Two users share no byte
LEMMA LiveApart ==
    ASSUME Inv, NEW x \in live, NEW y \in live, x # y
    PROVE  Span(x.ptr, Bytes(x.n)) \cap Span(y.ptr, Bytes(y.n)) = {}
<1> DEFINE X == Span(x.ptr, Bytes(x.n))
           Y == Span(y.ptr, Bytes(y.n))
           s == SlabFromCell(x.ptr)
           t == SlabFromCell(y.ptr)
           cs == CellSize(Bytes(x.n))
           ct == CellSize(Bytes(y.n))
<1>1. x \in Small(live) => CellFacts(x, s, cs) /\ X \subseteq Span(s, SlabSize)
  <2>1. SUFFICES ASSUME x \in Small(live)
                 PROVE  CellFacts(x, s, cs) /\ X \subseteq Span(s, SlabSize)
    OBVIOUS
  <2>2. CellFacts(x, s, cs)
    BY <2>1, SmallFacts
  <2> HIDE DEF s, cs
  <2>3. QED
    BY <2>2, CellInSlab DEF CellFacts
<1>2. y \in Small(live) => CellFacts(y, t, ct) /\ Y \subseteq Span(t, SlabSize)
  <2>1. SUFFICES ASSUME y \in Small(live)
                 PROVE  CellFacts(y, t, ct) /\ Y \subseteq Span(t, SlabSize)
    OBVIOUS
  <2>2. CellFacts(y, t, ct)
    BY <2>1, SmallFacts
  <2> HIDE DEF t, ct
  <2>3. QED
    BY <2>2, CellInSlab DEF CellFacts
<1>3. LargeApart(a.mem, live) /\ Owned(a.mem, live)
  BY DEF Inv
<1>4. CASE Large(Bytes(x.n)) /\ Large(Bytes(y.n))
  BY <1>3, <1>4 DEF LargeApart, Larges
<1>5. CASE Large(Bytes(x.n)) /\ ~Large(Bytes(y.n))
  <2>1. CellFacts(y, t, ct) /\ Y \subseteq Span(t, SlabSize) /\ x \in Larges(live)
    BY <1>2, <1>5 DEF Small, Larges
  <2>2. X \cap Span(t, SlabSize) = {}
    BY <1>3, <2>1 DEF LargeApart, CellFacts
  <2>3. QED
    BY <2>1, <2>2
<1>6. CASE ~Large(Bytes(x.n)) /\ Large(Bytes(y.n))
  <2>1. CellFacts(x, s, cs) /\ X \subseteq Span(s, SlabSize) /\ y \in Larges(live)
    BY <1>1, <1>6 DEF Small, Larges
  <2>2. Y \cap Span(s, SlabSize) = {}
    BY <1>3, <2>1 DEF LargeApart, CellFacts
  <2>3. QED
    BY <2>1, <2>2
<1>7. CASE ~Large(Bytes(x.n)) /\ ~Large(Bytes(y.n))
  <2>1. /\ CellFacts(x, s, cs) /\ X \subseteq Span(s, SlabSize)
        /\ CellFacts(y, t, ct) /\ Y \subseteq Span(t, SlabSize)
        /\ x.ptr # y.ptr
    BY <1>1, <1>2, <1>3, <1>7 DEF Small, Owned
  <2> HIDE DEF X, Y, s, t, cs, ct
  <2>2. CASE s # t
    <3>1. Span(s, SlabSize) \cap Span(t, SlabSize) = {}
      BY <2>1, <2>2, SlabSpansApart DEF CellFacts
    <3>2. X \cap Y = {}
      BY <2>1, <3>1
    <3>3. QED
      BY <3>2 DEF X, Y
  <2>3. CASE s = t
    BY <2>1, <2>3, CellSpansApart DEF CellFacts
  <2>4. QED
    BY <2>2, <2>3
<1>8. QED
  BY <1>4, <1>5, <1>6, <1>7

\* As many blocks as users: no two are the same
LEMMA LiveSpansCount ==
    ASSUME Inv
    PROVE  Cardinality(LiveSpans) = Cardinality(live)
<1> DEFINE f == [x \in live |-> Span(x.ptr, Bytes(x.n))]
<1>1. IsFiniteSet(live) /\ live \subseteq Requests
  BY DEF Inv
<1>2. LiveSpans = { f[x] : x \in live } /\ f \in [live -> LiveSpans]
  BY DEF LiveSpans
<1>3. ASSUME NEW x \in live, NEW y \in live, f[x] = f[y]
      PROVE  x = y
  <2>1. x.ptr \in Nat /\ Bytes(x.n) \in Nat
    BY <1>1, BytesIs DEF Requests
  <2>2. f[x] # {}
    BY <2>1 DEF Span
  <2>3. x # y => f[x] \cap f[y] = {}
    BY LiveApart
  <2>4. QED
    BY <1>3, <2>2, <2>3
<1> HIDE DEF f
<1>4. f \in Bijection(live, LiveSpans)
  <2>1. f \in Injection(live, LiveSpans)
    BY <1>2, <1>3 DEF Injection, IsInjective
  <2>2. f \in Surjection(live, LiveSpans)
    BY <1>2 DEF Surjection
  <2>3. QED
    BY <2>1, <2>2 DEF Bijection
<1>5. QED
  BY <1>1, <1>4, FS_Bijection DEF ExistsBijection

\* A part of slab s the allocator keeps for itself
OwnPart(v, s) ==
    v = Span(s, HeaderSize) \/ \E c \in FreeIn(a.mem[s]) : v = Span(c, a.mem[s].cell_size)

\* They are all there are
LEMMA OwnSpansAre ==
    ASSUME Inv, NEW v \in OwnSpans
    PROVE  \E s \in DOMAIN a.mem : OwnPart(v, s)
<1>1. PICK s \in DOMAIN a.mem :
          v \in {Span(s, HeaderSize)} \cup
                { Span(c, a.mem[s].cell_size) : c \in ToSet(a.mem[s].free_list) }
  BY DEF OwnSpans
<1>2. ToSet(a.mem[s].free_list) = FreeIn(a.mem[s])
  <2>1. a.mem[s] \in HeaderRecord /\ CellsOK(s, a.mem[s])
    BY AllocatorFields, Fields DEF Inv, Good
  <2> DEFINE h == a.mem[s]
  <2>2. DOMAIN h.free_list = 1..h.free_cells_cnt
    <3> HIDE DEF h
    <3>1. h \in HeaderRecord /\ CellsOK(s, h)
      BY <2>1 DEF h
    <3>2. QED
      BY <3>1, FreeList
  <2>3. QED
    BY <2>2 DEF ToSet, FreeIn
<1>3. QED
  BY <1>1, <1>2 DEF OwnPart

\* Where they are
LEMMA OwnPartIs ==
    ASSUME Inv, NEW s \in DOMAIN a.mem, NEW v, OwnPart(v, s)
    PROVE  /\ s \in SlabAt /\ a.mem[s].cell_size \in CellSizes /\ a.mem[s].cell_size \in Nat
           /\ FreeIn(a.mem[s]) \subseteq Cells(s, a.mem[s].cell_size)
           /\ v \subseteq Span(s, SlabSize)
<1>1. a.mem[s] \in HeaderRecord /\ CellsOK(s, a.mem[s]) /\ s \in SlabAt
  BY AllocatorFields, Fields DEF Inv, Good
<1> DEFINE h == a.mem[s]
<1>2. h.cell_size \in CellSizes /\ FreeIn(h) \subseteq Cells(s, h.cell_size) /\ h.cell_size \in Nat
  <2> HIDE DEF h
  <2>1. h \in HeaderRecord /\ CellsOK(s, h)
    BY <1>1 DEF h
  <2>2. QED
    BY <2>1, FreeList, CellSizeFits DEF SizeFits
<1> HIDE DEF h
<1>3. CASE v = Span(s, HeaderSize)
  BY <1>1, <1>2, <1>3, HeaderInSlab DEF h
<1>4. ASSUME NEW c \in FreeIn(h), v = Span(c, h.cell_size)
      PROVE  v \subseteq Span(s, SlabSize)
  <2>1. c \in Cells(s, h.cell_size) /\ h.cell_size <= h.cell_size
    BY <1>2
  <2>2. QED
    BY <1>1, <1>2, <1>4, <2>1, CellInSlab
<1>5. QED
  BY <1>1, <1>2, <1>3, <1>4 DEF OwnPart, h

\* Users and the allocator share no byte
LEMMA LiveOwnApart ==
    ASSUME Inv, NEW x \in live, NEW t \in DOMAIN a.mem, NEW v, OwnPart(v, t)
    PROVE  Span(x.ptr, Bytes(x.n)) \cap v = {}
<1> DEFINE X == Span(x.ptr, Bytes(x.n))
           s == SlabFromCell(x.ptr)
           cs == CellSize(Bytes(x.n))
           h == a.mem[t]
<1>1. /\ t \in SlabAt /\ h.cell_size \in CellSizes /\ h.cell_size \in Nat
      /\ FreeIn(h) \subseteq Cells(t, h.cell_size)
      /\ v \subseteq Span(t, SlabSize)
  BY OwnPartIs
<1>2. CASE Large(Bytes(x.n))
  <2>1. x \in Larges(live) /\ LargeApart(a.mem, live)
    BY <1>2 DEF Larges, Inv
  <2>2. X \cap Span(t, SlabSize) = {}
    BY <2>1 DEF LargeApart
  <2>3. QED
    BY <1>1, <2>2
<1>3. CASE ~Large(Bytes(x.n))
  <2>1. x \in Small(live)
    BY <1>3 DEF Small
  <2>2. CellFacts(x, s, cs)
    BY <2>1, SmallFacts
  <2> HIDE DEF s, cs
  <2>3. /\ X \subseteq Span(s, SlabSize) /\ X \cap Span(s, HeaderSize) = {}
    BY <2>2, CellInSlab DEF CellFacts
  <2>4. CASE s # t
    <3>1. Span(s, SlabSize) \cap Span(t, SlabSize) = {}
      BY <1>1, <2>2, <2>4, SlabSpansApart DEF CellFacts
    <3> HIDE DEF X
    <3>2. X \cap v = {}
      BY <1>1, <2>3, <3>1
    <3>3. QED
      BY <3>2 DEF X
  <2>5. CASE s = t /\ v = Span(t, HeaderSize)
    BY <2>3, <2>5
  <2>6. ASSUME NEW c \in FreeIn(h), s = t, v = Span(c, h.cell_size)
        PROVE  X \cap v = {}
    <3>1. /\ cs = h.cell_size /\ x.ptr \in Cells(t, cs) /\ c \in Cells(t, cs) /\ x.ptr # c
          /\ Bytes(x.n) \in Nat /\ Bytes(x.n) <= cs /\ cs \in CellSizes /\ cs \in Nat /\ cs <= cs
      BY <1>1, <2>2, <2>6 DEF CellFacts
    <3>2. Span(x.ptr, Bytes(x.n)) \cap Span(c, cs) = {}
      BY <1>1, <3>1, CellSpansApart
    <3>3. QED
      BY <2>6, <3>1, <3>2
  <2>7. QED
    BY <2>4, <2>5, <2>6 DEF OwnPart
<1>4. QED
  BY <1>2, <1>3

\* Nor do two parts of the allocator
LEMMA OwnApart ==
    ASSUME Inv, NEW s \in DOMAIN a.mem, NEW t \in DOMAIN a.mem, NEW u, NEW v,
           OwnPart(u, s), OwnPart(v, t)
    PROVE  Apart(u, v)
<1>1. /\ s \in SlabAt /\ a.mem[s].cell_size \in CellSizes /\ a.mem[s].cell_size \in Nat
      /\ FreeIn(a.mem[s]) \subseteq Cells(s, a.mem[s].cell_size)
      /\ u \subseteq Span(s, SlabSize)
  BY OwnPartIs
<1>2. t \in SlabAt /\ v \subseteq Span(t, SlabSize)
  BY OwnPartIs
<1>3. CASE s # t
  <2>1. Span(s, SlabSize) \cap Span(t, SlabSize) = {}
    BY <1>1, <1>2, <1>3, SlabSpansApart
  <2>2. u \cap v = {}
    BY <1>1, <1>2, <2>1
  <2>3. QED
    BY <2>2 DEF Apart
<1>4. CASE s = t
  <2> DEFINE F == FreeIn(a.mem[s])
             cs == a.mem[s].cell_size
             H == Span(s, HeaderSize)
  <2>1. \A c \in F : Span(c, cs) \cap H = {}
    <3>1. SUFFICES ASSUME NEW c \in F PROVE Span(c, cs) \cap H = {}
      OBVIOUS
    <3>2. c \in Cells(s, cs) /\ cs <= cs
      BY <1>1
    <3> HIDE DEF cs, H, F
    <3>3. cs \in CellSizes /\ cs \in Nat
      BY <1>1 DEF cs
    <3>4. QED
      BY <1>1, <3>2, <3>3, CellInSlab DEF H
  <2>2. \A c, d \in F : c # d => Span(c, cs) \cap Span(d, cs) = {}
    <3>1. SUFFICES ASSUME NEW c \in F, NEW d \in F, c # d
                   PROVE  Span(c, cs) \cap Span(d, cs) = {}
      OBVIOUS
    <3>2. c \in Cells(s, cs) /\ d \in Cells(s, cs) /\ cs <= cs /\ cs \in CellSizes /\ cs \in Nat
      BY <1>1
    <3> HIDE DEF cs, F
    <3>3. QED
      BY <1>1, <3>1, <3>2, CellSpansApart
  <2>3. (u = H \/ \E c \in F : u = Span(c, cs)) /\ (v = H \/ \E c \in F : v = Span(c, cs))
    BY <1>4 DEF OwnPart
  <2> HIDE DEF F, cs, H
  <2>4. QED
    BY <2>1, <2>2, <2>3 DEF Apart
<1>5. QED
  BY <1>3, <1>4

\* The invariant keeps users and the allocator apart
LEMMA InvNoOverlap == Inv => NoOverlap
<1> SUFFICES ASSUME Inv PROVE NoOverlap
  OBVIOUS
<1>1. ASSUME NEW u \in LiveSpans
      PROVE  \E x \in live : u = Span(x.ptr, Bytes(x.n))
  BY DEF LiveSpans
<1>2. ASSUME NEW u \in LiveSpans, NEW v \in LiveSpans
      PROVE  Apart(u, v)
  <2>1. PICK x \in live : u = Span(x.ptr, Bytes(x.n))
    BY <1>1
  <2>2. PICK y \in live : v = Span(y.ptr, Bytes(y.n))
    BY <1>1
  <2>3. x # y => u \cap v = {}
    BY <2>1, <2>2, LiveApart
  <2>4. QED
    BY <2>1, <2>2, <2>3 DEF Apart
<1>3. ASSUME NEW u \in LiveSpans, NEW v \in OwnSpans
      PROVE  u \cap v = {}
  <2>1. PICK x \in live : u = Span(x.ptr, Bytes(x.n))
    BY <1>1
  <2>2. PICK t \in DOMAIN a.mem : OwnPart(v, t)
    BY OwnSpansAre
  <2>3. QED
    BY <2>1, <2>2, LiveOwnApart
<1>4. ASSUME NEW u \in OwnSpans, NEW v \in OwnSpans
      PROVE  Apart(u, v)
  <2>1. PICK s \in DOMAIN a.mem : OwnPart(u, s)
    BY OwnSpansAre
  <2>2. PICK t \in DOMAIN a.mem : OwnPart(v, t)
    BY OwnSpansAre
  <2>3. QED
    BY <2>1, <2>2, OwnApart
<1>5. Cardinality(LiveSpans) = Cardinality(live)
  BY LiveSpansCount
<1>6. QED
  BY <1>2, <1>3, <1>4, <1>5 DEF NoOverlap

\* It aligns users' cells
LEMMA InvAligned == Inv => Aligned
<1> SUFFICES ASSUME Inv, NEW x \in live, ~Large(Bytes(x.n))
             PROVE  x.ptr % CellSize(Bytes(x.n)) = 0
  BY DEF Aligned
<1>1. CellFacts(x, SlabFromCell(x.ptr), CellSize(Bytes(x.n)))
  BY SmallFacts DEF Small
<1>2. QED
  BY <1>1, CellPlace DEF CellFacts

\* Whatever is allocated, deallocated and cleared in whatever order, and also when a
\* large block is freed that is taken for a cell: every cell is aligned to its size and
\* no byte has two users, or a user and the allocator
\* (singleton_slab_allocator.hpp:142-210)
THEOREM BlocksAreApart == Spec => [](Aligned /\ NoOverlap)
<1>1. Inv => Aligned /\ NoOverlap
  BY InvAligned, InvNoOverlap
<1>2. QED
  BY <1>1, SlabAllocatorInvariant, PTL

\* deallocate tells large blocks from cells where it is given what allocate was, as it is
\* for elements of a byte
DeallocateKnows == \A n \in Count : Large(FreedBytes(n)) <=> Large(Bytes(n))

\* Elements of a byte are such
LEMMA BytesAreKnown == SizeOfT = 1 => DeallocateKnows
<1>1. \A n \in Count : SizeOfT = 1 => FreedBytes(n) = Bytes(n)
  BY AllocatorAssumption DEF Bytes, FreedBytes
<1>2. QED
  BY <1>1 DEF DeallocateKnows

\* What is freed is then found
LEMMA NothingUndefined ==
    ASSUME DeallocateKnows
    PROVE  /\ Init => ~undefined
           /\ Inv /\ ~undefined /\ [Next]_vars => ~undefined'
<1>1. Init => ~undefined
  BY DEF Init
<1>2. ASSUME Inv, ~undefined, [Next]_vars
      PROVE  ~undefined'
  <2>1. ASSUME NEW n \in Count, Allocate(n)
        PROVE  undefined' = undefined
    BY <2>1 DEF Allocate, AllocateLarge, AllocateCell
  <2>2. ASSUME NEW x \in live, Deallocate(x)
        PROVE  undefined' = undefined
    <3>1. CASE DeallocateLarge(x)
      BY <3>1 DEF DeallocateLarge
    <3>2. CASE DeallocateCell(x)
      <4>1. x.n \in Count
        BY <1>2 DEF Inv, Requests
      <4>2. ~Large(Bytes(x.n))
        BY <3>2, <4>1 DEF DeallocateCell, DeallocateKnows
      <4>3. CellFacts(x, SlabFromCell(x.ptr), CellSize(Bytes(x.n)))
        BY <1>2, <4>2, SmallFacts DEF Small
      <4>4. QED
        BY <3>2, <4>3 DEF DeallocateCell, CellFacts
    <3>3. QED
      BY <2>2, <3>1, <3>2 DEF Deallocate
  <2>3. CASE Clear
    BY <1>2, <2>3 DEF Clear
  <2>4. CASE UNCHANGED vars
    BY <1>2, <2>4 DEF vars
  <2>5. QED
    BY <1>2, <2>1, <2>2, <2>3, <2>4 DEF Next
<1>3. QED
  BY <1>1, <1>2

\* The blocks users have are aligned, nobody else's, and found again when they come back,
\* if what deallocate is told tells large blocks from cells (slab_allocator.hpp:58-61,
\* singleton_slab_allocator.hpp:142-198)
THEOREM BlocksAreSound ==
    ASSUME DeallocateKnows
    PROVE  Spec => []BlocksSound
<1>1. Inv /\ ~undefined => BlocksSound
  BY InvAligned, InvNoOverlap DEF BlocksSound, NeverUndefined
<1>2. (Init => ~undefined) /\ (Inv /\ ~undefined /\ [Next]_vars => ~undefined')
  BY NothingUndefined
<1>3. QED
  BY <1>1, <1>2, SlabAllocatorInvariant, PTL DEF Spec

-----------------------------------------------------------------------------
(* Walks over the lists.                                                   *)

\* The walk from a head is the list, and it ends
LEMMA WalkIs ==
    ASSUME Good(a), NEW S \in SUBSET DOMAIN a.mem, NEW head, NEW q, NEW k,
           Chain(a.mem, head, S, q, k)
    PROVE  /\ Walk(head) = q
           /\ k \in Nat /\ DOMAIN q = 1..k /\ q \in Seq(S) /\ Len(q) = k
           /\ IsFiniteSet(S) /\ Cardinality(S) = k
           /\ ToSet(q) = S
<1> DEFINE N == Cardinality(SlabAt)
           D == DOMAIN a.mem
           from(f, j) == IF j = 1 THEN head
                         ELSE IF f[j - 1] \in D THEN a.mem[f[j - 1]].next ELSE Null
           at == CHOOSE f : f = [j \in 1..(N + 1) |->
                                     IF j = 1 THEN head
                                     ELSE IF f[j - 1] \in D THEN a.mem[f[j - 1]].next ELSE Null]
           w == [j \in 1..(N + 1) |-> IF j <= k THEN q[j] ELSE Null]
<1>1. N \in Nat /\ IsFiniteSet(SlabAt) /\ D \in SUBSET SlabAt /\ Null \notin D
  BY AllocatorAssumption, FS_CardinalityType, AllocatorFields DEF Good
<1>2. /\ k \in Nat /\ q \in Bijection(1..k, S)
      /\ head = IF k = 0 THEN Null ELSE q[1]
      /\ \A j \in 1..k : a.mem[q[j]].next = IF j = k THEN Null ELSE q[j + 1]
  BY DEF Chain
<1>3. /\ q \in [1..k -> S] /\ (\A s \in S : \E j \in 1..k : q[j] = s)
  BY <1>2, BijectionIs
<1>4. IsFiniteSet(S) /\ Cardinality(S) = k /\ k <= N
  <2>1. IsFiniteSet(1..k) /\ Cardinality(1..k) = k
    BY <1>2, FS_Interval
  <2>2. IsFiniteSet(S) /\ Cardinality(S) = k
    BY <1>2, <2>1, FS_Bijection DEF ExistsBijection
  <2>3. S \in SUBSET SlabAt
    BY <1>1
  <2>4. QED
    BY <1>1, <2>2, <2>3, FS_Subset
<1>5. \A j \in 1..k : q[j] \in D /\ q[j] # Null
  BY <1>1, <1>3
<1>6. \A j \in 1..(N + 1) : w[j] = IF j <= k THEN q[j] ELSE Null
  OBVIOUS
<1>7. w = [j \in 1..(N + 1) |-> w[j]]
  OBVIOUS
<1> HIDE DEF w, D, N
<1>8. \A j \in 1..(N + 1) : w[j] = from(w, j)
  <2>1. SUFFICES ASSUME NEW j \in 1..(N + 1) PROVE w[j] = from(w, j)
    OBVIOUS
  <2>2. CASE j = 1
    BY <1>2, <1>6, <2>1, <2>2
  <2>3. CASE j # 1
    <3>1. j - 1 \in 1..(N + 1) /\ j - 1 >= 1
      BY <1>1, <2>1, <2>3
    <3>2. w[j - 1] = IF j - 1 <= k THEN q[j - 1] ELSE Null
      BY <1>6, <3>1
    <3>3. CASE j - 1 <= k
      <4>1. j - 1 \in 1..k
        BY <1>2, <3>1, <3>3
      <4>2. w[j - 1] \in D /\ w[j - 1] = q[j - 1]
        BY <1>5, <3>2, <3>3, <4>1
      <4>3. a.mem[q[j - 1]].next = IF j - 1 = k THEN Null ELSE q[(j - 1) + 1]
        BY <1>2, <4>1
      <4>4. (j - 1) + 1 = j /\ (j - 1 = k <=> ~(j <= k))
        BY <1>2, <2>1, <3>3
      <4>5. w[j] = IF j <= k THEN q[j] ELSE Null
        BY <1>6, <2>1
      <4>6. from(w, j) = a.mem[q[j - 1]].next
        BY <2>3, <4>2
      <4>7. QED
        BY <4>3, <4>4, <4>5, <4>6
    <3>4. CASE ~(j - 1 <= k)
      <4>1. w[j - 1] = Null /\ ~(j <= k)
        BY <1>2, <2>1, <3>2, <3>4
      <4>2. w[j] = Null
        BY <1>6, <2>1, <4>1
      <4>3. QED
        BY <1>1, <2>3, <4>1, <4>2
    <3>5. QED
      BY <3>3, <3>4
  <2>4. QED
    BY <2>2, <2>3
<1>9. w = [j \in 1..(N + 1) |-> IF j = 1 THEN head
                                ELSE IF w[j - 1] \in D THEN a.mem[w[j - 1]].next ELSE Null]
  <2> DEFINE g == [j \in 1..(N + 1) |-> from(w, j)]
  <2>1. g = [j \in 1..(N + 1) |-> g[j]] /\ \A j \in 1..(N + 1) : g[j] = w[j]
    BY <1>8
  <2>2. w = g
    <3> HIDE DEF g
    <3>1. QED
      BY <1>7, <2>1
  <2>3. QED
    BY <2>2
<1>10. at = [j \in 1..(N + 1) |-> IF j = 1 THEN head
                                  ELSE IF at[j - 1] \in D THEN a.mem[at[j - 1]].next ELSE Null]
  BY <1>9
<1> HIDE DEF at
<1>11. DOMAIN at = 1..(N + 1) /\ \A j \in 1..(N + 1) : at[j] = from(at, j)
  <2>1. DOMAIN at = 1..(N + 1)
    BY <1>10
  <2>2. \A j \in 1..(N + 1) : at[j] = IF j = 1 THEN head
                                  ELSE IF at[j - 1] \in D THEN a.mem[at[j - 1]].next ELSE Null
    BY <1>10
  <2>3. QED
    BY <2>1, <2>2
<1>12. \A j \in 1..(N + 1) : at[j] = w[j]
  <2> DEFINE T == { j \in 1..(N + 1) : at[j] # w[j] }
  <2>1. SUFFICES ASSUME T # {} PROVE FALSE
    OBVIOUS
  <2>2. PICK j \in T : \A i \in T : j <= i
    <3>1. T \in SUBSET Nat
      BY <1>1
    <3> HIDE DEF T
    <3>2. QED
      BY <2>1, <3>1, Least
  <2>3. j # 1
    BY <1>8, <1>11, <2>2
  <2>4. j - 1 \in 1..(N + 1) /\ ~(j <= j - 1)
    BY <1>1, <2>2, <2>3
  <2>5. at[j - 1] = w[j - 1]
    BY <2>2, <2>4
  <2>6. from(at, j) = from(w, j)
    BY <2>5
  <2>7. QED
    BY <1>8, <1>11, <2>2, <2>6
<1>13. Walk(head) = [j \in { i \in DOMAIN at : at[i] # Null } |-> at[j]]
  BY DEF Walk, at, D, N
<1>14. { i \in DOMAIN at : at[i] # Null } = 1..k
  <2>1. \A i \in 1..(N + 1) : at[i] # Null <=> i \in 1..k
    BY <1>1, <1>2, <1>5, <1>6, <1>12
  <2>2. 1..k \subseteq 1..(N + 1)
    BY <1>1, <1>2, <1>4
  <2>3. QED
    BY <1>11, <2>1, <2>2
<1>15. Walk(head) = q
  <2>1. Walk(head) = [j \in 1..k |-> at[j]]
    BY <1>13, <1>14
  <2>2. \A j \in 1..k : j \in 1..(N + 1) /\ j <= k
    BY <1>1, <1>2, <1>4
  <2>3. \A j \in 1..k : at[j] = q[j]
    BY <1>6, <1>12, <2>2
  <2>4. q = [j \in 1..k |-> q[j]]
    BY <1>3
  <2>5. QED
    BY <2>1, <2>3, <2>4
<1>16. DOMAIN q = 1..k /\ q \in Seq(S) /\ Len(q) = k
  <2>1. DOMAIN q = 1..k /\ q \in Seq(S)
    BY <1>2, <1>3
  <2>2. QED
    BY <1>2, <2>1
<1>17. ToSet(q) = S
  BY <1>3, <1>16 DEF ToSet
<1>18. QED
  BY <1>2, <1>4, <1>15, <1>16, <1>17

\* The slabs of list l of cell size i
Slabs(l, i) == At(Homes(a.mem), l, i)

\* The walk over a list of slabs is that list, both ways
LEMMA ListIsSlabs ==
    ASSUME Inv, NEW l \in Names, NEW i \in Index
    PROVE  /\ ListIs(a[l][i], Slabs(l, i))
           /\ Walk(a[l][i]) \in Seq(Slabs(l, i)) /\ ToSet(Walk(a[l][i])) = Slabs(l, i)
           /\ Len(Walk(a[l][i])) = Cardinality(Slabs(l, i)) /\ IsFiniteSet(Slabs(l, i))
           /\ Slabs(l, i) \subseteq DOMAIN a.mem
<1> DEFINE S == Slabs(l, i)
           head == a[l][i]
<1>1. Good(a) /\ Listed(a, Homes(a.mem))
  BY DEF Inv, Good
<1>2. S \in SUBSET DOMAIN a.mem
  BY DEF Slabs, At, Homes
<1>3. PICK k, q : Chain(a.mem, head, S, q, k)
  BY <1>1 DEF Listed, List, Slabs
<1> HIDE DEF S, head
<1>4. /\ Walk(head) = q
      /\ k \in Nat /\ DOMAIN q = 1..k /\ q \in Seq(S) /\ Len(q) = k
      /\ IsFiniteSet(S) /\ Cardinality(S) = k
      /\ ToSet(q) = S
  BY <1>1, <1>2, <1>3, WalkIs
<1>5. \A j \in 1..k : a.mem[q[j]].prev = IF j = 1 THEN Null ELSE q[j - 1]
  BY <1>3 DEF Chain
<1>6. ListIs(head, S)
  BY <1>4, <1>5 DEF ListIs
<1>7. QED
  BY <1>2, <1>4, <1>6 DEF S, head

\* Which slabs those of the lists are
LEMMA SlabsAre ==
    ASSUME Inv, NEW i \in Index
    PROVE  /\ Slabs("empty", i) = SlabsOf(i, IsSlabEmpty)
           /\ Slabs("wip", i) = SlabsOf(i, IsSlabWip)
           /\ Slabs("filled", i) = SlabsOf(i, IsSlabFilled)
<1> DEFINE D == DOMAIN a.mem
           Home1(h) == IF IsSlabEmpty(h) THEN "empty" ELSE IF IsSlabFilled(h) THEN "filled" ELSE "wip"
<1>1. \A s \in D : Homes(a.mem)[s] = Home(a.mem[s])
  BY DEF Homes
<1>2. ASSUME NEW s \in D, NEW l \in Names
      PROVE  Homes(a.mem)[s] = <<l, i>> <=> a.mem[s].cell_size = MinCell * 2^i /\ Home1(a.mem[s]) = l
  <2> DEFINE h == a.mem[s]
  <2>1. h \in HeaderRecord /\ CellsOK(s, h) /\ s \in SlabAt
    BY AllocatorFields, Fields DEF Inv, Good
  <2>2. /\ \A k \in Names, j \in Index : Home(h) = <<k, j>> => h.cell_size = MinCell * 2^j
        /\ \A j \in Index : h.cell_size = MinCell * 2^j =>
               Home(h) = << IF h.free_cells_cnt = MaxCells(h.cell_size) THEN "empty"
                            ELSE IF h.free_cells_cnt = 0 THEN "filled" ELSE "wip", j >>
    <3> HIDE DEF h
    <3>1. QED
      BY <2>1, HomeIs
  <2>3. h.cell_size = MinCell * 2^i => Home(h) = <<Home1(h), i>>
    BY <2>2 DEF IsSlabEmpty, IsSlabFilled
  <2> HIDE DEF h, Home1
  <2>4. Home(h) = <<l, i>> <=> h.cell_size = MinCell * 2^i /\ Home1(h) = l
    BY <2>2, <2>3
  <2>5. QED
    BY <1>1, <2>4 DEF h
<1>3. \A s \in D : ~(IsSlabEmpty(a.mem[s]) /\ IsSlabFilled(a.mem[s]))
  <2>1. SUFFICES ASSUME NEW s \in D PROVE ~(IsSlabEmpty(a.mem[s]) /\ IsSlabFilled(a.mem[s]))
    OBVIOUS
  <2>2. a.mem[s].cell_size \in CellSizes
    BY DEF Inv, Good, CellsOK
  <2>3. MaxCells(a.mem[s].cell_size) \in Nat /\ MaxCells(a.mem[s].cell_size) > 1
    BY <2>2, CellSizeFits DEF SizeFits
  <2>4. MaxCells(a.mem[s].cell_size) # 0
    BY <2>3
  <2>5. QED
    BY <2>4 DEF IsSlabEmpty, IsSlabFilled
<1>4. DOMAIN Homes(a.mem) = D
  BY DEF Homes
<1>5. \A l \in Names : Slabs(l, i) = { s \in D : a.mem[s].cell_size = MinCell * 2^i /\ Home1(a.mem[s]) = l }
  BY <1>2, <1>4 DEF Slabs, At
<1>6. "empty" \in Names /\ "wip" \in Names /\ "filled" \in Names
  BY DEF Names
<1>7. Slabs("empty", i) = SlabsOf(i, IsSlabEmpty)
  BY <1>5, <1>6 DEF SlabsOf
<1>8. Slabs("filled", i) = SlabsOf(i, IsSlabFilled)
  BY <1>3, <1>5, <1>6 DEF SlabsOf
<1>9. Slabs("wip", i) = SlabsOf(i, IsSlabWip)
  BY <1>5, <1>6 DEF SlabsOf, IsSlabWip
<1>10. QED
  BY <1>7, <1>8, <1>9

\* The invariant makes the lists exact
LEMMA InvListsExact == Inv => ListsExact
<1> SUFFICES ASSUME Inv, NEW i \in Index
             PROVE  /\ ListIs(a.empty[i], SlabsOf(i, IsSlabEmpty))
                    /\ ListIs(a.wip[i], SlabsOf(i, IsSlabWip))
                    /\ ListIs(a.filled[i], SlabsOf(i, IsSlabFilled))
  BY DEF ListsExact
<1>1. \A l \in Names : ListIs(a[l][i], Slabs(l, i))
  BY ListIsSlabs
<1>2. a["empty"] = a.empty /\ a["wip"] = a.wip /\ a["filled"] = a.filled
  OBVIOUS
<1>3. "empty" \in Names /\ "wip" \in Names /\ "filled" \in Names
  BY DEF Names
<1>4. ListIs(a.empty[i], Slabs("empty", i)) /\ ListIs(a.wip[i], Slabs("wip", i))
      /\ ListIs(a.filled[i], Slabs("filled", i))
  BY <1>1, <1>2, <1>3
<1>5. QED
  BY <1>4, SlabsAre

\* Every slab is in exactly the list its free cells call for, and that list can be
\* followed both ways and ends (singleton_slab_allocator.hpp:255-301)
THEOREM ListsAreExact == Spec => []ListsExact
BY SlabAllocatorInvariant, InvListsExact, PTL

-----------------------------------------------------------------------------
(* What clear returns.                                                     *)

\* A step keeps the slabs there are, or it is clear and keeps those in use
LEMMA StepReturns ==
    ASSUME Inv, Inv', [Next]_vars
    PROVE  /\ DOMAIN a.mem \subseteq DOMAIN a'.mem \/ DOMAIN a'.mem = SlabsInUse'
           /\ Clear => DOMAIN a'.mem = SlabsInUse'
<1>1. Good(a) /\ Owned(a'.mem, live') /\ Good(a')
  BY DEF Inv
<1>2. ASSUME Clear
      PROVE  DOMAIN a'.mem = SlabsInUse'
  <2>1. /\ \A s \in DOMAIN a'.mem : \E k, d : InUse(a'.mem, s, k, d)
    BY <1>1, <1>2, ClearedInUse DEF Clear
  <2>2. \A s \in DOMAIN a'.mem : s \in SlabsInUse'
    <3>1. SUFFICES ASSUME NEW s \in DOMAIN a'.mem PROVE s \in SlabsInUse'
      OBVIOUS
    <3>2. PICK k, d : InUse(a'.mem, s, k, d)
      BY <2>1
    <3>3. PICK x \in Small(live') : x.ptr = d
      BY <1>1, <3>2 DEF Owned
    <3>4. s \in SlabAt /\ k \in CellSizes /\ d \in Cells(s, k)
      <4>1. s \in DOMAIN a'.mem /\ d \in Cells(s, k) /\ a'.mem[s].cell_size = k
        BY <3>2 DEF InUse
      <4>2. CellsOK(s, a'.mem[s]) /\ s \in SlabAt
        BY <1>1, <4>1, AllocatorFields DEF Good
      <4>3. QED
        BY <4>1, <4>2 DEF CellsOK
    <3>5. SlabFromCell(d) = s
      BY <3>4, CellPlace
    <3>6. QED
      BY <3>3, <3>5 DEF SlabsInUse, Small
  <2>3. \A s \in SlabsInUse' : s \in DOMAIN a'.mem
    BY <1>1 DEF SlabsInUse, Small, Owned, InUse
  <2>4. QED
    BY <2>2, <2>3
<1>3. ASSUME NEW n \in Count, Allocate(n)
      PROVE  DOMAIN a.mem \subseteq DOMAIN a'.mem
  <2>1. CASE AllocateLarge(n)
    BY <2>1 DEF AllocateLarge
  <2>2. ASSUME ~Large(Bytes(n)), NEW s \in SlabAt, AllocateCell(n, s)
        PROVE  DOMAIN a.mem \subseteq DOMAIN a'.mem
    <3>1. PICK t, c : CellGot(n, t, c)
      BY <2>2, AllocateCellIs
    <3>2. QED
      BY <3>1 DEF CellGot, InUseToo
  <2>3. QED
    BY <1>3, <2>1, <2>2 DEF Allocate
<1>4. ASSUME NEW x \in live, Deallocate(x)
      PROVE  DOMAIN a.mem \subseteq DOMAIN a'.mem
  <2>1. CASE DeallocateLarge(x)
    BY <2>1 DEF DeallocateLarge
  <2>2. CASE DeallocateCell(x)
    <3>1. CASE Large(Bytes(x.n))
      BY <2>2, <3>1, LargeInNoSlab DEF DeallocateCell
    <3>2. CASE ~Large(Bytes(x.n))
      <4>1. x \in Small(live) /\ Owned(a.mem, live)
        BY <3>2 DEF Small, Inv
      <4>2. InUse(a.mem, SlabFromCell(x.ptr), CellSize(Bytes(x.n)), x.ptr)
        BY <4>1, CellOf
      <4>3. a' = Sfreed(a, x.ptr)
        BY <2>2, <4>2 DEF DeallocateCell, InUse
      <4>4. QED
        BY <1>1, <4>2, <4>3, CellGivenIs DEF NotInUse
    <3>3. QED
      BY <3>1, <3>2
  <2>3. QED
    BY <1>4, <2>1, <2>2 DEF Deallocate
<1>5. CASE UNCHANGED vars
  BY <1>2, <1>5 DEF vars
<1>6. QED
  BY <1>2, <1>3, <1>4, <1>5 DEF Next

\* clear returns the slabs without a user's cell to the system and no other; no other step
\* returns one (singleton_slab_allocator.hpp:200-210)
THEOREM ClearReturnsTheEmpties == Spec => ClearReturnsEmpties
<1>1. Inv /\ Inv' /\ [Next]_vars =>
          [/\ DOMAIN a.mem \subseteq DOMAIN a'.mem \/ DOMAIN a'.mem = SlabsInUse'
           /\ Clear => DOMAIN a'.mem = SlabsInUse']_vars
  BY StepReturns
<1>2. QED
  BY <1>1, SlabAllocatorInvariant, PTL DEF Spec, ClearReturnsEmpties

-----------------------------------------------------------------------------
(* What the allocator reports.                                             *)

\* A sum is what adds up, one member after the other
LEMMA SumIs ==
    ASSUME NEW T, IsFiniteSet(T), NEW w, w = [U \in SUBSET T |-> w[U]], w[{}] = 0,
           \A U \in SUBSET T : U # {} => LET t == CHOOSE u \in U : TRUE
                                         IN  w[U] = FilledCells(t) + w[U \ {t}]
    PROVE  MapThenSumSet(FilledCells, T) = w[T]
<1> DEFINE sum == CHOOSE f : f = [U \in SUBSET T |->
                                      IF U = {} THEN 0
                                      ELSE LET t == CHOOSE u \in U : TRUE
                                           IN  FilledCells(t) + f[U \ {t}]]
<1>1. MapThenSumSet(FilledCells, T) = sum[T]
  BY DEF MapThenSumSet, MapThenFoldSet
<1> DEFINE next(f, U) == IF U = {} THEN 0
                         ELSE LET t == CHOOSE u \in U : TRUE
                              IN  FilledCells(t) + f[U \ {t}]
<1>2. w = [U \in SUBSET T |-> next(w, U)]
  <2>1. \A U \in SUBSET T : w[U] = next(w, U)
    OBVIOUS
  <2> DEFINE g == [U \in SUBSET T |-> next(w, U)]
  <2>2. \A U \in SUBSET T : g[U] = w[U]
    BY <2>1
  <2>3. g = [U \in SUBSET T |-> g[U]]
    OBVIOUS
  <2> HIDE DEF g
  <2>4. w = g
    BY <2>2, <2>3
  <2>5. QED
    BY <2>4 DEF g
<1>3. sum = [U \in SUBSET T |-> next(sum, U)]
  BY <1>2
<1> HIDE DEF sum
<1>4. \A U \in SUBSET T : sum[U] = next(sum, U) /\ w[U] = next(w, U)
  <2>1. \A U \in SUBSET T : sum[U] = next(sum, U)
    BY <1>3
  <2>2. \A U \in SUBSET T : w[U] = next(w, U)
    OBVIOUS
  <2>3. QED
    BY <2>1, <2>2
<1>5. \A U \in SUBSET T : sum[U] = w[U]
  <2> DEFINE X == { U \in SUBSET T : sum[U] # w[U] }
             rank == [U \in SUBSET T |-> Cardinality(U)]
  <2>1. SUFFICES ASSUME X # {} PROVE FALSE
    OBVIOUS
  <2>2. \A U \in SUBSET T : rank[U] = Cardinality(U) /\ rank[U] \in Nat /\ IsFiniteSet(U)
    BY FS_Subset, FS_CardinalityType
  <2> HIDE DEF rank
  <2>3. PICK U \in X : \A V \in X : ~(rank[V] < rank[U])
    <3>1. \A V \in X : rank[V] \in Nat
      BY <2>2
    <3> HIDE DEF X
    <3>2. QED
      BY <2>1, <3>1, Smallest
  <2>4. U \in SUBSET T /\ sum[U] # w[U]
    BY <2>3
  <2>5. U # {}
    BY <1>4, <2>4
  <2> DEFINE t == CHOOSE u \in U : TRUE
  <2>6. t \in U
    BY <2>5
  <2>7. sum[U] = FilledCells(t) + sum[U \ {t}] /\ w[U] = FilledCells(t) + w[U \ {t}]
    BY <1>4, <2>4, <2>5
  <2> HIDE DEF t
  <2>8. U \ {t} \in SUBSET T /\ sum[U \ {t}] # w[U \ {t}]
    BY <2>4, <2>7
  <2>9. rank[U \ {t}] < rank[U]
    <3>1. Cardinality(U \ {t}) = Cardinality(U) - 1
      BY <2>2, <2>4, <2>6, FS_RemoveElement
    <3>2. QED
      BY <2>2, <2>4, <2>8, <3>1
  <2>10. QED
    BY <2>3, <2>8, <2>9
<1>6. QED
  BY <1>1, <1>5 DEF sum

\* The users of the cells of some slabs
UsersIn(U) == { x \in Small(live) : SlabFromCell(x.ptr) \in U }

\* A slab has as many users as it has cells that are not free
LEMMA UsersOfSlab ==
    ASSUME Inv, NEW s \in DOMAIN a.mem
    PROVE  IsFiniteSet(UsersIn({s})) /\ Cardinality(UsersIn({s})) = FilledCells(s)
           /\ FilledCells(s) \in Nat
<1> DEFINE h == a.mem[s]
           C == Cells(s, h.cell_size)
           F == FreeIn(h)
           f == [x \in UsersIn({s}) |-> x.ptr]
<1>1. h \in HeaderRecord /\ CellsOK(s, h) /\ s \in SlabAt /\ Owned(a.mem, live)
  BY AllocatorFields, Fields DEF Inv, Good
<1>2. /\ h.cell_size \in CellSizes /\ F \subseteq C /\ IsFiniteSet(F)
      /\ Cardinality(F) = h.free_cells_cnt
  <2> HIDE DEF h
  <2>1. h \in HeaderRecord /\ CellsOK(s, h) /\ s \in SlabAt
    BY <1>1
  <2>2. QED
    BY <2>1, FreeList, FreeCount
<1>3. IsFiniteSet(C) /\ Cardinality(C) = MaxCells(h.cell_size)
  BY <1>1, <1>2, CellsCount
<1>4. \A x \in UsersIn({s}) : x.ptr \in C \ F
  BY <1>1 DEF UsersIn, Owned, InUse
<1>5. \A x, y \in UsersIn({s}) : x.ptr = y.ptr => x = y
  BY <1>1 DEF UsersIn, Owned
<1>6. \A c \in C \ F : \E x \in UsersIn({s}) : x.ptr = c
  <2>1. SUFFICES ASSUME NEW c \in C \ F PROVE \E x \in UsersIn({s}) : x.ptr = c
    OBVIOUS
  <2>2. InUse(a.mem, s, h.cell_size, c)
    BY DEF InUse
  <2>3. PICK x \in Small(live) : x.ptr = c
    BY <1>1, <2>2 DEF Owned
  <2>4. SlabFromCell(c) = s
    BY <1>1, <1>2, CellPlace
  <2>5. QED
    BY <2>3, <2>4 DEF UsersIn
<1>7. f \in Bijection(UsersIn({s}), C \ F)
  <2>1. f \in [UsersIn({s}) -> C \ F] /\ \A x \in UsersIn({s}) : f[x] = x.ptr
    BY <1>4
  <2> HIDE DEF f, C, F
  <2>2. f \in Injection(UsersIn({s}), C \ F)
    BY <1>5, <2>1 DEF Injection, IsInjective
  <2>3. f \in Surjection(UsersIn({s}), C \ F)
    BY <1>6, <2>1 DEF Surjection
  <2>4. QED
    BY <2>2, <2>3 DEF Bijection
<1>8. IsFiniteSet(UsersIn({s}))
  <2>1. UsersIn({s}) \in SUBSET live /\ IsFiniteSet(live)
    BY DEF UsersIn, Small, Inv
  <2>2. QED
    BY <2>1, FS_Subset
<1>9. Cardinality(UsersIn({s})) = Cardinality(C \ F)
  BY <1>7, <1>8, FS_Bijection DEF ExistsBijection
<1> HIDE DEF C, F
<1>10. Cardinality(C \ F) = Cardinality(C) - Cardinality(C \cap F) /\ C \cap F = F
  BY <1>2, <1>3, FS_Difference
<1>11. FilledCells(s) = MaxCells(h.cell_size) - h.free_cells_cnt
  BY DEF FilledCells
<1>12. FilledCells(s) = Cardinality(UsersIn({s}))
  BY <1>2, <1>3, <1>9, <1>10, <1>11
<1>13. QED
  BY <1>8, <1>12, FS_CardinalityType

\* The filled cells of slabs add up to their users
LEMMA UsersAddUp ==
    ASSUME Inv, NEW T \in SUBSET DOMAIN a.mem
    PROVE  MapThenSumSet(FilledCells, T) = Cardinality(UsersIn(T))
<1> DEFINE w == [U \in SUBSET T |-> Cardinality(UsersIn(U))]
<1>1. IsFiniteSet(T)
  <2>1. T \in SUBSET SlabAt /\ IsFiniteSet(SlabAt)
    BY AllocatorAssumption, AllocatorFields DEF Inv, Good
  <2>2. QED
    BY <2>1, FS_Subset
<1>2. \A U : IsFiniteSet(UsersIn(U)) /\ Cardinality(UsersIn(U)) \in Nat
  <2>1. SUFFICES ASSUME NEW U PROVE IsFiniteSet(UsersIn(U)) /\ Cardinality(UsersIn(U)) \in Nat
    OBVIOUS
  <2>2. UsersIn(U) \in SUBSET live /\ IsFiniteSet(live)
    BY DEF UsersIn, Small, Inv
  <2>3. QED
    BY <2>2, FS_Subset, FS_CardinalityType
<1>3. \A U \in SUBSET T : w[U] = Cardinality(UsersIn(U))
  OBVIOUS
<1>4. w = [U \in SUBSET T |-> w[U]]
  OBVIOUS
<1> HIDE DEF w
<1>5. w[{}] = 0
  <2>1. UsersIn({}) = {}
    BY DEF UsersIn
  <2>2. QED
    BY <1>3, <2>1, FS_EmptySet
<1>6. ASSUME NEW U \in SUBSET T, U # {}
      PROVE  LET t == CHOOSE u \in U : TRUE
             IN  w[U] = FilledCells(t) + w[U \ {t}]
  <2> DEFINE t == CHOOSE u \in U : TRUE
             X == UsersIn({t})
             Y == UsersIn(U \ {t})
  <2>1. t \in U
    BY <1>6
  <2> HIDE DEF t
  <2>2. Cardinality(X) = FilledCells(t) /\ FilledCells(t) \in Nat
    BY <1>6, <2>1, UsersOfSlab
  <2>3. UsersIn(U) = X \cup Y /\ X \cap Y = {}
    BY <2>1 DEF UsersIn
  <2>4. IsFiniteSet(X) /\ IsFiniteSet(Y) /\ Cardinality(Y) \in Nat /\ Cardinality(X) \in Nat
    BY <1>2
  <2> HIDE DEF X, Y
  <2>5. Cardinality(X \cup Y) = Cardinality(X) + Cardinality(Y)
    <3>1. Cardinality(X \cup Y) = Cardinality(X) + Cardinality(Y) - Cardinality(X \cap Y)
      BY <2>4, FS_Union
    <3>2. Cardinality(X \cap Y) = 0
      BY <2>3, FS_EmptySet
    <3>3. QED
      BY <2>4, <3>1, <3>2
  <2>6. w[U] = Cardinality(X \cup Y) /\ w[U \ {t}] = Cardinality(Y)
    BY <1>3, <1>6, <2>3 DEF Y
  <2>7. w[U] = FilledCells(t) + w[U \ {t}]
    BY <2>2, <2>5, <2>6
  <2>8. QED
    BY <2>7 DEF t
<1>7. MapThenSumSet(FilledCells, T) = w[T]
  BY <1>1, <1>4, <1>5, <1>6, SumIs
<1>8. QED
  BY <1>3, <1>7

\* A class has as many live cells as its wip and filled slabs have users
LEMMA ClassUsers ==
    ASSUME Inv, NEW i \in Index
    PROVE  UsersIn(Slabs("wip", i) \cup Slabs("filled", i)) =
           { x \in live : ~Large(Bytes(x.n)) /\ CellSize(Bytes(x.n)) = MinCell * 2^i }
<1> DEFINE T == Slabs("wip", i) \cup Slabs("filled", i)
           C == { x \in live : ~Large(Bytes(x.n)) /\ CellSize(Bytes(x.n)) = MinCell * 2^i }
<1>1. ASSUME NEW x \in Small(live)
      PROVE  SlabFromCell(x.ptr) \in T <=> CellSize(Bytes(x.n)) = MinCell * 2^i
  <2> DEFINE s == SlabFromCell(x.ptr)
             h == a.mem[s]
  <2>1. CellFacts(x, s, CellSize(Bytes(x.n)))
    BY SmallFacts
  <2>2. /\ s \in SlabAt /\ s \in DOMAIN a.mem /\ h.cell_size = CellSize(Bytes(x.n))
        /\ x.ptr \in Cells(s, h.cell_size) /\ x.ptr \notin FreeIn(h)
    BY <2>1 DEF CellFacts
  <2>3. h \in HeaderRecord /\ CellsOK(s, h)
    BY <2>2, AllocatorFields, Fields DEF Inv, Good
  <2>4. s \in T <=> \E l \in {"wip", "filled"} : Home(h) = <<l, i>>
    BY <2>2 DEF Slabs, At, Homes
  <2> HIDE DEF s, h, T
  <2>5. Home(h) # <<"empty", i>>
    BY <2>2, <2>3, EmptyIs
  <2>6. /\ \A l \in Names, j \in Index : Home(h) = <<l, j>> => h.cell_size = MinCell * 2^j
        /\ \A j \in Index : h.cell_size = MinCell * 2^j =>
               Home(h) = << IF h.free_cells_cnt = MaxCells(h.cell_size) THEN "empty"
                            ELSE IF h.free_cells_cnt = 0 THEN "filled" ELSE "wip", j >>
    BY <2>2, <2>3, HomeIs
  <2>7. s \in T => h.cell_size = MinCell * 2^i
    BY <2>4, <2>6 DEF Names
  <2>8. h.cell_size = MinCell * 2^i => s \in T
    BY <2>4, <2>5, <2>6
  <2>9. QED
    BY <2>2, <2>7, <2>8 DEF s
<1> HIDE DEF T
<1>2. UsersIn(T) = C
  BY <1>1 DEF UsersIn, Small
<1>3. QED
  BY <1>2 DEF T

\* Its slabs are those of its three lists
LEMMA ClassSlabs ==
    ASSUME Inv, NEW i \in Index
    PROVE  AllocatedSlabs(i) = Cardinality(SlabsOf(i, LAMBDA h : TRUE))
<1> DEFINE E == Slabs("empty", i)
           W == Slabs("wip", i)
           F == Slabs("filled", i)
           X == SlabsOf(i, LAMBDA h : TRUE)
<1>1. "empty" \in Names /\ "wip" \in Names /\ "filled" \in Names
      /\ a["empty"] = a.empty /\ a["wip"] = a.wip /\ a["filled"] = a.filled
  BY DEF Names
<1>2. /\ Len(Walk(a.empty[i])) = Cardinality(E) /\ IsFiniteSet(E)
      /\ Len(Walk(a.wip[i])) = Cardinality(W) /\ IsFiniteSet(W)
      /\ Len(Walk(a.filled[i])) = Cardinality(F) /\ IsFiniteSet(F)
  BY <1>1, ListIsSlabs
<1>3. AllocatedSlabs(i) = Cardinality(E) + Cardinality(W) + Cardinality(F)
  BY <1>2 DEF AllocatedSlabs
<1>4. E \cap W = {} /\ (E \cup W) \cap F = {}
  BY DEF Slabs, At
<1>5. X = (E \cup W) \cup F
  <2>1. E = SlabsOf(i, IsSlabEmpty) /\ W = SlabsOf(i, IsSlabWip) /\ F = SlabsOf(i, IsSlabFilled)
    BY SlabsAre
  <2> HIDE DEF E, W, F
  <2>2. QED
    BY <2>1 DEF SlabsOf, IsSlabWip
<1> HIDE DEF E, W, F
<1>6. IsFiniteSet(E \cup W) /\ Cardinality(E \cup W) = Cardinality(E) + Cardinality(W)
  <2>1. Cardinality(E \cup W) = Cardinality(E) + Cardinality(W) - Cardinality(E \cap W)
        /\ IsFiniteSet(E \cup W)
    BY <1>2, FS_Union
  <2>2. Cardinality(E \cap W) = 0
    BY <1>4, FS_EmptySet
  <2>3. QED
    BY <1>2, <2>1, <2>2, FS_CardinalityType
<1>7. Cardinality((E \cup W) \cup F) = Cardinality(E \cup W) + Cardinality(F)
  <2>1. Cardinality((E \cup W) \cup F) =
        Cardinality(E \cup W) + Cardinality(F) - Cardinality((E \cup W) \cap F)
    BY <1>2, <1>6, FS_Union
  <2>2. Cardinality((E \cup W) \cap F) = 0
    BY <1>4, FS_EmptySet
  <2>3. QED
    BY <1>2, <1>6, <2>1, <2>2, FS_CardinalityType
<1>8. QED
  BY <1>3, <1>5, <1>6, <1>7

\* The invariant makes the reports true
LEMMA InvSizesReported == Inv => SizesReported
<1> SUFFICES ASSUME Inv, NEW i \in Index
             PROVE  /\ Size(i) = Cardinality({ x \in live : /\ ~Large(Bytes(x.n))
                                                            /\ CellSize(Bytes(x.n)) = MinCell * 2^i })
                    /\ AllocatedSlabs(i) = Cardinality(SlabsOf(i, LAMBDA h : TRUE))
  BY DEF SizesReported
<1> DEFINE W == Slabs("wip", i)
           F == Slabs("filled", i)
           p == Walk(a.wip[i])
           q == Walk(a.filled[i])
<1>1. "wip" \in Names /\ "filled" \in Names /\ a["wip"] = a.wip /\ a["filled"] = a.filled
  BY DEF Names
<1>2. /\ p \in Seq(W) /\ ToSet(p) = W /\ W \subseteq DOMAIN a.mem
      /\ q \in Seq(F) /\ ToSet(q) = F /\ F \subseteq DOMAIN a.mem
  BY <1>1, ListIsSlabs
<1>3. Size(i) = MapThenSumSet(FilledCells, ToSet(p \o q))
  BY DEF Size
<1>4. UsersIn(W \cup F) = { x \in live : ~Large(Bytes(x.n)) /\ CellSize(Bytes(x.n)) = MinCell * 2^i }
  BY ClassUsers
<1> HIDE DEF W, F, p, q
<1>5. ToSet(p \o q) = W \cup F
  <2>1. p \in Seq(W \cup F) /\ q \in Seq(W \cup F)
    BY <1>2
  <2>2. /\ DOMAIN p = 1..Len(p) /\ DOMAIN q = 1..Len(q) /\ DOMAIN (p \o q) = 1..(Len(p) + Len(q))
        /\ Len(p) \in Nat /\ Len(q) \in Nat
    BY <1>2, <2>1
  <2>3. \A j \in 1..(Len(p) + Len(q)) : (p \o q)[j] = IF j <= Len(p) THEN p[j] ELSE q[j - Len(p)]
    BY <2>1
  <2>4. \A c \in ToSet(p \o q) : c \in ToSet(p) \/ c \in ToSet(q)
    <3>1. SUFFICES ASSUME NEW j \in 1..(Len(p) + Len(q))
                   PROVE  (p \o q)[j] \in ToSet(p) \/ (p \o q)[j] \in ToSet(q)
      BY <2>2 DEF ToSet
    <3>2. CASE j <= Len(p)
      BY <2>2, <2>3, <3>2 DEF ToSet
    <3>3. CASE ~(j <= Len(p))
      <4>1. j - Len(p) \in 1..Len(q)
        BY <2>2, <3>3
      <4>2. QED
        BY <2>2, <2>3, <3>3, <4>1 DEF ToSet
    <3>4. QED
      BY <3>2, <3>3
  <2>5. ASSUME NEW c \in ToSet(p)
        PROVE  c \in ToSet(p \o q)
    <3>1. PICK j \in 1..Len(p) : c = p[j]
      BY <2>2 DEF ToSet
    <3>2. j \in 1..(Len(p) + Len(q)) /\ j <= Len(p)
      BY <2>2
    <3>3. QED
      BY <2>2, <2>3, <3>1, <3>2 DEF ToSet
  <2>6. ASSUME NEW c \in ToSet(q)
        PROVE  c \in ToSet(p \o q)
    <3>1. PICK j \in 1..Len(q) : c = q[j]
      BY <2>2 DEF ToSet
    <3>2. /\ j + Len(p) \in 1..(Len(p) + Len(q)) /\ ~(j + Len(p) <= Len(p))
          /\ (j + Len(p)) - Len(p) = j
      BY <2>2
    <3>3. (p \o q)[j + Len(p)] = c
      BY <2>3, <3>1, <3>2
    <3>4. QED
      BY <2>2, <3>2, <3>3 DEF ToSet
  <2>7. QED
    BY <1>2, <2>4, <2>5, <2>6
<1>6. MapThenSumSet(FilledCells, W \cup F) = Cardinality(UsersIn(W \cup F))
  BY <1>2, UsersAddUp
<1>7. AllocatedSlabs(i) = Cardinality(SlabsOf(i, LAMBDA h : TRUE))
  BY ClassSlabs
<1>8. QED
  BY <1>3, <1>4, <1>5, <1>6, <1>7

\* size reports the live cells of a class, although it only walks the wip and filled
\* slabs, and allocated_slabs all slabs of the class (singleton_slab_allocator.hpp:212-243)
THEOREM SizesAreReported == Spec => []SizesReported
BY SlabAllocatorInvariant, InvSizesReported, PTL
=============================================================================
