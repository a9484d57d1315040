----------------------------- MODULE Inlines_proofs -----------------------------
(***************************************************************************)
(* The assembler of asm/asm_inlines for every input, vector, counter and   *)
(* number of registers.  What is used of Arithmetic_proofs is induction    *)
(* over an interval, and division.                                         *)
(***************************************************************************)
EXTENDS Inlines, Arithmetic_proofs

-----------------------------------------------------------------------------

(* vectorized_memcpy.                                                      *)

\* What a store writes
Covers(s, b) == b \in s[1]..(s[1] + s[2] - 1)

\* Which bytes a store covers
LEMMA StoreCovers ==
    ASSUME NEW i \in Int, NEW n \in Int, NEW b \in Int
    PROVE  Covers(<<i, n>>, b) <=> i <= b /\ b < i + n
<1>1. <<i, n>>[1] = i /\ <<i, n>>[2] = n
  OBVIOUS
<1>2. b \in i..(i + n - 1) <=> i <= b /\ b < i + n
  OBVIOUS
<1>3. QED
  BY <1>1, <1>2 DEF Covers

\* Stores of single bytes
LEMMA BytesAre ==
    ASSUME NEW from \in Int, NEW to \in Int, NEW s \in { <<i, 1>> : i \in from..(to - 1) }, NEW b \in Int
    PROVE  /\ s = <<s[1], 1>> /\ s[1] \in from..(to - 1) /\ s[2] = 1
           /\ Covers(s, b) <=> s = <<b, 1>>
<1>1. PICK i \in from..(to - 1) : s = <<i, 1>>
  OBVIOUS
<1>2. s[1] = i /\ s[2] = 1
  BY <1>1
<1>3. Covers(s, b) <=> i <= b /\ b < i + 1
  BY <1>1, StoreCovers
<1>4. i = b <=> i <= b /\ b < i + 1
  OBVIOUS
<1>5. s = <<b, 1>> <=> i = b
  BY <1>1
<1>6. QED
  BY <1>1, <1>2, <1>3, <1>4, <1>5

\* Multiples have no remainder
LEMMA Multiple ==
    ASSUME NEW B \in Nat \ {0}, NEW y \in Int
    PROVE  (B * y) % B = 0
<1>1. B * y = B * y + 0 /\ B * y \in Int /\ 0 \in 0..(B - 1)
  OBVIOUS
<1>2. PICK x \in Int, r \in 0..(B - 1) : x = B * y /\ r = 0 /\ x = B * y + r
  BY <1>1
<1>3. x % B = r
  BY <1>2, DivModUnique
<1>4. QED
  BY <1>2, <1>3

\* Unaligned is the distance to the first aligned byte
LEMMA UnalignedIs ==
    ASSUME NEW address \in Nat
    PROVE  /\ Unaligned(address) \in 0..(VectorBytes - 1)
           /\ \A j \in Int : (address + (Unaligned(address) + VectorBytes * j)) % VectorBytes = 0
<1> DEFINE V == VectorBytes
<1>1. V \in Nat \ {0} /\ -address \in Int
  BY VectorLoopsAssumption
<1> HIDE DEF V
<1>2. PICK q \in Int, o \in 0..(V - 1) : o = (-address) % V /\ -address = V * q + o
  BY <1>1, DivMod
<1>3. Unaligned(address) = o
  BY <1>2 DEF Unaligned, V
<1>4. ASSUME NEW j \in Int
      PROVE  (address + (o + V * j)) % V = 0
  <2>1. address + (o + V * j) = V * (j - q) + 0
    <3>1. V * (j - q) = V * j - V * q
      BY <1>1
    <3>2. address = -(V * q + o) /\ V * q \in Int /\ V * j \in Int
      BY <1>1, <1>2
    <3>3. QED
      BY <1>1, <1>2, <3>1, <3>2
  <2>2. j - q \in Int /\ 0 \in 0..(V - 1) /\ address + (o + V * j) \in Int
    <3>1. V * j \in Int
      BY <1>1
    <3>2. QED
      BY <1>1, <3>1
  <2>3. address + (o + V * j) = V * (j - q)
    BY <1>1, <2>1, <2>2
  <2>4. (V * (j - q)) % V = 0
    BY <1>1, <2>2, Multiple
  <2>5. QED
    BY <2>3, <2>4
<1>5. QED
  BY <1>2, <1>3, <1>4 DEF V

\* The blocks from the first aligned byte on, of which there are n
LEMMA BlocksAre ==
    ASSUME NEW V \in Nat \ {0}, NEW o \in Nat, NEW n \in Nat,
           NEW s \in { <<i, V>> : i \in { k \in o..(o + V * n - 1) : (k - o) % V = 0 } }
    PROVE  \E j \in 0..(n - 1) : s = <<o + V * j, V>>
<1>1. V * n \in Nat
  OBVIOUS
<1>2. PICK m \in Nat : m = V * n
  BY <1>1
<1>3. PICK k \in o..(o + m - 1) : (k - o) % V = 0 /\ s = <<k, V>>
  BY <1>2
<1>4. PICK j \in Int, z \in Nat : z = k - o /\ z = V * j + 0 /\ z < m
  <2>1. k - o \in Int /\ k - o \in Nat /\ k - o < m
    BY <1>2, <1>3
  <2>2. k - o = V * ((k - o) \div V) + ((k - o) % V) /\ (k - o) \div V \in Int
    BY <2>1, DivMod
  <2>3. QED
    BY <1>3, <2>1, <2>2
<1>5. 0 <= j
  <2>1. j + 1 <= 0 => V * (j + 1) <= 0 /\ V * (j + 1) = V * j + V
    OBVIOUS
  <2>2. QED
    BY <1>4, <2>1
<1>6. j < n
  <2>1. n <= j => V * n <= V * j
    BY <1>5
  <2>2. QED
    BY <1>2, <1>4, <2>1
<1>7. k = o + V * j
  BY <1>4
<1>8. QED
  BY <1>3, <1>5, <1>6, <1>7

\* Each of them is there
LEMMA BlockHas ==
    ASSUME NEW V \in Nat \ {0}, NEW o \in Nat, NEW n \in Nat, NEW j \in 0..(n - 1)
    PROVE  <<o + V * j, V>> \in { <<i, V>> : i \in { k \in o..(o + V * n - 1) : (k - o) % V = 0 } }
<1>1. V * j \in Nat /\ V * j + V <= V * n /\ V * n \in Nat
  <2>1. V * (j + 1) <= V * n /\ V * (j + 1) = V * j + V
    <3>1. j + 1 <= n
      OBVIOUS
    <3>2. V * (j + 1) <= V * n
      BY <3>1
    <3>3. QED
      BY <3>2
  <2>2. QED
    BY <2>1
<1>2. (V * j) % V = 0
  BY Multiple
<1>3. PICK m \in Nat, z \in Nat : m = V * n /\ z = V * j /\ z + V <= m /\ z % V = 0
  BY <1>1, <1>2
<1>4. o + z \in o..(o + m - 1) /\ (o + z) - o = z
  BY <1>3
<1>5. o + z \in { k \in o..(o + m - 1) : (k - o) % V = 0 }
  BY <1>3, <1>4
<1>6. QED
  BY <1>3, <1>5

\* A byte is in one of them
LEMMA BlockOf ==
    ASSUME NEW V \in Nat \ {0}, NEW o \in Nat, NEW n \in Nat, NEW b \in o..(o + V * n - 1)
    PROVE  \E j \in 0..(n - 1) : \A i \in Int : o + V * i <= b /\ b < o + V * i + V <=> i = j
<1>1. V * n \in Nat
  OBVIOUS
<1>2. PICK m \in Nat, x \in Nat : m = V * n /\ x = b - o /\ x < m
  BY <1>1
<1>3. PICK j \in Nat, r \in 0..(V - 1) : x = V * j + r
  <2>1. x \div V \in Nat /\ x % V \in 0..(V - 1) /\ x = V * (x \div V) + (x % V)
    BY DivMod
  <2>2. QED
    BY <2>1
<1>4. j < n
  <2>1. n <= j => V * n <= V * j
    OBVIOUS
  <2>2. QED
    BY <1>2, <1>3, <2>1
<1>5. ASSUME NEW i \in Int
      PROVE  o + V * i <= b /\ b < o + V * i + V <=> i = j
  <2>1. i + 1 <= j => V * i + V <= V * j
    <3>1. i + 1 <= j => V * (i + 1) <= V * j
      OBVIOUS
    <3>2. V * (i + 1) = V * i + V
      OBVIOUS
    <3>3. QED
      BY <3>1, <3>2
  <2>2. j + 1 <= i => V * j + V <= V * i
    <3>1. j + 1 <= i => V * (j + 1) <= V * i
      OBVIOUS
    <3>2. V * (j + 1) = V * j + V
      OBVIOUS
    <3>3. QED
      BY <3>1, <3>2
  <2>3. PICK y \in Int, z \in Int : y = V * i /\ z = V * j
    OBVIOUS
  <2>4. i = j => y = z
    BY <2>3
  <2>5. QED
    BY <1>2, <1>3, <2>1, <2>2, <2>3, <2>4
<1>6. QED
  BY <1>4, <1>5

\* A copy of bytes only
LEMMA BytesAreExact ==
    ASSUME NEW size \in Nat, NEW address \in Nat, size < 2 * VectorBytes, NEW b \in 0..(size - 1)
    PROVE  \E x \in Stores(size, address) : \A s \in Stores(size, address) : Covers(s, b) <=> s = x
<1>1. Stores(size, address) = { <<i, 1>> : i \in 0..(size - 1) }
  BY DEF Stores
<1>2. <<b, 1>> \in Stores(size, address)
  BY <1>1
<1>3. \A s \in Stores(size, address) : Covers(s, b) <=> s = <<b, 1>>
  BY <1>1, BytesAre
<1>4. QED
  BY <1>2, <1>3

\* The three loops of a copy of more: o bytes, n blocks of V bytes, t bytes
ByteStores(from, to) == { <<i, 1>> : i \in from..(to - 1) }

BlockStores(V, o, n) == { <<i, V>> : i \in { k \in o..(o + V * n - 1) : (k - o) % V = 0 } }

\* The stores: bytes, then aligned blocks, then the bytes that are left
LEMMA StoresAre ==
    ASSUME NEW size \in Nat, NEW address \in Nat, ~(size < 2 * VectorBytes)
    PROVE  \E n \in Nat, t \in 0..(VectorBytes - 1) :
             /\ size = Unaligned(address) + VectorBytes * n + t
             /\ Stores(size, address) = ByteStores(0, Unaligned(address))
                                        \cup BlockStores(VectorBytes, Unaligned(address), n)
                                        \cup ByteStores(size - t, size)
<1> DEFINE V == VectorBytes
           o == Unaligned(address)
           t == LeftOver(size, o)
<1>1. V \in Nat \ {0} /\ o \in 0..(V - 1)
  BY UnalignedIs, VectorLoopsAssumption
<1>2. Stores(size, address) =
        ByteStores(0, o)
        \cup { <<i, V>> : i \in { k \in o..(size - t - 1) : (k - o) % V = 0 } }
        \cup ByteStores(size - t, size)
  BY DEF Stores, ByteStores
<1>3. t = (size - o) % V
  BY DEF LeftOver
<1> HIDE DEF o, t
<1>4. size - o \in Nat
  <2>1. ~(size < 2 * V)
    OBVIOUS
  <2> HIDE DEF V
  <2>2. QED
    BY <1>1, <2>1
<1> HIDE DEF V
<1>5. PICK n \in Nat : t \in 0..(V - 1) /\ size - o = V * n + t
  <2>1. PICK z \in Nat : z = size - o
    BY <1>4
  <2>2. z \in Int /\ V \in Nat \ {0}
    BY <1>1
  <2>3. z \div V \in Nat /\ z % V \in 0..(V - 1) /\ z = V * (z \div V) + (z % V)
    BY <2>2, DivMod, Zenon
  <2>4. QED
    BY <1>3, <2>1, <2>3
<1>6. PICK m \in Nat : m = V * n /\ size - o = m + t
  <2>1. V * n \in Nat
    BY <1>1
  <2>2. QED
    BY <1>5, <2>1
<1>7. size = o + m + t /\ size - t - 1 = o + m - 1
  BY <1>1, <1>5, <1>6
<1>8. BlockStores(V, o, n) = { <<i, V>> : i \in { k \in o..(size - t - 1) : (k - o) % V = 0 } }
  BY <1>6, <1>7 DEF BlockStores
<1>9. QED
  BY <1>2, <1>5, <1>6, <1>7, <1>8 DEF V, o

\* Each byte has its store
LEMMA StoresAreExact ==
    ASSUME NEW size \in Nat, NEW address \in Nat, NEW b \in 0..(size - 1)
    PROVE  \E x \in Stores(size, address) : \A s \in Stores(size, address) : Covers(s, b) <=> s = x
<1>1. CASE size < 2 * VectorBytes
  BY <1>1, BytesAreExact
<1>2. CASE ~(size < 2 * VectorBytes)
  <2> DEFINE V == VectorBytes
             o == Unaligned(address)
  <2>1. PICK n \in Nat, t \in 0..(V - 1) :
             /\ size = o + V * n + t
             /\ Stores(size, address) = ByteStores(0, o) \cup BlockStores(V, o, n) \cup ByteStores(size - t, size)
    BY <1>2, StoresAre
  <2>2. V \in Nat \ {0} /\ o \in Nat
    BY UnalignedIs, VectorLoopsAssumption
  <2> HIDE DEF V, o
  <2>3. PICK m \in Nat : m = V * n /\ size = o + m + t
    <3>1. V * n \in Nat
      BY <2>2
    <3>2. QED
      BY <2>1, <3>1
  <2>4. ASSUME NEW s \in ByteStores(0, o)
        PROVE  (Covers(s, b) <=> s = <<b, 1>>) /\ (Covers(s, b) => b < o)
    <3>1. /\ s = <<s[1], 1>> /\ s[1] \in 0..(o - 1) /\ s[2] = 1
          /\ Covers(s, b) <=> s = <<b, 1>>
      BY <2>2, BytesAre DEF ByteStores
    <3>2. s = <<b, 1>> => s[1] = b
      OBVIOUS
    <3>3. QED
      BY <2>2, <3>1, <3>2
  <2>5. ASSUME NEW s \in ByteStores(size - t, size)
        PROVE  (Covers(s, b) <=> s = <<b, 1>>) /\ (Covers(s, b) => size - t <= b)
    <3>1. size - t \in Int
      BY <2>2
    <3>2. /\ s = <<s[1], 1>> /\ s[1] \in (size - t)..(size - 1) /\ s[2] = 1
          /\ Covers(s, b) <=> s = <<b, 1>>
      BY <3>1, BytesAre DEF ByteStores
    <3>3. s = <<b, 1>> => s[1] = b
      OBVIOUS
    <3>4. QED
      BY <3>1, <3>2, <3>3
  <2>6. ASSUME NEW s \in BlockStores(V, o, n)
        PROVE  \E i \in 0..(n - 1) : /\ s = <<o + V * i, V>>
                                     /\ Covers(s, b) <=> o + V * i <= b /\ b < o + V * i + V
                                     /\ Covers(s, b) => o <= b /\ b < size - t
    <3>1. PICK i \in 0..(n - 1) : s = <<o + V * i, V>>
      BY <2>2, BlocksAre DEF BlockStores
    <3>2. V * i \in Nat /\ V * i + V <= V * n
      <4>1. V * i \in Nat /\ V * (i + 1) <= V * n /\ V * (i + 1) = V * i + V
        <5>1. i \in Nat /\ i + 1 <= n
          OBVIOUS
        <5>2. V * (i + 1) <= V * n
          BY <2>2, <5>1
        <5>3. QED
          BY <2>2, <5>1, <5>2
      <4>2. QED
        BY <4>1
    <3>3. PICK y \in Nat : y = V * i /\ y + V <= m
      BY <2>3, <3>2
    <3>4. Covers(s, b) <=> o + y <= b /\ b < o + y + V
      <4>1. o + y \in Int /\ V \in Int /\ b \in Int /\ s = <<o + y, V>>
        BY <2>2, <3>1, <3>3
      <4>2. QED
        BY <4>1, StoreCovers
    <3>5. Covers(s, b) => o <= b /\ b < size - t
      BY <2>2, <2>3, <3>3, <3>4
    <3>6. QED
      BY <3>1, <3>3, <3>4, <3>5
  <2>7. CASE b < o
    <3>1. <<b, 1>> \in ByteStores(0, o)
      BY <2>2, <2>7 DEF ByteStores
    <3>2. \A s \in BlockStores(V, o, n) : ~Covers(s, b)
      BY <2>2, <2>6, <2>7
    <3>3. \A s \in ByteStores(size - t, size) : Covers(s, b) <=> s = <<b, 1>>
      BY <2>5
    <3>4. Covers(<<b, 1>>, b)
      BY StoreCovers
    <3>5. QED
      BY <2>1, <2>4, <3>1, <3>2, <3>3, <3>4
  <2>8. CASE size - t <= b
    <3>1. <<b, 1>> \in ByteStores(size - t, size)
      <4>1. b \in (size - t)..(size - 1)
        BY <2>2, <2>8
      <4>2. QED
        BY <4>1 DEF ByteStores
    <3>2. \A s \in BlockStores(V, o, n) : ~Covers(s, b)
      BY <2>2, <2>6, <2>8
    <3>3. Covers(<<b, 1>>, b)
      BY StoreCovers
    <3>4. QED
      BY <2>1, <2>4, <2>5, <3>1, <3>2, <3>3
  <2>9. CASE o <= b /\ b < size - t
    <3>1. b \in o..(o + V * n - 1)
      <4>1. b \in o..(o + m - 1)
        BY <2>2, <2>3, <2>9
      <4>2. QED
        BY <2>3, <4>1
    <3>2. PICK j \in 0..(n - 1) : \A i \in Int : o + V * i <= b /\ b < o + V * i + V <=> i = j
      BY <2>2, <3>1, BlockOf
    <3> DEFINE x == <<o + V * j, V>>
    <3>3. x \in BlockStores(V, o, n)
      BY <2>2, BlockHas DEF BlockStores
    <3>4. ASSUME NEW s \in BlockStores(V, o, n)
          PROVE  Covers(s, b) <=> s = x
      <4>1. PICK i \in 0..(n - 1) : /\ s = <<o + V * i, V>>
                                    /\ Covers(s, b) <=> o + V * i <= b /\ b < o + V * i + V
        BY <2>6
      <4>2. Covers(s, b) <=> i = j
        BY <3>2, <4>1
      <4>3. s = x => i = j
        <5>1. ASSUME s = x PROVE o + V * i = o + V * j
          BY <4>1, <5>1
        <5>2. V * i = V * j => i = j
          <6>1. V * i = V * j <=> i = j
            <7>1. ASSUME NEW p \in Int, NEW q \in Int, p + 1 <= q
                  PROVE  V * p + V <= V * q
              <8>1. V * (p + 1) <= V * q /\ V * (p + 1) = V * p + V
                BY <2>2, <7>1
              <8>2. QED
                BY <8>1
            <7>2. i + 1 <= j => V * i + V <= V * j
              BY <7>1
            <7>3. j + 1 <= i => V * j + V <= V * i
              BY <7>1
            <7>4. PICK y \in Int, z \in Int : y = V * i /\ z = V * j
              BY <2>2
            <7>5. QED
              BY <2>2, <7>2, <7>3, <7>4
          <6>2. QED
            BY <6>1
        <5>3. PICK y \in Int, z \in Int : y = V * i /\ z = V * j
          BY <2>2
        <5>4. QED
          BY <2>2, <5>1, <5>2, <5>3
      <4>4. QED
        BY <4>1, <4>2, <4>3
    <3>5. \A s \in ByteStores(0, o) : ~Covers(s, b)
      BY <2>2, <2>4, <2>9
    <3>6. \A s \in ByteStores(size - t, size) : ~Covers(s, b)
      BY <2>2, <2>5, <2>9
    <3>7. Covers(x, b)
      BY <3>3, <3>4
    <3> HIDE DEF x
    <3>8. QED
      BY <2>1, <3>3, <3>4, <3>5, <3>6, <3>7
  <2>10. QED
    BY <2>2, <2>7, <2>8, <2>9
<1>3. QED
  BY <1>1, <1>2

\* Every store of a copy is within it, and that of a block aligned
LEMMA StoresFit ==
    ASSUME NEW size \in Nat, NEW address \in Nat, NEW s \in Stores(size, address)
    PROVE  /\ s[1] + s[2] <= size
           /\ s[2] = VectorBytes => (address + s[1]) % VectorBytes = 0
<1> DEFINE V == VectorBytes
           o == Unaligned(address)
<1>1. V \in Nat \ {0} /\ o \in 0..(V - 1) /\ \A j \in Int : (address + (o + V * j)) % V = 0
  BY UnalignedIs, VectorLoopsAssumption
<1>2. ASSUME NEW from \in Nat, NEW to \in Nat, to <= size, s \in ByteStores(from, to)
      PROVE  /\ s[1] + s[2] <= size
             /\ s[2] = V => (address + s[1]) % V = 0
  <2>1. s[1] \in from..(to - 1) /\ s[2] = 1
    BY <1>2, BytesAre DEF ByteStores
  <2>2. PICK i \in Nat : i = s[1] /\ i + 1 <= size
    BY <1>2, <2>1
  <2>3. 1 = V => (address + i) % V = 0
    <3>1. (1 * (address + i)) % 1 = 0
      BY Multiple
    <3>2. 1 * (address + i) = address + i
      OBVIOUS
    <3>3. QED
      BY <3>1, <3>2
  <2>4. QED
    BY <2>1, <2>2, <2>3
<1>3. CASE size < 2 * VectorBytes
  <2>1. s \in ByteStores(0, size)
    BY <1>3 DEF Stores, ByteStores
  <2>2. QED
    BY <1>2, <2>1
<1>4. CASE ~(size < 2 * VectorBytes)
  <2>1. PICK n \in Nat, t \in 0..(V - 1) :
             /\ size = o + V * n + t
             /\ Stores(size, address) = ByteStores(0, o) \cup BlockStores(V, o, n) \cup ByteStores(size - t, size)
    BY <1>4, StoresAre
  <2> HIDE DEF o, V
  <2>2. PICK m \in Nat : m = V * n /\ size = o + m + t
    <3>1. V * n \in Nat
      BY <1>1
    <3>2. QED
      BY <2>1, <3>1
  <2>3. o \in Nat /\ o <= size /\ size - t \in Nat /\ size <= size
    BY <1>1, <2>2
  <2>4. CASE s \in BlockStores(V, o, n)
    <3>1. PICK j \in 0..(n - 1) : s = <<o + V * j, V>>
      BY <1>1, <2>3, <2>4, BlocksAre DEF BlockStores
    <3>2. s[1] = o + V * j /\ s[2] = V
      BY <3>1
    <3>3. V * j \in Nat /\ V * j + V <= V * n
      <4>1. j \in Nat /\ j + 1 <= n
        OBVIOUS
      <4>2. V * (j + 1) <= V * n /\ V * (j + 1) = V * j + V /\ V * j \in Nat
        BY <1>1, <4>1
      <4>3. QED
        BY <4>2
    <3>4. o + V * j + V <= size
      <4>1. PICK y \in Nat : y = V * j /\ y + V <= m
        BY <2>2, <3>3
      <4>2. QED
        BY <1>1, <2>2, <4>1
    <3>5. (address + (o + V * j)) % V = 0
      BY <1>1
    <3>6. QED
      BY <3>2, <3>4, <3>5 DEF V
  <2>5. CASE s \in ByteStores(0, o)
    BY <1>2, <2>3, <2>5 DEF V
  <2>6. CASE s \in ByteStores(size - t, size)
    BY <1>2, <2>3, <2>6 DEF V
  <2>7. QED
    BY <2>1, <2>4, <2>5, <2>6
<1>5. QED
  BY <1>3, <1>4

\* vectorized_memcpy stores every byte once and no other, for every size, alignment and
\* width of a vector, and its blocks are aligned (memcpy.cpp:21-52)
THEOREM CopiesAreExact ==
    ASSUME NEW size \in Nat
    PROVE  CopiesEachByteOnce(size)
<1>1. ASSUME NEW address \in 0..(VectorBytes - 1), NEW b \in 0..(size - 1)
      PROVE  Cardinality({ s \in Stores(size, address) : b \in s[1]..(s[1] + s[2] - 1) }) = 1
  <2>1. PICK x \in Stores(size, address) : \A s \in Stores(size, address) : Covers(s, b) <=> s = x
    BY StoresAreExact
  <2>2. { s \in Stores(size, address) : Covers(s, b) } = {x}
    BY <2>1
  <2>3. { s \in Stores(size, address) : b \in s[1]..(s[1] + s[2] - 1) } = {x}
    BY <2>2 DEF Covers
  <2>4. QED
    BY <2>3, FS_Singleton
<1>2. ASSUME NEW address \in 0..(VectorBytes - 1), NEW s \in Stores(size, address)
      PROVE  /\ s[1] + s[2] <= size
             /\ s[2] = VectorBytes => (address + s[1]) % VectorBytes = 0
  BY StoresFit
<1>3. QED
  BY <1>1, <1>2 DEF CopiesEachByteOnce

-----------------------------------------------------------------------------
(* count_words.                                                            *)

\* Bit is 0 or 1
LEMMA BitIs ==
    ASSUME NEW b
    PROVE  Bit(b) \in {0, 1} /\ Bit(b) \in Nat /\ (b => Bit(b) = 1) /\ (~b => Bit(b) = 0)
BY DEF Bit

\* Words that start in an interval
LEMMA StartsAreFinite ==
    ASSUME NEW str, NEW lo \in Int, NEW hi \in Int
    PROVE  /\ IsFiniteSet({ i \in lo..hi : StartsAt(str, i) })
           /\ StartsIn(str, lo..hi) \in Nat
<1>1. IsFiniteSet(lo..hi)
  BY FS_Interval
<1>2. IsFiniteSet({ i \in lo..hi : StartsAt(str, i) })
  BY <1>1, FS_Subset
<1>3. QED
  BY <1>2, FS_CardinalityType DEF StartsIn

\* The words of two intervals
LEMMA StartsSplit ==
    ASSUME NEW str, NEW lo \in Int, NEW mid \in Int, NEW hi \in Int, lo <= mid + 1, mid <= hi
    PROVE  StartsIn(str, lo..hi) = StartsIn(str, lo..mid) + StartsIn(str, (mid + 1)..hi)
<1> DEFINE A == { i \in lo..mid : StartsAt(str, i) }
           B == { i \in (mid + 1)..hi : StartsAt(str, i) }
           C == { i \in lo..hi : StartsAt(str, i) }
<1>1. C = A \cup B /\ A \cap B = {}
  OBVIOUS
<1>2. IsFiniteSet(A) /\ IsFiniteSet(B) /\ Cardinality(A) \in Nat /\ Cardinality(B) \in Nat
  <2>1. mid + 1 \in Int
    OBVIOUS
  <2>2. IsFiniteSet(A) /\ IsFiniteSet(B)
    BY <2>1, StartsAreFinite, Zenon
  <2>3. QED
    BY <2>2, FS_CardinalityType
<1> HIDE DEF A, B, C
<1>3. Cardinality(C) = Cardinality(A) + Cardinality(B)
  <2>1. Cardinality(A \cap B) = 0
    BY <1>1, FS_EmptySet
  <2>2. Cardinality(A \cup B) = Cardinality(A) + Cardinality(B) - Cardinality(A \cap B)
    BY <1>2, FS_Union
  <2>3. QED
    BY <1>1, <1>2, <2>1, <2>2
<1>4. QED
  BY <1>3 DEF A, B, C, StartsIn

\* One place
LEMMA StartsOne ==
    ASSUME NEW str, NEW i \in Int
    PROVE  StartsIn(str, i..i) = Bit(StartsAt(str, i))
<1>1. CASE StartsAt(str, i)
  <2>1. { j \in i..i : StartsAt(str, j) } = {i}
    BY <1>1
  <2>2. QED
    BY <1>1, <2>1, FS_Singleton DEF StartsIn, Bit
<1>2. CASE ~StartsAt(str, i)
  <2>1. { j \in i..i : StartsAt(str, j) } = {}
    BY <1>2
  <2>2. QED
    BY <1>2, <2>1, FS_EmptySet DEF StartsIn, Bit
<1>3. QED
  BY <1>1, <1>2

\* No word starts in no position
LEMMA StartsNone ==
    ASSUME NEW str, NEW lo \in Int, NEW hi \in Int, hi < lo
    PROVE  StartsIn(str, lo..hi) = 0
<1>1. { j \in lo..hi : StartsAt(str, j) } = {}
  OBVIOUS
<1>2. QED
  BY <1>1, FS_EmptySet DEF StartsIn

\* The words that start up to n
Starts(str, n) == StartsIn(str, 1..n)

\* One position more
LEMMA StartsNext ==
    ASSUME NEW str, NEW n \in Nat
    PROVE  /\ Starts(str, n) \in Nat
           /\ Starts(str, n + 1) = Starts(str, n) + Bit(StartsAt(str, n + 1))
           /\ Starts(str, 0) = 0
<1>1. Starts(str, n) \in Nat
  <2>1. 1 \in Int /\ n \in Int
    OBVIOUS
  <2>2. QED
    BY <2>1, StartsAreFinite, Zenon DEF Starts
<1>2. Starts(str, n + 1) = Starts(str, n) + Bit(StartsAt(str, n + 1))
  <2>1. PICK m \in Int : m = n + 1 /\ 1 <= m /\ n <= m
    OBVIOUS
  <2>2. StartsIn(str, 1..m) = StartsIn(str, 1..n) + StartsIn(str, (n + 1)..m)
    <3>1. PICK lo \in Int : lo = 1 /\ lo <= n + 1
      OBVIOUS
    <3>2. n <= m /\ lo <= n + 1
      BY <2>1, <3>1
    <3>3. StartsIn(str, lo..m) = StartsIn(str, lo..n) + StartsIn(str, (n + 1)..m)
      BY <3>2, StartsSplit
    <3>4. QED
      BY <3>1, <3>3
  <2>3. StartsIn(str, m..m) = Bit(StartsAt(str, m))
    BY StartsOne
  <2>4. QED
    BY <2>1, <2>2, <2>3 DEF Starts
<1>3. Starts(str, 0) = 0
  BY StartsNone DEF Starts
<1>4. QED
  BY <1>1, <1>2, <1>3

\* The words that start between two positions
LEMMA StartsBetween ==
    ASSUME NEW str, NEW m \in Nat, NEW n \in Nat, m <= n
    PROVE  StartsIn(str, (m + 1)..n) = Starts(str, n) - Starts(str, m)
<1>1. StartsIn(str, 1..n) = StartsIn(str, 1..m) + StartsIn(str, (m + 1)..n)
  <2>1. PICK lo \in Int : lo = 1 /\ lo <= m + 1
    OBVIOUS
  <2>2. StartsIn(str, lo..n) = StartsIn(str, lo..m) + StartsIn(str, (m + 1)..n)
    BY <2>1, StartsSplit
  <2>3. QED
    BY <2>1, <2>2
<1>2. StartsIn(str, 1..m) \in Nat /\ StartsIn(str, (m + 1)..n) \in Nat
  <2>1. 1 \in Int /\ m \in Int /\ n \in Int /\ m + 1 \in Int
    OBVIOUS
  <2>2. QED
    BY <2>1, StartsAreFinite, Zenon
<1>3. QED
  BY <1>1, <1>2 DEF Starts

\* What is in a string
LEMMA StringHas ==
    ASSUME NEW str \in Seq(BOOLEAN)
    PROVE  /\ Len(str) \in Nat
           /\ \A i \in 0..(Len(str) - 1) : Space(str, i) \in BOOLEAN
<1>1. Len(str) \in Nat /\ \A i \in 1..Len(str) : str[i] \in BOOLEAN
  OBVIOUS
<1>2. \A i \in 0..(Len(str) - 1) : i + 1 \in 1..Len(str)
  BY <1>1
<1>3. QED
  BY <1>1, <1>2 DEF Space

\* The state of the slow loop
Scanned == [ret : Nat, prev_is_space : BOOLEAN]

\* A state of the plain count, read back
LEMMA ScannedIs ==
    ASSUME NEW ret \in Nat, NEW b \in BOOLEAN
    PROVE  /\ [ret |-> ret, prev_is_space |-> b] \in Scanned
           /\ [ret |-> ret, prev_is_space |-> b].ret = ret
           /\ [ret |-> ret, prev_is_space |-> b].prev_is_space = b
BY DEF Scanned

\* count_words_slowly: the first character, and the places where a word starts
LEMMA CountWordsSlowlyIs ==
    ASSUME NEW str \in Seq(BOOLEAN)
    PROVE  CountWordsSlowly(str) = IF Len(str) = 0 THEN 0
                                   ELSE Bit(~Space(str, 0)) + Starts(str, Len(str) - 1)
<1> DEFINE n == Len(str)
           After(x, i) == [ret |-> x.ret + Bit(x.prev_is_space /\ ~Space(str, i - 1)),
                           prev_is_space |-> Space(str, i - 1)]
           step == [i \in 1..n |-> [x \in Scanned |-> After(x, i)]]
           start == [ret |-> 0, prev_is_space |-> TRUE]
           st == CHOOSE st : st = [i \in 0..Len(str) |->
                     IF i = 0 THEN [ret |-> 0, prev_is_space |-> TRUE]
                     ELSE [ret |-> st[i - 1].ret + Bit(st[i - 1].prev_is_space /\ ~Space(str, i - 1)),
                           prev_is_space |-> Space(str, i - 1)]]
<1>1. n \in Nat /\ \A i \in 1..n : i - 1 \in 0..(n - 1) /\ Space(str, i - 1) \in BOOLEAN
  BY StringHas
<1>2. start \in Scanned
  BY ScannedIs
<1>3. ASSUME NEW i \in 1..n, NEW x \in Scanned
      PROVE  /\ After(x, i) \in Scanned
             /\ After(x, i).ret = x.ret + Bit(x.prev_is_space /\ ~Space(str, i - 1))
             /\ After(x, i).prev_is_space = Space(str, i - 1)
  <2>1. x.ret \in Nat /\ Bit(x.prev_is_space /\ ~Space(str, i - 1)) \in Nat
    BY BitIs DEF Scanned
  <2>2. x.ret + Bit(x.prev_is_space /\ ~Space(str, i - 1)) \in Nat
    BY <2>1
  <2>3. QED
    BY <1>1, <2>2, ScannedIs
<1> HIDE DEF After, start
<1>4. step \in [1..n -> [Scanned -> Scanned]] /\ \A i \in 1..n, x \in Scanned : step[i][x] = After(x, i)
  BY <1>3
<1> HIDE DEF step, n
<1>5. PICK f \in [0..n -> Scanned] : f[0] = start /\ \A i \in 1..n : f[i] = step[i][f[i - 1]]
  <2>1. Rising(n, Scanned, start, step) # {}
    BY <1>1, <1>2, <1>4, RecursionUp
  <2>2. QED
    BY <2>1 DEF Rising
<1>6. /\ \A i \in 1..n : i \in 0..n /\ i - 1 \in 0..n /\ i # 0
      /\ \A i \in 0..n : i # 0 => i \in 1..n
      /\ 0 \in 0..n /\ n \in 0..n
  BY <1>1
<1>7. \A i \in 1..n : f[i] = After(f[i - 1], i)
  BY <1>4, <1>5, <1>6
<1> DEFINE h == [i \in 0..Len(str) |->
                     IF i = 0 THEN [ret |-> 0, prev_is_space |-> TRUE]
                     ELSE [ret |-> f[i - 1].ret + Bit(f[i - 1].prev_is_space /\ ~Space(str, i - 1)),
                           prev_is_space |-> Space(str, i - 1)]]
<1>8. f = h
  <2>1. f = [i \in 0..n |-> f[i]]
    BY <1>5
  <2>2. h = [i \in 0..n |-> h[i]]
    BY DEF n
  <2>3. ASSUME NEW i \in 0..n
        PROVE  f[i] = h[i]
    <3>1. h[i] = IF i = 0 THEN start ELSE After(f[i - 1], i)
      BY DEF n, start, After
    <3> HIDE DEF h
    <3>2. QED
      BY <1>5, <1>6, <1>7, <3>1
  <2> HIDE DEF h
  <2>4. QED
    BY <2>1, <2>2, <2>3, Extensional
<1>9. st = [i \in 0..Len(str) |->
                     IF i = 0 THEN [ret |-> 0, prev_is_space |-> TRUE]
                     ELSE [ret |-> st[i - 1].ret + Bit(st[i - 1].prev_is_space /\ ~Space(str, i - 1)),
                           prev_is_space |-> Space(str, i - 1)]]
  BY <1>8
<1>10. CountWordsSlowly(str) = st[n].ret
  BY DEF CountWordsSlowly, n
<1> HIDE DEF st, h
<1>11. st[0] = start /\ \A i \in 1..n : st[i] = After(st[i - 1], i)
  <2>1. ASSUME NEW i \in 0..n
        PROVE  st[i] = IF i = 0 THEN start ELSE After(st[i - 1], i)
    BY <1>9 DEF n, start, After
  <2>2. QED
    BY <1>6, <2>1
<1> DEFINE Right(i) == /\ st[i] \in Scanned
                       /\ st[i].ret = Bit(~Space(str, 0)) + Starts(str, i - 1)
                       /\ st[i].prev_is_space = Space(str, i - 1)
           S == { i \in 1..n : Right(i) }
<1>12. CASE n = 0
  <2>1. st[n].ret = 0
    BY <1>11, <1>12, ScannedIs DEF start
  <2>2. QED
    BY <1>10, <1>12, <2>1 DEF n
<1>13. CASE n # 0
  <2>1. 1 \in S /\ 1 \in Int /\ n \in Int /\ 1 <= n
    <3>1. 1 \in 1..n /\ 1 - 1 = 0
      BY <1>1, <1>13
    <3>2. st[1] = After(start, 1)
      BY <1>11, <3>1
    <3>3. start.ret = 0 /\ start.prev_is_space = TRUE
      BY ScannedIs DEF start
    <3>4. /\ st[1] \in Scanned
          /\ st[1].ret = 0 + Bit(start.prev_is_space /\ ~Space(str, 1 - 1))
          /\ st[1].prev_is_space = Space(str, 1 - 1)
      BY <1>2, <1>3, <3>1, <3>2, <3>3
    <3>5. Bit(start.prev_is_space /\ ~Space(str, 1 - 1)) = Bit(~Space(str, 0))
      BY <3>1, <3>3 DEF Bit
    <3>6. Starts(str, 1 - 1) = 0 /\ Bit(~Space(str, 0)) \in Nat
      BY <3>1, StartsNext, BitIs
    <3>7. Right(1)
      BY <3>4, <3>5, <3>6
    <3>8. QED
      BY <1>1, <1>13, <3>1, <3>7
  <2>2. ASSUME NEW i \in Int, 1 <= i, i < n, i \in S
        PROVE  i + 1 \in S
    <3>1. i + 1 \in 1..n /\ i \in 1..n /\ i + 1 - 1 = i /\ i - 1 \in Nat /\ i - 1 + 1 = i
      BY <1>1, <2>2
    <3>2. st[i + 1] = After(st[i], i + 1)
      BY <1>11, <3>1
    <3>3. Right(i)
      BY <2>2
    <3>4. /\ st[i + 1] \in Scanned
          /\ st[i + 1].ret = st[i].ret + Bit(st[i].prev_is_space /\ ~Space(str, i))
          /\ st[i + 1].prev_is_space = Space(str, i)
      BY <1>3, <3>1, <3>2, <3>3
    <3>5. Bit(st[i].prev_is_space /\ ~Space(str, i)) = Bit(StartsAt(str, i))
      BY <3>3 DEF StartsAt, Bit
    <3>6. Starts(str, i) = Starts(str, i - 1) + Bit(StartsAt(str, i)) /\ Starts(str, i - 1) \in Nat
      <4>1. PICK j \in Nat : j = i - 1 /\ j + 1 = i
        BY <3>1
      <4>2. Starts(str, j + 1) = Starts(str, j) + Bit(StartsAt(str, j + 1)) /\ Starts(str, j) \in Nat
        BY StartsNext
      <4>3. QED
        BY <4>1, <4>2
    <3>7. Bit(~Space(str, 0)) \in Nat /\ Bit(StartsAt(str, i)) \in Nat
      BY BitIs
    <3>8. st[i + 1].ret = Bit(~Space(str, 0)) + Starts(str, i)
      BY <3>3, <3>4, <3>5, <3>6, <3>7
    <3>9. Right(i + 1)
      BY <3>1, <3>4, <3>8
    <3>10. QED
      BY <3>1, <3>9
  <2> HIDE DEF Right
  <2>3. n \in S
    <3>1. \A i \in Int : 1 <= i /\ i < n /\ i \in S => i + 1 \in S
      BY <2>2
    <3> HIDE DEF S
    <3>2. 1..n \subseteq S
      BY <2>1, <3>1, Upwards
    <3>3. n \in 1..n
      BY <1>1, <1>13
    <3>4. QED
      BY <3>2, <3>3
  <2>4. st[n].ret = Bit(~Space(str, 0)) + Starts(str, n - 1)
    BY <2>3 DEF Right
  <2>5. QED
    BY <1>10, <1>13, <2>4 DEF n
<1>14. QED
  BY <1>12, <1>13

\* A store of counters
Counters == [Lanes -> Nat]

\* The partial sums of a store
LEMMA SumOfLanesIs ==
    ASSUME NEW store \in Counters
    PROVE  \E sum \in [0..VectorBytes -> Nat] :
             /\ sum[0] = 0 /\ SumOfLanes(store) = sum[VectorBytes]
             /\ \A j \in 1..VectorBytes : sum[j] = sum[j - 1] + store[j - 1]
<1> DEFINE n == VectorBytes
           step == [j \in 1..n |-> [x \in Nat |-> x + store[j - 1]]]
           sum == CHOOSE sum : sum = [j \in 0..VectorBytes |-> IF j = 0 THEN 0 ELSE sum[j - 1] + store[j - 1]]
<1>1. n \in Nat /\ \A j \in 1..n : j - 1 \in Lanes
  BY VectorLoopsAssumption DEF Lanes
<1>2. \A j \in 1..n : store[j - 1] \in Nat
  BY <1>1 DEF Counters
<1>3. step \in [1..n -> [Nat -> Nat]] /\ \A j \in 1..n, x \in Nat : step[j][x] = x + store[j - 1]
  BY <1>2
<1>4. SumOfLanes(store) = sum[n]
  BY DEF SumOfLanes
<1> HIDE DEF step, n
<1>5. PICK f \in [0..n -> Nat] : f[0] = 0 /\ \A j \in 1..n : f[j] = step[j][f[j - 1]]
  <2>1. Rising(n, Nat, 0, step) # {}
    BY <1>1, <1>3, RecursionUp
  <2>2. QED
    BY <2>1 DEF Rising
<1>6. /\ \A j \in 1..n : j \in 0..n /\ j - 1 \in 0..n /\ j # 0
      /\ \A j \in 0..n : j # 0 => j \in 1..n
      /\ 0 \in 0..n /\ n \in 0..n
  BY <1>1
<1>7. \A j \in 1..n : f[j] = f[j - 1] + store[j - 1]
  BY <1>3, <1>5, <1>6
<1> DEFINE h == [j \in 0..VectorBytes |-> IF j = 0 THEN 0 ELSE f[j - 1] + store[j - 1]]
<1>8. f = h
  <2>1. f = [j \in 0..n |-> f[j]]
    BY <1>5
  <2>2. h = [j \in 0..n |-> h[j]] /\ \A j \in 0..n : f[j] = h[j]
    BY <1>5, <1>6, <1>7 DEF n
  <2> HIDE DEF h
  <2>3. QED
    BY <2>1, <2>2, Extensional
<1>9. sum = [j \in 0..VectorBytes |-> IF j = 0 THEN 0 ELSE sum[j - 1] + store[j - 1]]
  BY <1>8
<1> HIDE DEF sum, h
<1>10. sum[0] = 0 /\ \A j \in 1..n : sum[j] = sum[j - 1] + store[j - 1]
  BY <1>6, <1>9 DEF n
<1> DEFINE S == { j \in 0..n : sum[j] \in Nat }
<1>11. 0..n \subseteq S
  <2>1. 0 \in S /\ 0 \in Int /\ n \in Int /\ 0 <= n
    BY <1>1, <1>6, <1>10
  <2>2. ASSUME NEW j \in Int, 0 <= j, j < n, j \in S
        PROVE  j + 1 \in S
    <3>1. j + 1 \in 1..n /\ j + 1 \in 0..n /\ j + 1 - 1 = j
      BY <1>1, <2>2
    <3>2. sum[j + 1] = sum[j] + store[j] /\ store[j] \in Nat
      BY <1>2, <1>10, <3>1
    <3>3. QED
      BY <2>2, <3>1, <3>2
  <2> HIDE DEF S
  <2>3. \A j \in Int : 0 <= j /\ j < n /\ j \in S => j + 1 \in S
    BY <2>2
  <2>4. QED
    BY <2>1, <2>3, Upwards
<1>12. sum = [j \in 0..n |-> sum[j]] /\ \A j \in 0..n : sum[j] \in Nat
  BY <1>9, <1>11 DEF n
<1>13. sum \in [0..n -> Nat]
  BY <1>12
<1>14. QED
  BY <1>4, <1>10, <1>13 DEF n

\* A block adds to the sum the words that start right of it by one
LEMMA SumAfterBlock ==
    ASSUME NEW str, NEW i \in Nat, NEW old \in Counters, NEW new \in Counters,
           \A j \in Lanes : new[j] = old[j] + Lane(str, i, j)
    PROVE  /\ SumOfLanes(old) \in Nat /\ SumOfLanes(new) \in Nat
           /\ SumOfLanes(new) = SumOfLanes(old) + (Starts(str, i + VectorBytes) - Starts(str, i))
<1> DEFINE n == VectorBytes
<1>1. n \in Nat /\ \A j \in 1..n : j - 1 \in Lanes
  BY VectorLoopsAssumption DEF Lanes
<1>2. PICK p \in [0..n -> Nat] : /\ p[0] = 0 /\ SumOfLanes(old) = p[n]
                                 /\ \A j \in 1..n : p[j] = p[j - 1] + old[j - 1]
  BY SumOfLanesIs
<1>3. PICK q \in [0..n -> Nat] : /\ q[0] = 0 /\ SumOfLanes(new) = q[n]
                                 /\ \A j \in 1..n : q[j] = q[j - 1] + new[j - 1]
  BY SumOfLanesIs
<1> HIDE DEF n
<1> DEFINE S == { j \in 0..n : q[j] = p[j] + (Starts(str, i + j) - Starts(str, i)) }
<1>4. 0..n \subseteq S
  <2>1. 0 \in S /\ 0 \in Int /\ n \in Int /\ 0 <= n
    <3>1. i + 0 = i /\ Starts(str, i) \in Nat
      BY StartsNext
    <3>2. QED
      BY <1>1, <1>2, <1>3, <3>1
  <2>2. ASSUME NEW j \in Int, 0 <= j, j < n, j \in S
        PROVE  j + 1 \in S
    <3>1. j + 1 \in 1..n /\ j + 1 \in 0..n /\ j \in 0..n /\ j + 1 - 1 = j /\ i + j \in Nat /\ i + (j + 1) = i + j + 1
      BY <1>1, <2>2
    <3>2. j \in Lanes
      BY <1>1, <3>1
    <3>3. p[j + 1] = p[j] + old[j] /\ q[j + 1] = q[j] + new[j]
      BY <1>2, <1>3, <3>1
    <3>4. new[j] = old[j] + Bit(StartsAt(str, i + j + 1))
      BY <3>2 DEF Lane
    <3>5. Starts(str, i + j + 1) = Starts(str, i + j) + Bit(StartsAt(str, i + j + 1)) /\ Starts(str, i + j) \in Nat
      <4>1. PICK k \in Nat : k = i + j
        BY <3>1
      <4>2. Starts(str, k + 1) = Starts(str, k) + Bit(StartsAt(str, k + 1)) /\ Starts(str, k) \in Nat
        BY StartsNext
      <4>3. QED
        BY <4>1, <4>2
    <3>6. p[j] \in Nat /\ q[j] \in Nat /\ old[j] \in Nat /\ Bit(StartsAt(str, i + j + 1)) \in Nat /\ Starts(str, i) \in Nat
      BY <1>2, <1>3, <3>1, <3>2, BitIs, StartsNext DEF Counters
    <3>7. q[j] = p[j] + (Starts(str, i + j) - Starts(str, i))
      BY <2>2
    <3>8. q[j + 1] = p[j + 1] + (Starts(str, i + j + 1) - Starts(str, i))
      BY <3>3, <3>4, <3>5, <3>6, <3>7
    <3>9. QED
      BY <3>1, <3>8
  <2> HIDE DEF S
  <2>3. \A j \in Int : 0 <= j /\ j < n /\ j \in S => j + 1 \in S
    BY <2>2
  <2>4. QED
    BY <2>1, <2>3, Upwards
<1>5. n \in S /\ n \in 0..n
  BY <1>1, <1>4
<1>6. QED
  BY <1>2, <1>3, <1>5 DEF n

\* An empty store
LEMMA EmptyIs == Empty \in Counters /\ SumOfLanes(Empty) = 0
<1> DEFINE n == VectorBytes
<1>1. n \in Nat /\ Empty \in Counters /\ \A j \in 1..n : j - 1 \in Lanes /\ Empty[j - 1] = 0
  BY VectorLoopsAssumption DEF Empty, Counters, Lanes
<1>2. PICK p \in [0..n -> Nat] : /\ p[0] = 0 /\ SumOfLanes(Empty) = p[n]
                                 /\ \A j \in 1..n : p[j] = p[j - 1] + Empty[j - 1]
  BY <1>1, SumOfLanesIs
<1> HIDE DEF n
<1> DEFINE S == { j \in 0..n : p[j] = 0 }
<1>3. 0 \in S /\ 0 \in Int /\ n \in Int /\ 0 <= n
  BY <1>1, <1>2
<1>4. ASSUME NEW j \in Int, 0 <= j, j < n, j \in S
      PROVE  j + 1 \in S
  <2>1. j + 1 \in 1..n /\ j + 1 \in 0..n /\ j + 1 - 1 = j
    BY <1>1, <1>4
  <2>2. p[j + 1] = p[j] + Empty[j] /\ Empty[j] = 0
    <3>1. PICK k \in 1..n : k = j + 1 /\ k - 1 = j
      BY <2>1
    <3>2. p[k] = p[k - 1] + Empty[k - 1] /\ Empty[k - 1] = 0
      BY <1>1, <1>2
    <3>3. QED
      BY <3>1, <3>2
  <2>3. QED
    BY <1>4, <2>1, <2>2
<1>5. 0..n \subseteq S
  <2>1. \A j \in Int : 0 <= j /\ j < n /\ j \in S => j + 1 \in S
    BY <1>4
  <2> HIDE DEF S
  <2>2. QED
    BY <1>3, <2>1, Upwards
<1>6. QED
  BY <1>1, <1>2, <1>5

\* The state of the loop over blocks: no counter has its top bit set
Quiet    == { store \in Counters : \A j \in Lanes : ~TopBit(store[j]) }
Counting == [store : Quiet, ans : Nat]

\* A state of the count over blocks, read back
LEMMA CountingIs ==
    ASSUME NEW store \in Quiet, NEW ans \in Nat
    PROVE  /\ [store |-> store, ans |-> ans] \in Counting
           /\ [store |-> store, ans |-> ans].store = store
           /\ [store |-> store, ans |-> ans].ans = ans
BY DEF Counting

\* No empty counter has its top bit set
LEMMA EmptyIsQuiet == Empty \in Quiet
<1>1. \A j \in Lanes : Empty[j] = 0
  BY DEF Empty
<1>2. ~TopBit(0)
  BY VectorLoopsAssumption DEF TopBit
<1>3. QED
  BY <1>1, <1>2, EmptyIs DEF Quiet

\* A counter that has not got its top bit yet cannot saturate
LEMMA NothingIsLost ==
    ASSUME NEW n \in Nat, ~TopBit(n), NEW b
    PROVE  Saturated(n + Bit(b)) = n + Bit(b)
<1>1. Bit(b) \in {0, 1}
  BY BitIs
<1>2. CounterMax \in Nat \ {0} /\ 2 * n <= CounterMax
  BY VectorLoopsAssumption DEF TopBit
<1>3. n + Bit(b) <= CounterMax
  BY <1>1, <1>2
<1>4. ~(n + Bit(b) > CounterMax)
  BY <1>1, <1>2, <1>3
<1>5. QED
  BY <1>4 DEF Saturated

\* One block: what is counted is in ans or in the store, and in the last round in ans
LEMMA CountBlockIs ==
    ASSUME NEW str, NEW i \in Nat, NEW last \in BOOLEAN, NEW st \in Counting
    PROVE  LET new == CountBlock(str, i, last, st)
           IN  /\ new \in Counting
               /\ last => new.store = Empty
               /\ new.ans + SumOfLanes(new.store)
                    = st.ans + SumOfLanes(st.store) + (Starts(str, i + VectorBytes) - Starts(str, i))
<1> DEFINE store == [j \in Lanes |-> Saturated(st.store[j] + Lane(str, i, j))]
           empties == last \/ \E j \in Lanes : TopBit(store[j])
           new == CountBlock(str, i, last, st)
<1>1. st.store \in Quiet /\ st.ans \in Nat
  BY DEF Counting
<1>2. \A j \in Lanes : st.store[j] \in Nat /\ ~TopBit(st.store[j])
  BY <1>1 DEF Quiet, Counters
<1>3. ASSUME NEW j \in Lanes
      PROVE  store[j] = st.store[j] + Lane(str, i, j) /\ store[j] \in Nat
  <2>1. Saturated(st.store[j] + Lane(str, i, j)) = st.store[j] + Lane(str, i, j)
    BY <1>2, NothingIsLost DEF Lane
  <2>2. Lane(str, i, j) \in Nat
    BY BitIs DEF Lane
  <2>3. store[j] = Saturated(st.store[j] + Lane(str, i, j))
    OBVIOUS
  <2>4. QED
    BY <1>2, <2>1, <2>2, <2>3
<1>4. store \in Counters
  <2>1. store = [j \in Lanes |-> store[j]]
    OBVIOUS
  <2>2. QED
    BY <1>3, <2>1 DEF Counters
<1>5. new = IF empties THEN [store |-> Empty, ans |-> st.ans + SumOfLanes(store)]
            ELSE [store |-> store, ans |-> st.ans]
  BY DEF CountBlock
<1> HIDE DEF store
<1>6. /\ SumOfLanes(st.store) \in Nat /\ SumOfLanes(store) \in Nat
      /\ SumOfLanes(store) = SumOfLanes(st.store) + (Starts(str, i + VectorBytes) - Starts(str, i))
  <2>1. st.store \in Counters
    BY <1>1 DEF Quiet
  <2>2. QED
    BY <1>3, <1>4, <2>1, SumAfterBlock
<1>7. Starts(str, i + VectorBytes) \in Nat /\ Starts(str, i) \in Nat
  <2>1. PICK k \in Nat : k = i + VectorBytes
    BY VectorLoopsAssumption
  <2>2. QED
    BY <2>1, StartsNext
<1> HIDE DEF new
<1>8. CASE empties
  <2>1. st.ans + SumOfLanes(store) \in Nat
    BY <1>1, <1>6
  <2>2. new \in Counting /\ new.store = Empty /\ new.ans = st.ans + SumOfLanes(store)
    BY <1>5, <1>8, <2>1, EmptyIsQuiet, CountingIs
  <2>3. SumOfLanes(new.store) = 0
    BY <2>2, EmptyIs
  <2>4. QED
    BY <1>1, <1>6, <1>7, <2>2, <2>3 DEF new
<1>9. CASE ~empties
  <2>1. store \in Quiet /\ ~last
    BY <1>4, <1>9 DEF Quiet
  <2>2. new \in Counting /\ new.store = store /\ new.ans = st.ans
    BY <1>1, <1>5, <1>9, <2>1, CountingIs
  <2>3. QED
    BY <1>1, <1>6, <1>7, <2>1, <2>2 DEF new
<1>10. QED
  BY <1>8, <1>9

\* The loop over the blocks counts the words that start in them, each block moved by one
LEMMA CountBlocksIs ==
    ASSUME NEW str, NEW first \in Nat, NEW blocks \in Nat, NEW ans \in Nat
    PROVE  CountBlocks(str, first, blocks, ans)
             = ans + (Starts(str, first + blocks * VectorBytes) - Starts(str, first))
<1> DEFINE After(x, b) == CountBlock(str, first + (b - 1) * VectorBytes, b = blocks, x)
           step == [b \in 1..blocks |-> [x \in Counting |-> After(x, b)]]
           start == [store |-> Empty, ans |-> ans]
           st == CHOOSE st : st = [b \in 0..blocks |->
                     IF b = 0 THEN [store |-> Empty, ans |-> ans]
                     ELSE CountBlock(str, first + (b - 1) * VectorBytes, b = blocks, st[b - 1])]
           At0(b) == first + b * VectorBytes
<1>1. \A b \in Nat : At0(b) \in Nat
  BY VectorLoopsAssumption
<1>2. ASSUME NEW b \in 1..blocks, NEW x \in Counting
      PROVE  /\ After(x, b) \in Counting
             /\ b = blocks => After(x, b).store = Empty
             /\ After(x, b).ans + SumOfLanes(After(x, b).store)
                  = x.ans + SumOfLanes(x.store) + (Starts(str, At0(b)) - Starts(str, At0(b - 1)))
  <2>1. b - 1 \in Nat /\ At0(b - 1) \in Nat /\ (b = blocks) \in BOOLEAN
    BY <1>1
  <2>2. At0(b - 1) + VectorBytes = At0(b)
    <3>1. (b - 1) * VectorBytes + VectorBytes = b * VectorBytes /\ (b - 1) * VectorBytes \in Nat /\ b * VectorBytes \in Nat
      BY VectorLoopsAssumption
    <3>2. QED
      BY <3>1, VectorLoopsAssumption
  <2>3. After(x, b) = CountBlock(str, At0(b - 1), b = blocks, x)
    OBVIOUS
  <2> HIDE DEF At0, After
  <2>4. PICK i \in Nat, last \in BOOLEAN : i = At0(b - 1) /\ last = (b = blocks)
    BY <2>1
  <2>5. /\ CountBlock(str, i, last, x) \in Counting
        /\ last => CountBlock(str, i, last, x).store = Empty
        /\ CountBlock(str, i, last, x).ans + SumOfLanes(CountBlock(str, i, last, x).store)
             = x.ans + SumOfLanes(x.store) + (Starts(str, i + VectorBytes) - Starts(str, i))
    BY CountBlockIs
  <2>6. QED
    BY <2>2, <2>3, <2>4, <2>5
<1>3. start \in Counting /\ start.store = Empty /\ start.ans = ans
  BY EmptyIsQuiet, CountingIs
<1>4. step \in [1..blocks -> [Counting -> Counting]] /\ \A b \in 1..blocks, x \in Counting : step[b][x] = After(x, b)
  BY <1>2
<1> HIDE DEF step, start, After
<1>5. PICK f \in [0..blocks -> Counting] : f[0] = start /\ \A b \in 1..blocks : f[b] = step[b][f[b - 1]]
  <2>1. Rising(blocks, Counting, start, step) # {}
    BY <1>3, <1>4, RecursionUp
  <2>2. QED
    BY <2>1 DEF Rising
<1>6. /\ \A b \in 1..blocks : b \in 0..blocks /\ b - 1 \in 0..blocks /\ b # 0
      /\ \A b \in 0..blocks : b # 0 => b \in 1..blocks
      /\ 0 \in 0..blocks /\ blocks \in 0..blocks
  OBVIOUS
<1>7. \A b \in 1..blocks : f[b] = After(f[b - 1], b)
  BY <1>4, <1>5, <1>6
<1> DEFINE h == [b \in 0..blocks |->
                     IF b = 0 THEN [store |-> Empty, ans |-> ans]
                     ELSE CountBlock(str, first + (b - 1) * VectorBytes, b = blocks, f[b - 1])]
<1>8. f = h
  <2>1. f = [b \in 0..blocks |-> f[b]]
    BY <1>5
  <2>2. h = [b \in 0..blocks |-> h[b]]
    OBVIOUS
  <2>3. ASSUME NEW b \in 0..blocks
        PROVE  f[b] = h[b]
    <3>1. h[b] = IF b = 0 THEN start ELSE After(f[b - 1], b)
      BY DEF start, After
    <3> HIDE DEF h
    <3>2. QED
      BY <1>5, <1>6, <1>7, <3>1
  <2> HIDE DEF h
  <2>4. QED
    BY <2>1, <2>2, <2>3, Extensional
<1>9. st = [b \in 0..blocks |->
                     IF b = 0 THEN [store |-> Empty, ans |-> ans]
                     ELSE CountBlock(str, first + (b - 1) * VectorBytes, b = blocks, st[b - 1])]
  BY <1>8
<1>10. CountBlocks(str, first, blocks, ans) = st[blocks].ans
  BY DEF CountBlocks
<1> HIDE DEF st, h
<1>11. st[0] = start /\ \A b \in 1..blocks : st[b] = After(st[b - 1], b)
  <2>1. ASSUME NEW b \in 0..blocks
        PROVE  st[b] = IF b = 0 THEN start ELSE After(st[b - 1], b)
    BY <1>9 DEF start, After
  <2>2. QED
    BY <1>6, <2>1
<1> HIDE DEF At0
<1> DEFINE Right(b) == /\ st[b] \in Counting
                       /\ b = blocks => st[b].store = Empty
                       /\ st[b].ans + SumOfLanes(st[b].store) = ans + (Starts(str, At0(b)) - Starts(str, At0(0)))
           S == { b \in 0..blocks : Right(b) }
<1>12. \A b \in Nat : Starts(str, At0(b)) \in Nat
  BY <1>1, StartsNext
<1>13. \A x \in Counting : x.ans \in Nat /\ SumOfLanes(x.store) \in Nat
  <2>1. ASSUME NEW x \in Counting
        PROVE  x.ans \in Nat /\ SumOfLanes(x.store) \in Nat
    <3>1. x.store \in Counters /\ x.ans \in Nat
      BY DEF Counting, Quiet
    <3>2. PICK p \in [0..VectorBytes -> Nat] : SumOfLanes(x.store) = p[VectorBytes]
      BY <3>1, SumOfLanesIs
    <3>3. VectorBytes \in 0..VectorBytes
      BY VectorLoopsAssumption
    <3>4. QED
      BY <3>1, <3>2, <3>3
  <2>2. QED
    BY <2>1
<1>14. 0 \in S /\ 0 \in Int /\ blocks \in Int /\ 0 <= blocks
  <2>1. st[0] \in Counting /\ st[0].store = Empty /\ st[0].ans = ans
    BY <1>3, <1>11
  <2>2. SumOfLanes(Empty) = 0 /\ Starts(str, At0(0)) \in Nat
    BY <1>12, EmptyIs
  <2>3. ans + 0 = ans + (Starts(str, At0(0)) - Starts(str, At0(0)))
    BY <2>2
  <2>4. QED
    BY <2>1, <2>2, <2>3
<1>15. ASSUME NEW b \in Int, 0 <= b, b < blocks, b \in S
       PROVE  b + 1 \in S
  <2>1. PICK c \in 1..blocks : c = b + 1 /\ c - 1 = b /\ c \in 0..blocks /\ c \in Nat /\ b \in Nat
    BY <1>15
  <2>2. st[c] = After(st[c - 1], c)
    BY <1>11
  <2>3. Right(b)
    BY <1>15
  <2>4. /\ st[c] \in Counting
        /\ c = blocks => st[c].store = Empty
        /\ st[c].ans + SumOfLanes(st[c].store)
             = st[b].ans + SumOfLanes(st[b].store) + (Starts(str, At0(c)) - Starts(str, At0(b)))
    BY <1>2, <2>1, <2>2, <2>3
  <2>5. st[b].ans \in Nat /\ SumOfLanes(st[b].store) \in Nat /\ st[c].ans \in Nat /\ SumOfLanes(st[c].store) \in Nat
    BY <1>13, <2>3, <2>4
  <2>6. Starts(str, At0(c)) \in Nat /\ Starts(str, At0(b)) \in Nat /\ Starts(str, At0(0)) \in Nat
    BY <1>12, <2>1
  <2>7. st[c].ans + SumOfLanes(st[c].store) = ans + (Starts(str, At0(c)) - Starts(str, At0(0)))
    BY <2>3, <2>4, <2>5, <2>6
  <2>8. Right(c)
    BY <2>4, <2>7
  <2>9. QED
    BY <2>1, <2>8
<1> HIDE DEF Right
<1>16. blocks \in S
  <2>1. \A b \in Int : 0 <= b /\ b < blocks /\ b \in S => b + 1 \in S
    BY <1>15
  <2> HIDE DEF S
  <2>2. 0..blocks \subseteq S
    BY <1>14, <2>1, Upwards
  <2>3. QED
    BY <1>6, <2>2
<1>17. st[blocks].ans = ans + (Starts(str, At0(blocks)) - Starts(str, At0(0)))
  <2>1. Right(blocks)
    BY <1>16
  <2>2. st[blocks] \in Counting /\ st[blocks].store = Empty
    BY <2>1 DEF Right
  <2>3. st[blocks].ans \in Nat /\ SumOfLanes(st[blocks].store) = 0
    BY <1>13, <2>2, EmptyIs
  <2>4. QED
    BY <2>1, <2>3 DEF Right
<1>18. At0(0) = first /\ At0(blocks) = first + blocks * VectorBytes
  BY VectorLoopsAssumption DEF At0
<1>19. QED
  BY <1>10, <1>17, <1>18

\* Where the blocks begin and end in a long string
LEMMA BlocksBetween ==
    ASSUME NEW size \in Nat, NEW address \in Nat, ~(size <= 4 * VectorBytes)
    PROVE  LET first == Unaligned(address)
               end   == EndOfBlocks(size, first)
           IN  /\ first \in Nat /\ end \in Nat \ {0} /\ first <= end /\ end < size
               /\ \E blocks \in Nat : blocks = (end - first) \div VectorBytes /\ end = first + blocks * VectorBytes
<1> DEFINE V == VectorBytes
           first == Unaligned(address)
           end == EndOfBlocks(size, first)
<1>1. V \in Nat \ {0} /\ first \in 0..(V - 1) /\ ~(size <= 4 * V)
  BY UnalignedIs, VectorLoopsAssumption
<1>2. end = size - ((size - first) % V) - V
  BY DEF EndOfBlocks
<1> HIDE DEF V, first, end
<1>3. PICK x \in Nat : x = size - first /\ 3 * V < x
  BY <1>1
<1>4. PICK q \in Nat, r \in 0..(V - 1) : r = x % V /\ x = V * q + r
  <2>1. x \in Int /\ V \in Nat \ {0}
    BY <1>1
  <2>2. x \div V \in Nat /\ x % V \in 0..(V - 1) /\ x = V * (x \div V) + (x % V)
    BY <2>1, DivMod, Zenon
  <2>3. QED
    BY <2>2
<1>5. q # 0
  BY <1>1, <1>3, <1>4
<1>6. PICK n \in Nat : n = q - 1 /\ q = n + 1
  BY <1>5
<1>7. V * q = V * n + V /\ V * n \in Nat
  <2>1. V * (n + 1) = V * n + V /\ V * n \in Nat
    BY <1>1
  <2>2. QED
    BY <1>6, <2>1
<1>8. PICK m \in Nat : m = V * n /\ x = m + V + r
  BY <1>4, <1>7
<1>9. end = first + m
  BY <1>1, <1>2, <1>3, <1>4, <1>8
<1>10. end \in Nat /\ end # 0 /\ first <= end /\ end < size
  BY <1>1, <1>3, <1>8, <1>9
<1>11. n * V = m /\ end - first = m /\ m = V * n + 0
  BY <1>1, <1>8, <1>9
<1>12. m \div V = n
  <2>1. 0 \in 0..(V - 1) /\ m \in Int /\ n \in Int
    BY <1>1
  <2>2. PICK z \in 0..(V - 1) : z = 0 /\ m = V * n + z
    BY <1>11, <2>1
  <2>3. QED
    BY <1>1, <2>1, <2>2, DivModUnique
<1>13. n = (end - first) \div V /\ end = first + n * V
  BY <1>9, <1>11, <1>12
<1>14. QED
  BY <1>1, <1>10, <1>13 DEF V, first, end

\* The words of a long string: what is before the blocks, in them, and after
LEMMA CountWordsIs ==
    ASSUME NEW str \in Seq(BOOLEAN), NEW address \in Nat, ~(Len(str) <= 4 * VectorBytes)
    PROVE  CountWords(str, address) = Bit(~Space(str, 0)) + Starts(str, Len(str) - 1)
<1> DEFINE size == Len(str)
           first == Unaligned(address)
           end == EndOfBlocks(size, first)
           start == StartsIn(str, 1..(first - 1)) + Crutches(str, first)
<1>1. /\ size \in Nat /\ first \in Nat /\ end \in Nat \ {0} /\ first <= end /\ end < size
      /\ \E blocks \in Nat : blocks = (end - first) \div VectorBytes /\ end = first + blocks * VectorBytes
  BY BlocksBetween, StringHas
<1>2. PICK blocks \in Nat : blocks = (end - first) \div VectorBytes /\ end = first + blocks * VectorBytes
  BY <1>1
<1>3. CountWords(str, address) = CountBlocks(str, first, (end - first) \div VectorBytes, start)
                                 - Bit(StartsAt(str, end)) + StartsIn(str, end..(size - 1))
  BY DEF CountWords
<1> HIDE DEF size, first, end, start
<1>4. Bit(~Space(str, 0)) \in Nat /\ Bit(StartsAt(str, end)) \in Nat
  BY BitIs
<1>5. start \in Nat /\ start = Bit(~Space(str, 0)) + Starts(str, first)
  <2>1. CASE first = 0
    <3>1. StartsIn(str, 1..(first - 1)) = 0
      <4>1. PICK lo \in Int, hi \in Int : lo = 1 /\ hi = first - 1 /\ hi < lo
        BY <2>1
      <4>2. StartsIn(str, lo..hi) = 0
        BY <4>1, StartsNone
      <4>3. QED
        BY <4>1, <4>2
    <3>2. Crutches(str, first) = Bit(~Space(str, 0)) + 0
      BY <2>1 DEF Crutches, Bit
    <3>3. Starts(str, first) = 0
      BY <2>1, StartsNext
    <3>4. QED
      BY <1>4, <3>1, <3>2, <3>3 DEF start
  <2>2. CASE first # 0
    <3>1. PICK n \in Nat : n = first - 1 /\ first = n + 1
      BY <1>1, <2>2
    <3>2. Starts(str, n + 1) = Starts(str, n) + Bit(StartsAt(str, n + 1)) /\ Starts(str, n) \in Nat
      BY StartsNext
    <3>3. StartsIn(str, 1..(first - 1)) = Starts(str, n)
      BY <3>1 DEF Starts
    <3>4. Crutches(str, first) = Bit(StartsAt(str, first)) + Bit(~Space(str, 0))
      <4>1. Bit(first # 0 /\ ~Space(str, 0)) = Bit(~Space(str, 0))
        BY <2>2 DEF Bit
      <4>2. QED
        BY <2>2, <4>1 DEF Crutches
    <3>5. Bit(StartsAt(str, first)) \in Nat
      BY BitIs
    <3>6. QED
      BY <1>4, <3>1, <3>2, <3>3, <3>4, <3>5 DEF start
  <2>3. QED
    BY <2>1, <2>2
<1>6. CountBlocks(str, first, blocks, start) = start + (Starts(str, end) - Starts(str, first))
  BY <1>1, <1>2, <1>5, CountBlocksIs
<1>7. PICK n \in Nat : n = end - 1 /\ end = n + 1
  BY <1>1
<1>8. StartsIn(str, end..(size - 1)) = Starts(str, size - 1) - Starts(str, n)
  <2>1. PICK hi \in Nat : hi = size - 1 /\ n <= hi
    BY <1>1, <1>7
  <2>2. StartsIn(str, (n + 1)..hi) = Starts(str, hi) - Starts(str, n)
    BY <2>1, StartsBetween
  <2>3. QED
    BY <1>7, <2>1, <2>2
<1>9. Starts(str, end) = Starts(str, n) + Bit(StartsAt(str, end)) /\ Starts(str, n) \in Nat
  BY <1>7, StartsNext
<1>10. Starts(str, first) \in Nat /\ Starts(str, size - 1) \in Nat
  <2>1. PICK hi \in Nat : hi = size - 1
    BY <1>1
  <2>2. QED
    BY <1>1, <2>1, StartsNext
<1>11. CountWords(str, address) = (start + (Starts(str, end) - Starts(str, first)))
                                  - Bit(StartsAt(str, end)) + (Starts(str, size - 1) - Starts(str, n))
  <2>1. CountWords(str, address) = CountBlocks(str, first, blocks, start)
                                   - Bit(StartsAt(str, end)) + StartsIn(str, end..(size - 1))
    BY <1>2, <1>3
  <2>2. QED
    BY <2>1, <1>6, <1>8
<1>12. PICK s0 \in Nat, b \in Nat, f \in Nat, l \in Nat, p \in Nat, w \in Nat :
         /\ s0 = start /\ b = Bit(StartsAt(str, end)) /\ f = Starts(str, first)
         /\ l = Starts(str, size - 1) /\ p = Starts(str, n) /\ w = Bit(~Space(str, 0))
  BY <1>4, <1>5, <1>9, <1>10
<1>13. CountWords(str, address) = (s0 + ((p + b) - f)) - b + (l - p) /\ s0 = w + f
  BY <1>5, <1>9, <1>11, <1>12
<1>14. CountWords(str, address) = w + l
  BY <1>13
<1>15. QED
  BY <1>12, <1>14 DEF size

\* The count with vectors is the one without, for every string at every address, every
\* width of a vector and every limit of its counters (word_counter.cpp:34-156)
THEOREM CountsAreExact ==
    ASSUME NEW str \in Seq(BOOLEAN)
    PROVE  CountsAgree(str)
<1>1. ASSUME NEW address \in 0..(VectorBytes - 1)
      PROVE  CountWords(str, address) = CountWordsSlowly(str)
  <2>1. CASE Len(str) <= 4 * VectorBytes
    BY <2>1 DEF CountWords
  <2>2. CASE ~(Len(str) <= 4 * VectorBytes)
    <3>1. CountWords(str, address) = Bit(~Space(str, 0)) + Starts(str, Len(str) - 1)
      BY <2>2, CountWordsIs
    <3>2. Len(str) # 0
      BY <2>2, VectorLoopsAssumption
    <3>3. QED
      BY <3>1, <3>2, CountWordsSlowlyIs
  <2>3. QED
    BY <2>1, <2>2
<1>2. QED
  BY <1>1 DEF CountsAgree

-----------------------------------------------------------------------------
(* Members of a set of numbers in order                                    *)

\* How many members are not above a number
LEMMA RankIs ==
    ASSUME NEW S \in SUBSET Int, IsFiniteSet(S), NEW n \in Int
    PROVE  /\ IsFiniteSet(UpTo(S, n)) /\ Cardinality(S) \in Nat
           /\ Cardinality(UpTo(S, n)) \in 0..Cardinality(S)
           /\ n \in S => Cardinality(UpTo(S, n)) \in 1..Cardinality(S)
<1>1. UpTo(S, n) \in SUBSET S
  BY DEF UpTo
<1>2. IsFiniteSet(UpTo(S, n)) /\ Cardinality(UpTo(S, n)) <= Cardinality(S)
  BY <1>1, FS_Subset
<1>3. Cardinality(UpTo(S, n)) \in Nat /\ Cardinality(S) \in Nat
  BY <1>2, FS_CardinalityType
<1>4. ASSUME n \in S
      PROVE  Cardinality(UpTo(S, n)) # 0
  <2>1. n \in UpTo(S, n)
    BY <1>4 DEF UpTo
  <2>2. QED
    BY <1>2, <2>1, FS_EmptySet
<1>5. QED
  BY <1>2, <1>3, <1>4

\* No fewer members are up to a greater number, and more are up to a greater member
LEMMA RankRises ==
    ASSUME NEW S \in SUBSET Int, IsFiniteSet(S), NEW m \in Int, NEW n \in Int, m <= n
    PROVE  /\ Cardinality(UpTo(S, m)) <= Cardinality(UpTo(S, n))
           /\ m < n /\ n \in S => Cardinality(UpTo(S, m)) < Cardinality(UpTo(S, n))
<1>1. UpTo(S, m) \in SUBSET UpTo(S, n)
  <2>1. \A i \in S : i <= m => i <= n
    <3>1. \A i \in Int : i <= m => i <= n
      OBVIOUS
    <3>2. QED
      BY <3>1
  <2>2. QED
    BY <2>1 DEF UpTo
<1>2. /\ IsFiniteSet(UpTo(S, n))
      /\ Cardinality(UpTo(S, n)) \in Nat /\ Cardinality(UpTo(S, m)) \in Nat
  BY RankIs
<1>3. Cardinality(UpTo(S, m)) <= Cardinality(UpTo(S, n))
  BY <1>1, <1>2, FS_Subset
<1>4. ASSUME m < n, n \in S
      PROVE  Cardinality(UpTo(S, m)) # Cardinality(UpTo(S, n))
  <2>1. n \in UpTo(S, n) /\ n \notin UpTo(S, m)
    BY <1>4 DEF UpTo
  <2>2. QED
    BY <1>1, <1>2, <2>1, FS_Subset
<1>5. QED
  BY <1>2, <1>3, <1>4

\* No two members are of one rank
LEMMA RankTells ==
    ASSUME NEW S \in SUBSET Int, IsFiniteSet(S), NEW m \in S, NEW n \in S,
           Cardinality(UpTo(S, m)) = Cardinality(UpTo(S, n))
    PROVE  m = n
<1>1. m \in Int /\ n \in Int /\ Cardinality(UpTo(S, n)) \in Nat
  BY RankIs
<1>2. ~(m < n) /\ ~(n < m)
  BY <1>1, RankRises
<1>3. QED
  BY <1>1, <1>2

\* Some member is of each rank
LEMMA RankReached ==
    ASSUME NEW S \in SUBSET Int, IsFiniteSet(S), NEW k \in 1..Cardinality(S)
    PROVE  \E n \in S : Cardinality(UpTo(S, n)) = k
<1> DEFINE T == 1..Cardinality(S)
           rank == [n \in S |-> Cardinality(UpTo(S, n))]
<1>1. \A n \in S : Cardinality(UpTo(S, n)) \in T
  BY RankIs
<1>2. rank \in Injection(S, T)
  <2>1. rank \in [S -> T]
    BY <1>1
  <2>2. \A a, b \in S : rank[a] = rank[b] => a = b
    BY RankTells
  <2>3. QED
    BY <2>1, <2>2 DEF Injection, IsInjective
<1>3. Cardinality(S) \in Nat
  BY FS_CardinalityType
<1>4. IsFiniteSet(T) /\ Cardinality(T) = Cardinality(S)
  <2>1. PICK lo \in Int, hi \in Int : lo = 1 /\ hi = Cardinality(S)
    BY <1>3
  <2>2. IsFiniteSet(lo..hi) /\ Cardinality(lo..hi) = IF lo > hi THEN 0 ELSE hi - lo + 1
    BY FS_Interval
  <2>3. QED
    BY <1>3, <2>1, <2>2
<1>5. rank \in Surjection(S, T)
  <2> HIDE DEF rank, T
  <2>1. QED
    BY <1>2, <1>4, FS_Injection
<1>6. QED
  BY <1>5 DEF Surjection

\* InOrder is the members in order
LEMMA InOrderIs ==
    ASSUME NEW S \in SUBSET Int, IsFiniteSet(S)
    PROVE  /\ Cardinality(S) \in Nat
           /\ InOrder(S) \in Seq(Int) /\ Len(InOrder(S)) = Cardinality(S)
           /\ \A k \in 1..Cardinality(S) : /\ InOrder(S)[k] \in S
                                           /\ Cardinality(UpTo(S, InOrder(S)[k])) = k
           /\ \A n \in S : InOrder(S)[Cardinality(UpTo(S, n))] = n
<1>1. Cardinality(S) \in Nat
  BY FS_CardinalityType
<1>2. ASSUME NEW k \in 1..Cardinality(S)
      PROVE  InOrder(S)[k] \in S /\ Cardinality(UpTo(S, InOrder(S)[k])) = k
  <2>1. InOrder(S)[k] = CHOOSE n \in S : Cardinality(UpTo(S, n)) = k
    BY DEF InOrder
  <2>2. \E n \in S : Cardinality(UpTo(S, n)) = k
    BY RankReached
  <2>3. QED
    BY <2>1, <2>2
<1>3. InOrder(S) \in Seq(Int) /\ Len(InOrder(S)) = Cardinality(S)
  <2>1. InOrder(S) \in [1..Cardinality(S) -> Int]
    <3>1. InOrder(S) = [k \in 1..Cardinality(S) |-> InOrder(S)[k]]
      BY DEF InOrder
    <3>2. \A k \in 1..Cardinality(S) : InOrder(S)[k] \in Int
      BY <1>2
    <3>3. QED
      BY <3>1, <3>2
  <2>2. QED
    BY <1>1, <2>1
<1>4. ASSUME NEW n \in S
      PROVE  InOrder(S)[Cardinality(UpTo(S, n))] = n
  <2>1. Cardinality(UpTo(S, n)) \in 1..Cardinality(S)
    BY RankIs
  <2>2. PICK m \in S : m = InOrder(S)[Cardinality(UpTo(S, n))] /\ Cardinality(UpTo(S, m)) = Cardinality(UpTo(S, n))
    BY <1>2, <2>1
  <2>3. QED
    BY <2>2, RankTells
<1>5. QED
  BY <1>1, <1>2, <1>3, <1>4

\* A number below a set is the first of the two together
LEMMA SmallestFirst ==
    ASSUME NEW S \in SUBSET Int, IsFiniteSet(S), NEW a \in Int, \A n \in S : a < n
    PROVE  /\ IsFiniteSet({a} \cup S) /\ Cardinality({a} \cup S) = Cardinality(S) + 1
           /\ Cardinality(UpTo({a} \cup S, a)) = 1
           /\ \A n \in S : Cardinality(UpTo({a} \cup S, n)) = Cardinality(UpTo(S, n)) + 1
           /\ InOrder({a} \cup S) = << a >> \o InOrder(S)
<1> DEFINE T == {a} \cup S
<1>1. a \notin S /\ T = S \cup {a} /\ T \in SUBSET Int
  OBVIOUS
<1>2. IsFiniteSet(T) /\ Cardinality(T) = Cardinality(S) + 1
  BY <1>1, FS_AddElement
<1>3. Cardinality(UpTo(T, a)) = 1
  <2>1. UpTo(T, a) = {a}
    <3>1. \A n \in T : n <= a <=> n = a
      OBVIOUS
    <3>2. QED
      BY <3>1 DEF UpTo
  <2>2. QED
    BY <2>1, FS_Singleton
<1>4. ASSUME NEW n \in S
      PROVE  Cardinality(UpTo(T, n)) = Cardinality(UpTo(S, n)) + 1
  <2>1. UpTo(T, n) = UpTo(S, n) \cup {a}
    <3>1. a <= n
      OBVIOUS
    <3>2. QED
      BY <3>1 DEF UpTo
  <2>2. a \notin UpTo(S, n)
    BY <1>1 DEF UpTo
  <2>3. IsFiniteSet(UpTo(S, n))
    BY RankIs
  <2>4. QED
    BY <2>1, <2>2, <2>3, FS_AddElement
<1> HIDE DEF T
<1>5. /\ Cardinality(S) \in Nat
      /\ InOrder(S) \in Seq(Int) /\ Len(InOrder(S)) = Cardinality(S)
      /\ \A k \in 1..Cardinality(S) : InOrder(S)[k] \in S /\ Cardinality(UpTo(S, InOrder(S)[k])) = k
  BY InOrderIs
<1>6. /\ InOrder(T) \in Seq(Int) /\ Len(InOrder(T)) = Cardinality(T)
      /\ \A n \in T : InOrder(T)[Cardinality(UpTo(T, n))] = n
  BY <1>1, <1>2, InOrderIs
<1>7. ASSUME NEW k \in 1..(Cardinality(S) + 1)
      PROVE  InOrder(T)[k] = (<<a>> \o InOrder(S))[k]
  <2>1. CASE k = 1
    <3>1. InOrder(T)[1] = a
      BY <1>3, <1>6 DEF T
    <3>2. (<<a>> \o InOrder(S))[1] = a
      BY <1>5
    <3>3. QED
      BY <2>1, <3>1, <3>2
  <2>2. CASE k # 1
    <3>1. PICK j \in 1..Cardinality(S) : k = j + 1
      <4>1. k - 1 \in 1..Cardinality(S) /\ k = (k - 1) + 1
        BY <1>5, <2>2
      <4>2. QED
        BY <4>1
    <3>2. PICK n \in S : n = InOrder(S)[j] /\ Cardinality(UpTo(S, n)) = j
      BY <1>5
    <3>3. Cardinality(UpTo(T, n)) = k
      BY <1>4, <3>1, <3>2
    <3>4. InOrder(T)[k] = n
      BY <1>6, <3>3 DEF T
    <3>5. (<<a>> \o InOrder(S))[k] = InOrder(S)[j]
      BY <1>5, <3>1
    <3>6. QED
      BY <3>2, <3>4, <3>5
  <2>3. QED
    BY <2>1, <2>2
<1>8. InOrder(T) = <<a>> \o InOrder(S)
  <2>1. <<a>> \o InOrder(S) \in Seq(Int) /\ Len(<<a>> \o InOrder(S)) = Cardinality(S) + 1
    BY <1>5
  <2>2. QED
    BY <1>2, <1>5, <1>6, <1>7, <2>1, SeqEqual
<1>9. QED
  BY <1>2, <1>3, <1>4, <1>8 DEF T

\* What a prefix is
LEMMA PrefixIs ==
    ASSUME NEW s \in Seq(Int), NEW n \in Nat
    PROVE  /\ Prefix(s, n) \in Seq(Int)
           /\ Len(Prefix(s, n)) = IF n < Len(s) THEN n ELSE Len(s)
           /\ \A i \in 1..Len(Prefix(s, n)) : Prefix(s, n)[i] = s[i]
           /\ Len(s) <= n => Prefix(s, n) = s
<1> DEFINE m == IF n < Len(s) THEN n ELSE Len(s)
<1>1. m \in Nat /\ m <= Len(s) /\ Prefix(s, n) = SubSeq(s, 1, m)
  BY DEF Prefix
<1> HIDE DEF m
<1>2. /\ SubSeq(s, 1, m) \in Seq(Int) /\ Len(SubSeq(s, 1, m)) = m
      /\ \A i \in 1..m : SubSeq(s, 1, m)[i] = s[i]
  BY <1>1
<1>3. ASSUME Len(s) <= n
      PROVE  Prefix(s, n) = s
  <2>1. m = Len(s)
    BY <1>3 DEF m
  <2>2. QED
    BY <1>1, <1>2, <2>1, SeqEqual
<1>4. QED
  BY <1>1, <1>2, <1>3 DEF m

\* The first members are a prefix, and how many there are
LEMMA FirstIs ==
    ASSUME NEW S \in SUBSET Int, IsFiniteSet(S), NEW m \in Nat
    PROVE  /\ First(S, m) \in SUBSET S /\ IsFiniteSet(First(S, m))
           /\ Cardinality(First(S, m)) = IF m < Cardinality(S) THEN m ELSE Cardinality(S)
           /\ InOrder(First(S, m)) = Prefix(InOrder(S), m)
<1> DEFINE F == First(S, m)
<1>1. F \in SUBSET S /\ F \in SUBSET Int
  BY DEF First
<1>2. IsFiniteSet(F) /\ Cardinality(S) \in Nat
  BY <1>1, FS_Subset, FS_CardinalityType
<1>3. /\ InOrder(S) \in Seq(Int) /\ Len(InOrder(S)) = Cardinality(S)
      /\ \A k \in 1..Cardinality(S) : InOrder(S)[k] \in S /\ Cardinality(UpTo(S, InOrder(S)[k])) = k
  BY InOrderIs
<1>4. Cardinality(F) = IF m < Cardinality(S) THEN m ELSE Cardinality(S)
  <2>1. CASE Cardinality(S) <= m
    <3>1. ASSUME NEW n \in S
          PROVE  n \in F
      <4>1. Cardinality(UpTo(S, n)) \in 1..Cardinality(S)
        BY RankIs
      <4>2. Cardinality(UpTo(S, n)) <= m
        BY <1>2, <2>1, <4>1
      <4>3. QED
        BY <4>2 DEF First
    <3>2. F = S
      BY <1>1, <3>1
    <3>3. QED
      BY <1>2, <2>1, <3>2
  <2>2. CASE m < Cardinality(S) /\ m = 0
    <3>1. ASSUME NEW n \in F
          PROVE  FALSE
      <4>1. n \in S /\ Cardinality(UpTo(S, n)) <= 0
        BY <2>2 DEF First
      <4>2. Cardinality(UpTo(S, n)) \in 1..Cardinality(S)
        BY <4>1, RankIs
      <4>3. QED
        BY <4>1, <4>2
    <3>2. F = {}
      BY <3>1
    <3>3. QED
      BY <2>2, <3>2, FS_EmptySet
  <2>3. CASE m < Cardinality(S) /\ m # 0
    <3>1. PICK e \in S : Cardinality(UpTo(S, e)) = m
      BY <1>2, <2>3, RankReached
    <3>2. ASSUME NEW n \in S
          PROVE  Cardinality(UpTo(S, n)) <= m <=> n <= e
      <4>1. n \in Int /\ e \in Int /\ Cardinality(UpTo(S, n)) \in Nat
        BY RankIs
      <4>2. CASE n <= e
        BY <3>1, <4>1, <4>2, RankRises
      <4>3. CASE e < n
        <5>1. Cardinality(UpTo(S, e)) < Cardinality(UpTo(S, n))
          BY <4>1, <4>3, RankRises
        <5>2. QED
          BY <3>1, <4>1, <4>3, <5>1
      <4>4. QED
        BY <4>1, <4>2, <4>3
    <3>3. F = UpTo(S, e)
      BY <3>2 DEF First, UpTo
    <3>4. QED
      BY <2>3, <3>1, <3>3
  <2>4. QED
    BY <1>2, <2>1, <2>2, <2>3
<1>5. ASSUME NEW n \in F
      PROVE  Cardinality(UpTo(F, n)) = Cardinality(UpTo(S, n))
  <2>1. n \in S /\ Cardinality(UpTo(S, n)) <= m
    BY DEF First
  <2>2. ASSUME NEW i \in S, i <= n
        PROVE  i \in F
    <3>1. i \in Int /\ n \in Int
      BY <2>1
    <3>2. Cardinality(UpTo(S, i)) <= Cardinality(UpTo(S, n))
      BY <2>2, <3>1, RankRises
    <3>3. Cardinality(UpTo(S, i)) \in Nat /\ Cardinality(UpTo(S, n)) \in Nat
      BY <3>1, RankIs
    <3>4. Cardinality(UpTo(S, i)) <= m
      BY <2>1, <3>2, <3>3
    <3>5. QED
      BY <3>4 DEF First
  <2>3. UpTo(F, n) = UpTo(S, n)
    BY <1>1, <2>2 DEF UpTo
  <2>4. QED
    BY <2>3
<1>6. /\ InOrder(F) \in Seq(Int) /\ Len(InOrder(F)) = Cardinality(F)
      /\ \A n \in F : InOrder(F)[Cardinality(UpTo(F, n))] = n
  BY <1>1, <1>2, InOrderIs
<1>7. ASSUME NEW k \in 1..Cardinality(F)
      PROVE  InOrder(F)[k] = InOrder(S)[k]
  <2>1. k \in 1..Cardinality(S) /\ k <= m
    BY <1>2, <1>4
  <2>2. PICK n \in S : n = InOrder(S)[k] /\ Cardinality(UpTo(S, n)) = k
    BY <1>3, <2>1
  <2>3. n \in F
    BY <2>1, <2>2 DEF First
  <2>4. Cardinality(UpTo(F, n)) = k
    BY <1>5, <2>2, <2>3
  <2>5. QED
    BY <1>6, <2>2, <2>3, <2>4
<1> HIDE DEF F
<1>8. /\ Prefix(InOrder(S), m) \in Seq(Int) /\ Len(Prefix(InOrder(S), m)) = Cardinality(F)
      /\ \A i \in 1..Cardinality(F) : Prefix(InOrder(S), m)[i] = InOrder(S)[i]
  <2>1. /\ Prefix(InOrder(S), m) \in Seq(Int)
        /\ Len(Prefix(InOrder(S), m)) = IF m < Len(InOrder(S)) THEN m ELSE Len(InOrder(S))
        /\ \A i \in 1..Len(Prefix(InOrder(S), m)) : Prefix(InOrder(S), m)[i] = InOrder(S)[i]
    BY <1>3, PrefixIs
  <2>2. QED
    BY <1>3, <1>4, <2>1
<1>9. InOrder(F) = Prefix(InOrder(S), m)
  BY <1>6, <1>7, <1>8, SeqEqual
<1>10. QED
  BY <1>1, <1>2, <1>4, <1>9 DEF F

\* Those there are no registers for
LEMMA RestIs ==
    ASSUME NEW S \in SUBSET Int, IsFiniteSet(S), NEW m \in Nat
    PROVE  /\ IsFiniteSet(S \ First(S, m))
           /\ Cardinality(S \ First(S, m)) = IF m < Cardinality(S) THEN Cardinality(S) - m ELSE 0
           /\ Cardinality(S) <= m => S \ First(S, m) = {}
<1> DEFINE F == First(S, m)
<1>1. /\ F \in SUBSET S /\ IsFiniteSet(F) /\ Cardinality(S) \in Nat
      /\ Cardinality(F) = IF m < Cardinality(S) THEN m ELSE Cardinality(S)
  BY FirstIs, FS_CardinalityType
<1> HIDE DEF F
<1>2. S \cap F = F
  BY <1>1
<1>3. IsFiniteSet(S \ F) /\ Cardinality(S \ F) = Cardinality(S) - Cardinality(F)
  BY <1>2, FS_Difference
<1>4. Cardinality(S) <= m => Cardinality(S \ F) = 0
  BY <1>1, <1>3
<1>5. QED
  BY <1>1, <1>3, <1>4, FS_EmptySet DEF F

-----------------------------------------------------------------------------
(* The code of a trampoline                                                *)

\* The places of the two classes
LEMMA PlacesAre ==
    ASSUME NEW signature \in Seq(BOOLEAN)
    PROVE  LET ints == OfClass(signature, TRUE)
               sses == OfClass(signature, FALSE)
           IN  /\ ints \in SUBSET Int /\ IsFiniteSet(ints) /\ sses \in SUBSET Int /\ IsFiniteSet(sses)
               /\ ints \cap sses = {} /\ \A n \in ints : FuncObj < n
<1> DEFINE places == 1..Len(signature)
           ints == OfClass(signature, TRUE)
           sses == OfClass(signature, FALSE)
<1>1. Len(signature) \in Nat /\ DOMAIN signature = places
  OBVIOUS
<1>2. IsFiniteSet(places)
  <2>1. PICK lo \in Int : lo = 1
    OBVIOUS
  <2>2. PICK hi \in Int : hi = Len(signature)
    <3>1. \A k \in Nat : k \in Int
      OBVIOUS
    <3>2. Len(signature) \in Int
      BY <1>1, <3>1, Zenon
    <3>3. QED
      BY <3>2, Zenon
  <2>3. IsFiniteSet(lo..hi)
    BY FS_Interval
  <2>4. QED
    BY <2>1, <2>2, <2>3
<1>3. ints \in SUBSET places /\ sses \in SUBSET places
  BY <1>1 DEF OfClass
<1>4. places \in SUBSET Int /\ \A n \in places : FuncObj < n
  BY DEF FuncObj
<1>5. ints \cap sses = {}
  BY DEF OfClass
<1> HIDE DEF places, ints, sses
<1>6. IsFiniteSet(ints) /\ IsFiniteSet(sses)
  BY <1>2, <1>3, FS_Subset
<1>7. QED
  BY <1>3, <1>4, <1>5, <1>6 DEF ints, sses

\* The stack of a call: as many words as the code of the trampoline moves, less the one it pushes
LEMMA CallersStackIs ==
    ASSUME NEW signature \in Seq(BOOLEAN)
    PROVE  LET ints  == OfClass(signature, TRUE)
               sses  == OfClass(signature, FALSE)
               words == (ints \ First(ints, IntRegs)) \cup (sses \ First(sses, SseRegs))
           IN  /\ words \in SUBSET Int /\ IsFiniteSet(words)
               /\ ~InRegisters(signature) => StackSize(signature) = Cardinality(words) + 1
<1> DEFINE ints == OfClass(signature, TRUE)
           sses == OfClass(signature, FALSE)
           left == ints \ First(ints, IntRegs)
           over == sses \ First(sses, SseRegs)
<1>1. /\ ints \in SUBSET Int /\ IsFiniteSet(ints) /\ sses \in SUBSET Int /\ IsFiniteSet(sses)
      /\ ints \cap sses = {}
  BY PlacesAre
<1>2. IntRegs \in Nat \ {0} /\ SseRegs \in Nat
  BY TrampolineCodeAssumption
<1>3. left \in SUBSET Int /\ over \in SUBSET Int /\ left \cap over = {}
  BY <1>1
<1>4. INTEGER(signature) = Cardinality(ints) /\ SSE(signature) = Cardinality(sses)
  BY DEF INTEGER, SSE
<1> HIDE DEF ints, sses
<1>5. /\ IsFiniteSet(left) /\ Cardinality(ints) \in Nat
      /\ Cardinality(left) = IF IntRegs < Cardinality(ints) THEN Cardinality(ints) - IntRegs ELSE 0
  BY <1>1, <1>2, RestIs, FS_CardinalityType
<1>6. /\ IsFiniteSet(over) /\ Cardinality(sses) \in Nat
      /\ Cardinality(over) = IF SseRegs < Cardinality(sses) THEN Cardinality(sses) - SseRegs ELSE 0
  BY <1>1, <1>2, RestIs, FS_CardinalityType
<1> HIDE DEF left, over
<1>7. IsFiniteSet(left \cup over) /\ Cardinality(left \cup over) = Cardinality(left) + Cardinality(over)
  <2>1. Cardinality(left \cap over) = 0
    BY <1>3, FS_EmptySet
  <2>2. /\ IsFiniteSet(left \cup over)
        /\ Cardinality(left \cup over) = Cardinality(left) + Cardinality(over) - Cardinality(left \cap over)
    BY <1>5, <1>6, FS_Union
  <2>3. QED
    BY <1>2, <1>5, <1>6, <2>1, <2>2
<1>8. ASSUME ~InRegisters(signature)
      PROVE  StackSize(signature) = Cardinality(left \cup over) + 1
  <2>1. ~(Cardinality(ints) < IntRegs)
    BY <1>4, <1>8 DEF InRegisters
  <2>2. StackSize(signature) = Cardinality(ints) - (IntRegs - 1)
                               + (IF Cardinality(sses) > SseRegs THEN Cardinality(sses) - SseRegs ELSE 0)
    BY <1>4 DEF StackSize
  <2>3. PICK i \in Nat, x \in Nat, l \in Nat, o \in Nat :
          /\ i = Cardinality(ints) /\ x = Cardinality(sses)
          /\ l = Cardinality(left) /\ o = Cardinality(over)
    BY <1>2, <1>5, <1>6
  <2>4. /\ StackSize(signature) = i - (IntRegs - 1) + (IF x > SseRegs THEN x - SseRegs ELSE 0)
        /\ Cardinality(left \cup over) = l + o
    BY <1>7, <2>2, <2>3
  <2>5. l = i - IntRegs
    BY <1>2, <1>5, <2>1, <2>3
  <2>6. o = IF x > SseRegs THEN x - SseRegs ELSE 0
    BY <1>2, <1>6, <2>3
  <2>7. QED
    BY <1>2, <2>3, <2>4, <2>5, <2>6
<1>9. QED
  BY <1>3, <1>7, <1>8 DEF left, over, ints, sses

\* The words of the stack one place down, the register in front and the return address behind
LEMMA MovedIs ==
    ASSUME NEW last \in Int, NEW s \in Seq(Int), NEW size \in Nat, size = Len(s) + 1
    PROVE  LET moved == Moved(last, <<ReturnAddress>> \o s, size)
           IN  /\ moved \in Seq(Int) /\ Len(moved) = size + 1 /\ moved[1] = last
               /\ \A i \in 2..size : moved[i] = s[i - 1]
               /\ moved[size + 1] = ReturnAddress
<1> DEFINE pushed == <<last>> \o (<<ReturnAddress>> \o s)
           moved == Moved(last, <<ReturnAddress>> \o s, size)
<1>1. ReturnAddress \in Int
  BY DEF ReturnAddress
<1>2. pushed \in Seq(Int) /\ Len(pushed) = size + 1 /\ \A i \in 2..size : pushed[i + 1] = s[i - 1]
  BY <1>1
<1>3. moved = [i \in DOMAIN pushed |->
                 IF i = 1 THEN last
                 ELSE IF i <= size THEN pushed[i + 1]
                 ELSE IF i = size + 1 THEN ReturnAddress
                 ELSE pushed[i]]
  BY DEF Moved
<1> HIDE DEF pushed, moved
<1>4. DOMAIN pushed = 1..(size + 1) /\ size + 1 \in Nat /\ 1 <= size
  BY <1>2
<1>5. moved = [i \in 1..(size + 1) |->
                 IF i = 1 THEN last ELSE IF i <= size THEN pushed[i + 1] ELSE ReturnAddress]
  BY <1>3, <1>4
<1>6. moved \in [1..(size + 1) -> Int]
  <2>1. ASSUME NEW i \in 1..(size + 1)
        PROVE  (IF i = 1 THEN last ELSE IF i <= size THEN pushed[i + 1] ELSE ReturnAddress) \in Int
    <3>1. CASE i # 1 /\ i <= size
      <4>1. i + 1 \in 1..Len(pushed)
        BY <1>2, <3>1
      <4>2. pushed[i + 1] \in Int
        BY <1>2, <4>1
      <4>3. QED
        BY <3>1, <4>2
    <3>2. QED
      BY <1>1, <3>1
  <2>2. QED
    BY <1>5, <2>1
<1>7. moved \in Seq(Int) /\ Len(moved) = size + 1
  BY <1>4, <1>6
<1>8. moved[1] = last /\ moved[size + 1] = ReturnAddress
  BY <1>4, <1>5
<1>9. \A i \in 2..size : moved[i] = s[i - 1]
  BY <1>2, <1>4, <1>5
<1>10. QED
  BY <1>7, <1>8, <1>9 DEF moved

\* A number in front of a sequence
LEMMA PushedIs ==
    ASSUME NEW a \in Int, NEW s \in Seq(Int)
    PROVE  /\ << a >> \o s \in Seq(Int) /\ Len(<< a >> \o s) = Len(s) + 1
           /\ (<< a >> \o s)[1] = a /\ \A i \in 1..Len(s) : (<< a >> \o s)[i + 1] = s[i]
<1>1. Len(s) \in Nat
  OBVIOUS
<1>2. <<a>> \in Seq(Int) /\ Len(<<a>>) = 1 /\ <<a>>[1] = a
  OBVIOUS
<1>3. <<a>> \o s \in Seq(Int) /\ Len(<<a>> \o s) = Len(s) + 1
  BY <1>1, <1>2, ConcatProperties
<1>4. (<<a>> \o s)[1] = a /\ \A i \in 1..Len(s) : (<<a>> \o s)[i + 1] = s[i]
  BY <1>1
<1>5. QED
  BY <1>3, <1>4

\* The arguments of do_call are where the calling convention puts them, for every signature of
\* one-word arguments and any number of registers, unless one of class SSE is on the
\* stack before the integer that is pushed (trampoline.h:78-118)
THEOREM ArgumentsAreInPlace ==
    ASSUME NEW signature \in Seq(BOOLEAN)
    PROVE  ArgumentsInPlace(signature)
<1> DEFINE ints == OfClass(signature, TRUE)
           sses == OfClass(signature, FALSE)
           all  == {FuncObj} \cup ints
           over == sses \ First(sses, SseRegs)
           words == (ints \ First(ints, IntRegs)) \cup over
           below == (all \ First(all, IntRegs)) \cup over
<1>1. SUFFICES ASSUME ~SseBeforePushed(signature)
               PROVE  /\ AtDoCall(signature).ints = PassedToDoCall(signature).ints
                      /\ AtDoCall(signature).sses = PassedToDoCall(signature).sses
                      /\ Prefix(AtDoCall(signature).memory, Len(PassedToDoCall(signature).stack))
                           = PassedToDoCall(signature).stack
  BY DEF ArgumentsInPlace
<1>2. /\ PassedToCode(signature).ints = InOrder(First(ints, IntRegs))
      /\ PassedToCode(signature).sses = InOrder(First(sses, SseRegs))
      /\ PassedToCode(signature).stack = InOrder(words)
  BY DEF PassedToCode, Passed
<1>3. /\ PassedToDoCall(signature).ints = InOrder(First(all, IntRegs))
      /\ PassedToDoCall(signature).sses = InOrder(First(sses, SseRegs))
      /\ PassedToDoCall(signature).stack = InOrder(below)
  BY DEF PassedToDoCall, Passed
<1>4. /\ AtDoCall(signature).ints = ShiftedInts(PassedToCode(signature).ints)
      /\ AtDoCall(signature).sses = PassedToCode(signature).sses
      /\ AtDoCall(signature).memory =
           IF InRegisters(signature) THEN PassedToCode(signature).stack
           ELSE Moved(PassedToCode(signature).ints[IntRegs],
                      <<ReturnAddress>> \o PassedToCode(signature).stack, StackSize(signature))
  BY DEF AtDoCall
<1>5. /\ ints \in SUBSET Int /\ IsFiniteSet(ints) /\ sses \in SUBSET Int /\ IsFiniteSet(sses)
      /\ ints \cap sses = {} /\ \A n \in ints : FuncObj < n
  BY PlacesAre
<1>6. /\ words \in SUBSET Int /\ IsFiniteSet(words)
      /\ ~InRegisters(signature) => StackSize(signature) = Cardinality(words) + 1
  BY CallersStackIs
<1>7. InRegisters(signature) <=> Cardinality(ints) < IntRegs
  BY DEF InRegisters, INTEGER
<1>8. \A n \in ints : Cardinality(UpTo(ints, n)) = IntRegs => ~(Cardinality(UpTo(sses, n)) > SseRegs)
  BY <1>1 DEF SseBeforePushed
<1>9. IntRegs \in Nat \ {0} /\ SseRegs \in Nat /\ FuncObj \in Int
  BY TrampolineCodeAssumption DEF FuncObj
<1> HIDE DEF ints, sses
<1>10. /\ IsFiniteSet(all) /\ Cardinality(all) = Cardinality(ints) + 1
       /\ Cardinality(UpTo(all, FuncObj)) = 1
       /\ \A n \in ints : Cardinality(UpTo(all, n)) = Cardinality(UpTo(ints, n)) + 1
       /\ InOrder(all) = << FuncObj >> \o InOrder(ints)
  BY <1>5, <1>9, SmallestFirst
<1>11. /\ Cardinality(ints) \in Nat
       /\ InOrder(ints) \in Seq(Int) /\ Len(InOrder(ints)) = Cardinality(ints)
  BY <1>5, InOrderIs
<1>12. ShiftedInts(PassedToCode(signature).ints) = InOrder(First(all, IntRegs))
  <2>1. PICK m \in Nat : m = IntRegs - 1 /\ IntRegs = m + 1
    BY <1>9
  <2>2. PICK s \in Seq(Int) : s = InOrder(ints)
    BY <1>11
  <2>3. PICK t \in Seq(Int) : /\ t = <<FuncObj>> \o s
                              /\ Len(t) = Len(s) + 1 /\ t[1] = FuncObj /\ \A i \in 1..Len(s) : t[i + 1] = s[i]
    BY <1>9, PushedIs
  <2>4. InOrder(First(all, IntRegs)) = Prefix(t, m + 1)
    <3>1. all \in SUBSET Int
      BY <1>5, <1>9
    <3>2. InOrder(First(all, IntRegs)) = Prefix(InOrder(all), IntRegs)
      BY <1>9, <1>10, <3>1, FirstIs
    <3>3. QED
      BY <1>10, <2>1, <2>2, <2>3, <3>2
  <2>5. PICK p \in Seq(Int) :
          /\ p = Prefix(s, m + 1) /\ Len(p) = IF m + 1 < Len(s) THEN m + 1 ELSE Len(s)
          /\ \A i \in 1..Len(p) : p[i] = s[i]
    BY PrefixIs
  <2>6. PICK q \in Seq(Int) :
          /\ q = Prefix(p, m) /\ Len(q) = IF m < Len(p) THEN m ELSE Len(p)
          /\ \A i \in 1..Len(q) : q[i] = p[i]
    BY PrefixIs
  <2>7. ShiftedInts(PassedToCode(signature).ints) = <<FuncObj>> \o q
    <3>1. PassedToCode(signature).ints = p
      <4>1. InOrder(First(ints, IntRegs)) = Prefix(InOrder(ints), IntRegs)
        BY <1>5, <1>9, FirstIs
      <4>2. QED
        BY <1>2, <2>1, <2>2, <2>5, <4>1
    <3>2. QED
      BY <2>1, <2>6, <3>1 DEF ShiftedInts
  <2>8. PICK u \in Seq(Int) :
          /\ u = Prefix(t, m + 1) /\ Len(u) = IF m + 1 < Len(t) THEN m + 1 ELSE Len(t)
          /\ \A i \in 1..Len(u) : u[i] = t[i]
    BY PrefixIs
  <2>9. PICK v \in Seq(Int) : /\ v = <<FuncObj>> \o q
                              /\ Len(v) = Len(q) + 1 /\ v[1] = FuncObj /\ \A i \in 1..Len(q) : v[i + 1] = q[i]
    <3>1. FuncObj \in Int
      BY <1>9
    <3>2. /\ <<FuncObj>> \o q \in Seq(Int) /\ Len(<<FuncObj>> \o q) = Len(q) + 1
          /\ (<<FuncObj>> \o q)[1] = FuncObj
          /\ \A i \in 1..Len(q) : (<<FuncObj>> \o q)[i + 1] = q[i]
      BY <3>1, PushedIs, Zenon
    <3>3. QED
      BY <3>2, Zenon
  <2>10. /\ Len(v) = Len(u) /\ Len(u) \in Nat /\ Len(s) \in Nat /\ Len(p) \in Nat /\ Len(q) \in Nat
         /\ Len(q) <= Len(p) /\ Len(p) <= Len(s)
    <3>1. Len(s) \in Nat /\ Len(p) \in Nat /\ Len(q) \in Nat /\ Len(u) \in Nat
      OBVIOUS
    <3>2. Len(p) = IF m + 1 < Len(s) THEN m + 1 ELSE Len(s)
      BY <2>5
    <3>3. Len(q) = IF m < Len(p) THEN m ELSE Len(p)
      BY <2>6
    <3>4. Len(u) = IF m + 1 < Len(s) + 1 THEN m + 1 ELSE Len(s) + 1
      BY <2>3, <2>8
    <3>5. PICK ls \in Nat, lp \in Nat, lq \in Nat, lu \in Nat :
            ls = Len(s) /\ lp = Len(p) /\ lq = Len(q) /\ lu = Len(u)
      BY <3>1
    <3>6. /\ lp = (IF m + 1 < ls THEN m + 1 ELSE ls) /\ lq = (IF m < lp THEN m ELSE lp)
          /\ lu = (IF m + 1 < ls + 1 THEN m + 1 ELSE ls + 1)
      BY <3>2, <3>3, <3>4, <3>5
    <3>7. lq + 1 = lu /\ lq <= lp /\ lp <= ls
      BY <3>6
    <3>8. Len(v) = lq + 1
      BY <2>9, <3>5
    <3>9. QED
      BY <3>1, <3>5, <3>7, <3>8
  <2>11. ASSUME NEW i \in 1..Len(u)
         PROVE  v[i] = u[i]
    <3>1. CASE i = 1
      <4>1. v[1] = FuncObj /\ t[1] = FuncObj
        BY <1>9, <2>3, <2>9
      <4>2. QED
        BY <2>8, <3>1, <4>1
    <3>2. CASE i # 1
      <4>1. PICK j \in Nat : i = j + 1 /\ j \in 1..Len(q) /\ j \in 1..Len(p) /\ j \in 1..Len(s)
        <5>1. i - 1 \in Nat /\ i = (i - 1) + 1
          BY <2>10, <3>2
        <5>2. i - 1 \in 1..Len(q)
          BY <2>9, <2>10, <3>2
        <5>3. i - 1 \in 1..Len(p) /\ i - 1 \in 1..Len(s)
          <6>1. PICK k \in Nat, ls \in Nat, lp \in Nat, lq \in Nat :
                  k = i - 1 /\ ls = Len(s) /\ lp = Len(p) /\ lq = Len(q)
            BY <2>10, <5>1
          <6>2. k \in 1..lq /\ lq <= lp /\ lp <= ls
            BY <2>10, <5>2, <6>1
          <6>3. k \in 1..lp /\ k \in 1..ls
            BY <6>2
          <6>4. QED
            BY <6>1, <6>3
        <5>4. QED
          BY <5>1, <5>2, <5>3
      <4>2. v[i] = q[j] /\ t[i] = s[j]
        BY <2>3, <2>9, <4>1
      <4>3. QED
        BY <2>5, <2>6, <2>8, <4>1, <4>2
    <3>3. QED
      BY <3>1, <3>2
  <2>12. v = u
    BY <2>10, <2>11, SeqEqual
  <2>13. QED
    BY <2>4, <2>7, <2>8, <2>9, <2>12
<1>13. all \ First(all, IntRegs) = { n \in ints : IntRegs <= Cardinality(UpTo(ints, n)) }
  <2>1. \A n \in ints : Cardinality(UpTo(ints, n)) \in Nat
    BY <1>5, RankIs
  <2>2. FuncObj \in First(all, IntRegs)
    BY <1>9, <1>10 DEF First
  <2>3. ASSUME NEW n \in ints
        PROVE  n \notin First(all, IntRegs) <=> IntRegs <= Cardinality(UpTo(ints, n))
    <3>1. n \in First(all, IntRegs) <=> Cardinality(UpTo(ints, n)) + 1 <= IntRegs
      BY <1>10 DEF First
    <3>2. QED
      BY <1>9, <2>1, <3>1
  <2>4. QED
    BY <2>2, <2>3
<1>14. CASE InRegisters(signature)
  <2>1. all \ First(all, IntRegs) = {} /\ ints \ First(ints, IntRegs) = {}
    <3>1. Cardinality(all) <= IntRegs /\ Cardinality(ints) <= IntRegs /\ IntRegs \in Nat
      BY <1>7, <1>9, <1>10, <1>11, <1>14
    <3>2. all \in SUBSET Int
      BY <1>5, <1>9
    <3>3. QED
      BY <1>5, <1>10, <3>1, <3>2, RestIs
  <2>2. below = words
    BY <2>1
  <2>3. AtDoCall(signature).memory = InOrder(words)
    BY <1>2, <1>4, <1>14
  <2>4. InOrder(words) \in Seq(Int)
    BY <1>6, InOrderIs
  <2> HIDE DEF words
  <2>5. Prefix(InOrder(words), Len(InOrder(words))) = InOrder(words)
    <3>1. PICK s \in Seq(Int) : s = InOrder(words)
      BY <2>4
    <3>2. PICK n \in Nat : n = Len(s)
      BY <3>1
    <3>3. Prefix(s, n) = s
      BY <3>2, PrefixIs
    <3>4. QED
      BY <3>1, <3>2, <3>3
  <2>6. QED
    BY <1>2, <1>3, <1>4, <1>12, <2>2, <2>3, <2>5
<1>15. CASE ~InRegisters(signature)
  <2>1. IntRegs \in 1..Cardinality(ints)
    BY <1>7, <1>9, <1>11, <1>15
  <2>2. PICK last \in ints : Cardinality(UpTo(ints, last)) = IntRegs /\ last = PassedToCode(signature).ints[IntRegs]
    <3>1. InOrder(ints)[IntRegs] \in ints /\ Cardinality(UpTo(ints, InOrder(ints)[IntRegs])) = IntRegs
      BY <1>5, <2>1, InOrderIs
    <3>2. PassedToCode(signature).ints = Prefix(InOrder(ints), IntRegs)
      BY <1>2, <1>5, <1>9, FirstIs
    <3>3. PICK s \in Seq(Int) : s = InOrder(ints) /\ Len(s) = Cardinality(ints)
      BY <1>11
    <3>4. IntRegs \in Nat /\ IntRegs <= Len(s) /\ IntRegs # 0
      BY <2>1, <3>3, <1>9, <1>11
    <3>5. Len(Prefix(s, IntRegs)) = IntRegs /\ \A i \in 1..Len(Prefix(s, IntRegs)) : Prefix(s, IntRegs)[i] = s[i]
      <4>1. /\ Len(Prefix(s, IntRegs)) = IF IntRegs < Len(s) THEN IntRegs ELSE Len(s)
            /\ \A i \in 1..Len(Prefix(s, IntRegs)) : Prefix(s, IntRegs)[i] = s[i]
        BY <3>4, PrefixIs
      <4>2. Len(s) \in Nat
        BY <3>3
      <4>3. QED
        BY <3>4, <4>1, <4>2
    <3>6. Prefix(s, IntRegs)[IntRegs] = s[IntRegs]
      BY <3>4, <3>5
    <3>7. QED
      BY <3>1, <3>2, <3>3, <3>6
  <2>3. last \in Int
    BY <1>5
  <2>4. below = {last} \cup words
    <3>1. ASSUME NEW n \in ints
          PROVE  IntRegs <= Cardinality(UpTo(ints, n)) <=> n = last \/ n \notin First(ints, IntRegs)
      <4>1. Cardinality(UpTo(ints, n)) \in Nat
        BY <1>5, RankIs
      <4>2. n \notin First(ints, IntRegs) <=> ~(Cardinality(UpTo(ints, n)) <= IntRegs)
        BY DEF First
      <4>3. Cardinality(UpTo(ints, n)) = IntRegs <=> n = last
        BY <1>5, <2>2, RankTells
      <4>4. QED
        BY <1>9, <4>1, <4>2, <4>3
    <3>2. all \ First(all, IntRegs) = {last} \cup (ints \ First(ints, IntRegs))
      BY <1>13, <3>1
    <3>3. QED
      BY <3>2
  <2>5. ASSUME NEW n \in words
        PROVE  last < n
    <3>1. n \in Int
      BY <1>6
    <3>2. CASE n \in ints \ First(ints, IntRegs)
      <4>1. n \in ints /\ ~(Cardinality(UpTo(ints, n)) <= IntRegs)
        BY <3>2 DEF First
      <4>2. ~(n <= last)
        BY <1>5, <2>2, <2>3, <3>1, <4>1, RankRises
      <4>3. QED
        BY <2>3, <3>1, <4>2
    <3>3. CASE n \in over
      <4>1. n \in sses /\ ~(Cardinality(UpTo(sses, n)) <= SseRegs)
        BY <3>3 DEF First
      <4>2. ~(Cardinality(UpTo(sses, last)) > SseRegs)
        BY <1>8, <2>2
      <4>3. Cardinality(UpTo(sses, last)) \in Nat /\ Cardinality(UpTo(sses, n)) \in Nat
        <5>1. sses \in SUBSET Int /\ IsFiniteSet(sses)
          BY <1>5
        <5>2. Cardinality(sses) \in Nat
          BY <5>1, FS_CardinalityType
        <5>3. Cardinality(UpTo(sses, last)) \in 0..Cardinality(sses)
          BY <2>3, <5>1, RankIs
        <5>4. Cardinality(UpTo(sses, n)) \in 0..Cardinality(sses)
          BY <3>1, <5>1, RankIs
        <5>5. QED
          BY <5>2, <5>3, <5>4
      <4>4. ~(n <= last)
        <5>1. n <= last => Cardinality(UpTo(sses, n)) <= Cardinality(UpTo(sses, last))
          BY <1>5, <2>3, <3>1, RankRises
        <5>2. QED
          BY <1>9, <4>1, <4>2, <4>3, <5>1
      <4>5. QED
        BY <2>3, <3>1, <4>4
    <3>4. QED
      BY <3>2, <3>3
  <2> HIDE DEF words, below, all
  <2>6. InOrder(below) = << last >> \o InOrder(words)
    BY <1>6, <2>3, <2>4, <2>5, SmallestFirst
  <2>7. PICK s \in Seq(Int) : s = InOrder(words) /\ Len(s) = Cardinality(words)
    BY <1>6, InOrderIs
  <2>8. PICK size \in Nat : size = Len(s) + 1 /\ StackSize(signature) = size
    BY <1>6, <1>15, <2>7
  <2>9. PICK found \in Seq(Int) :
          /\ found = AtDoCall(signature).memory
          /\ Len(found) = size + 1 /\ found[1] = last /\ \A i \in 2..size : found[i] = s[i - 1]
    <3>1. AtDoCall(signature).memory = Moved(last, <<ReturnAddress>> \o s, size)
      BY <1>2, <1>4, <1>15, <2>2, <2>7, <2>8
    <3>2. /\ Moved(last, <<ReturnAddress>> \o s, size) \in Seq(Int)
          /\ Len(Moved(last, <<ReturnAddress>> \o s, size)) = size + 1
          /\ Moved(last, <<ReturnAddress>> \o s, size)[1] = last
          /\ \A i \in 2..size : Moved(last, <<ReturnAddress>> \o s, size)[i] = s[i - 1]
      BY <2>3, <2>8, MovedIs
    <3>3. QED
      BY <3>1, <3>2
  <2>10. PICK t \in Seq(Int) : /\ t = <<last>> \o s /\ Len(t) = size
                               /\ t[1] = last /\ \A i \in 1..Len(s) : t[i + 1] = s[i]
    <3>1. /\ <<last>> \o s \in Seq(Int) /\ Len(<<last>> \o s) = Len(s) + 1
          /\ (<<last>> \o s)[1] = last
          /\ \A i \in 1..Len(s) : (<<last>> \o s)[i + 1] = s[i]
      BY <2>3, PushedIs, Zenon
    <3>2. Len(<<last>> \o s) = size
      BY <2>8, <3>1
    <3>3. QED
      BY <3>1, <3>2, Zenon
  <2>11. PICK u \in Seq(Int) : u = Prefix(found, size) /\ Len(u) = size /\ \A i \in 1..size : u[i] = found[i]
    <3>1. /\ Prefix(found, size) \in Seq(Int)
          /\ Len(Prefix(found, size)) = IF size < Len(found) THEN size ELSE Len(found)
          /\ \A i \in 1..Len(Prefix(found, size)) : Prefix(found, size)[i] = found[i]
      BY PrefixIs
    <3>2. Len(Prefix(found, size)) = size
      BY <2>9, <3>1
    <3>3. QED
      BY <3>1, <3>2
  <2>12. ASSUME NEW i \in 1..size
         PROVE  u[i] = t[i]
    <3>1. CASE i = 1
      BY <2>3, <2>9, <2>10, <2>11, <3>1
    <3>2. CASE i # 1
      <4>1. i \in 2..size
        BY <3>2
      <4>2. t[i] = s[i - 1]
        <5>1. PICK j \in Int : j = i - 1 /\ i = j + 1
          OBVIOUS
        <5>2. j \in 1..Len(s)
          BY <2>8, <4>1, <5>1
        <5>3. QED
          BY <2>10, <5>1, <5>2
      <4>3. QED
        BY <2>9, <2>11, <4>1, <4>2
    <3>3. QED
      BY <3>1, <3>2
  <2>13. u = t
    BY <2>10, <2>11, <2>12, SeqEqual
  <2>14. InOrder(below) = t
    BY <2>6, <2>7, <2>10
  <2>15. Prefix(AtDoCall(signature).memory, Len(PassedToDoCall(signature).stack)) = PassedToDoCall(signature).stack
    <3>1. PassedToDoCall(signature).stack = t
      BY <1>3, <2>14
    <3>2. QED
      BY <2>9, <2>10, <2>11, <2>13, <3>1
  <2>16. AtDoCall(signature).ints = PassedToDoCall(signature).ints
    BY <1>3, <1>4, <1>12
  <2>17. AtDoCall(signature).sses = PassedToDoCall(signature).sses
    BY <1>2, <1>3, <1>4
  <2>18. QED
    BY <2>15, <2>16, <2>17
<1>16. QED
  BY <1>14, <1>15

\* The caller is returned to with the stack it had, for every signature that needs the
\* stack and every number of registers (trampoline.h:89-90, 114-124)
THEOREM CallersAreReturnedTo ==
    ASSUME NEW signature \in Seq(BOOLEAN)
    PROVE  ReturnsToCaller(signature)
<1> DEFINE ints  == OfClass(signature, TRUE)
           sses  == OfClass(signature, FALSE)
           words == (ints \ First(ints, IntRegs)) \cup (sses \ First(sses, SseRegs))
           found == AtDoCall(signature).memory
           after == [i \in DOMAIN found |-> IF i <= StackSize(signature) THEN Clobbered ELSE found[i]]
           popped == SubSeq(after, 2, Len(after))
<1>1. SUFFICES ASSUME ~InRegisters(signature)
               PROVE  Restored(signature) = [goes_to |-> ReturnAddress, stack |-> Len(PassedToCode(signature).stack)]
  BY DEF ReturnsToCaller
<1>2. Restored(signature) = [goes_to |-> popped[StackSize(signature)], stack |-> Len(popped) - 1]
  BY DEF Restored
<1>3. /\ PassedToCode(signature).ints = InOrder(First(ints, IntRegs))
      /\ PassedToCode(signature).stack = InOrder(words)
  BY DEF PassedToCode, Passed
<1>4. found = Moved(PassedToCode(signature).ints[IntRegs],
                    <<ReturnAddress>> \o PassedToCode(signature).stack, StackSize(signature))
  BY <1>1 DEF AtDoCall
<1>5. /\ words \in SUBSET Int /\ IsFiniteSet(words)
      /\ StackSize(signature) = Cardinality(words) + 1
  BY <1>1, CallersStackIs
<1>6. PassedToCode(signature).ints[IntRegs] \in Int
  <2>1. ints \in SUBSET Int /\ IsFiniteSet(ints)
    BY PlacesAre
  <2>2. IntRegs \in Nat \ {0}
    BY TrampolineCodeAssumption
  <2>3. ~(Cardinality(ints) < IntRegs)
    BY <1>1 DEF InRegisters, INTEGER
  <2> HIDE DEF ints
  <2>4. Cardinality(ints) \in Nat
    BY <2>1, FS_CardinalityType
  <2>5. First(ints, IntRegs) \in SUBSET Int /\ IsFiniteSet(First(ints, IntRegs)) /\ Cardinality(First(ints, IntRegs)) = IntRegs
    <3>1. /\ First(ints, IntRegs) \in SUBSET ints /\ IsFiniteSet(First(ints, IntRegs))
          /\ Cardinality(First(ints, IntRegs)) = IF IntRegs < Cardinality(ints) THEN IntRegs ELSE Cardinality(ints)
      BY <2>1, <2>2, FirstIs
    <3>2. PICK c \in Nat : c = Cardinality(ints)
      BY <2>4
    <3>3. ~(c < IntRegs) /\ Cardinality(First(ints, IntRegs)) = (IF IntRegs < c THEN IntRegs ELSE c)
      BY <2>3, <3>1, <3>2
    <3>4. Cardinality(First(ints, IntRegs)) = IntRegs
      BY <2>2, <3>3
    <3>5. First(ints, IntRegs) \in SUBSET Int
      BY <2>1, <3>1
    <3>6. QED
      BY <3>1, <3>4, <3>5
  <2>6. InOrder(First(ints, IntRegs)) \in Seq(Int) /\ Len(InOrder(First(ints, IntRegs))) = IntRegs
    BY <2>5, InOrderIs
  <2>7. QED
    BY <1>3, <2>2, <2>6
<1> HIDE DEF words, found, after, popped
<1>7. PICK s \in Seq(Int) : s = InOrder(words) /\ Len(s) = Cardinality(words)
  BY <1>5, InOrderIs
<1>8. PICK size \in Nat : size = StackSize(signature) /\ size = Len(s) + 1
  BY <1>5, <1>7
<1>9. PICK last \in Int : last = PassedToCode(signature).ints[IntRegs]
  BY <1>6
<1>10. found \in Seq(Int) /\ Len(found) = size + 1 /\ found[size + 1] = ReturnAddress
  <2>1. found = Moved(last, <<ReturnAddress>> \o s, size)
    BY <1>3, <1>4, <1>7, <1>8, <1>9
  <2>2. /\ Moved(last, <<ReturnAddress>> \o s, size) \in Seq(Int)
        /\ Len(Moved(last, <<ReturnAddress>> \o s, size)) = size + 1
        /\ Moved(last, <<ReturnAddress>> \o s, size)[size + 1] = ReturnAddress
    BY <1>8, MovedIs
  <2>3. QED
    BY <2>1, <2>2
<1>11. after \in Seq(Int) /\ Len(after) = size + 1 /\ after[size + 1] = ReturnAddress
  <2>1. DOMAIN found = 1..(size + 1) /\ size + 1 \in Nat /\ \A i \in 1..(size + 1) : found[i] \in Int
    BY <1>10
  <2>2. after = [i \in 1..(size + 1) |-> IF i <= size THEN Clobbered ELSE found[i]]
    BY <1>8, <2>1 DEF after
  <2>3. Clobbered \in Int
    BY DEF Clobbered
  <2>4. after \in [1..(size + 1) -> Int]
    BY <2>1, <2>2, <2>3
  <2>5. after \in Seq(Int) /\ Len(after) = size + 1
    BY <2>1, <2>4
  <2>6. size + 1 \in 1..(size + 1) /\ ~(size + 1 <= size)
    OBVIOUS
  <2>7. QED
    BY <1>10, <2>2, <2>5, <2>6
<1>12. Len(popped) = size /\ popped[size] = ReturnAddress
  <2>1. size # 0
    BY <1>8
  <2>2. popped = SubSeq(after, 2, size + 1)
    BY <1>11 DEF popped
  <2>3. QED
    BY <1>11, <2>1, <2>2
<1>13. Len(PassedToCode(signature).stack) = size - 1
  BY <1>3, <1>7, <1>8
<1>14. QED
  BY <1>2, <1>8, <1>12, <1>13

\* Every string reached is one of the inputs
THEOREM InputsAreTyped == InputSpec => [](input \in Seq(BOOLEAN))
<1>1. InputInit => input \in Seq(BOOLEAN)
  BY DEF InputInit
<1>2. input \in Seq(BOOLEAN) /\ [InputNext]_input => (input \in Seq(BOOLEAN))'
  <2>1. SUFFICES ASSUME input \in Seq(BOOLEAN), [InputNext]_input
                 PROVE  input' \in Seq(BOOLEAN)
    OBVIOUS
  <2>2. CASE InputNext
    <3>1. PICK b \in BOOLEAN : input' = Append(input, b)
      BY <2>2 DEF InputNext
    <3>2. QED
      BY <2>1, <3>1, AppendProperties
  <2>3. CASE UNCHANGED input
    BY <2>1, <2>3
  <2>4. QED
    BY <2>1, <2>2, <2>3
<1>3. QED
  BY <1>1, <1>2, PTL DEF InputSpec

\* What the machine code of asm_inlines is checked for holds of every input, for every
\* width of a vector, limit of its counters and number of registers
\* (word_counter.cpp:34-156, memcpy.cpp:21-52, trampoline.h:68-130)
THEOREM InlinesAreExact == InputSpec => []InlinesExact
<1>1. input \in Seq(BOOLEAN) => InlinesExact
  <2>1. SUFFICES ASSUME input \in Seq(BOOLEAN)
                 PROVE  InlinesExact
    OBVIOUS
  <2>2. CountsAgree(input)
    BY <2>1, CountsAreExact
  <2>3. CopiesEachByteOnce(Len(input))
    <3>1. Len(input) \in Nat
      BY <2>1, StringHas
    <3>2. QED
      BY <3>1, CopiesAreExact
  <2>4. ArgumentsInPlace(input) /\ ReturnsToCaller(input)
    BY <2>1, ArgumentsAreInPlace, CallersAreReturnedTo
  <2>5. QED
    BY <2>2, <2>3, <2>4 DEF InlinesExact, VectorLoopsExact, TrampolineCodeExact
<1>2. QED
  BY <1>1, InputsAreTyped, PTL
=============================================================================
