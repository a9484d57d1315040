------------------------------ MODULE VectorLoops ------------------------------
(***************************************************************************)
(* asm/asm_inlines: count_words and vectorized_memcpy.  Both run a plain   *)
(* loop to the first aligned byte, a loop over blocks of VectorBytes and a *)
(* plain loop over what is left.                                           *)
(*                                                                         *)
(* A string is a sequence of BOOLEAN, TRUE for a space.  Positions are     *)
(* those of the code, from 0.                                              *)
(***************************************************************************)
EXTENDS Integers, Sequences, FiniteSets

CONSTANTS
    VectorBytes, \* 16, of an xmm register
    CounterMax   \* 255, where the byte counters of store saturate

ASSUME VectorLoopsAssumption == VectorBytes \in Nat \ {0} /\ CounterMax \in Nat \ {0}

Space(str, i) == str[i + 1]

\* A word starts at i, and something is before it
StartsAt(str, i) == Space(str, i - 1) /\ ~Space(str, i)

StartsIn(str, positions) == Cardinality({ i \in positions : StartsAt(str, i) })

Bit(b) == IF b THEN 1 ELSE 0

\* Bytes before the first aligned one of data at the given address
Unaligned(address) == (-address) % VectorBytes

\* count_words_slowly: ret and prev_is_space after each character
CountWordsSlowly(str) ==
    LET st[i \in 0..Len(str)] ==
            IF i = 0 THEN [ret |-> 0, prev_is_space |-> TRUE]
            ELSE [ret |-> st[i - 1].ret + Bit(st[i - 1].prev_is_space /\ ~Space(str, i - 1)),
                  prev_is_space |-> Space(str, i - 1)]
    IN  st[Len(str)].ret

-----------------------------------------------------------------------------
(* count_words                                                             *)

Lanes == 0..(VectorBytes - 1)

\* The lanes of one block at i: a space whose right neighbour is none
Lane(str, i, j) == Bit(StartsAt(str, i + j + 1))

Saturated(n) == IF n > CounterMax THEN CounterMax ELSE n

TopBit_Late(n) == n > CounterMax

\* The top bit of a counter, which pmovmskb looks at
TopBit(n) == 2 * n > CounterMax

\* psadbw and the addition of its halves
SumOfLanes(store) ==
    LET sum[j \in 0..VectorBytes] == IF j = 0 THEN 0 ELSE sum[j - 1] + store[j - 1]
    IN  sum[VectorBytes]

Empty == [j \in Lanes |-> 0]

\* The block at i: counters are emptied into ans when one of them has its top bit set,
\* and in the last round
CountBlock(str, i, last, st) ==
    LET store == [j \in Lanes |-> Saturated(st.store[j] + Lane(str, i, j))]
    IN  IF last \/ \E j \in Lanes : TopBit(store[j])
        THEN [store |-> Empty, ans |-> st.ans + SumOfLanes(store)]
        ELSE [store |-> store, ans |-> st.ans]

\* The loop over the blocks
CountBlocks(str, first, blocks, ans) ==
    LET st[b \in 0..blocks] ==
            IF b = 0 THEN [store |-> Empty, ans |-> ans]
            ELSE CountBlock(str, first + (b - 1) * VectorBytes, b = blocks, st[b - 1])
    IN  st[blocks].ans

EndOfBlocks(size, first) == size - ((size - first) % VectorBytes) - VectorBytes

\* What is counted of the word the string starts with, and of one that starts at the
\* first aligned byte
Crutches(str, first) ==
    Bit(IF first = 0 THEN ~Space(str, 0) ELSE StartsAt(str, first))
    + Bit(first # 0 /\ ~Space(str, 0))

\* The string is at the given address.  The blocks count a word that starts at end, so
\* does the last loop.
CountWords(str, address) ==
    LET size  == Len(str)
        first == Unaligned(address)
        end   == EndOfBlocks(size, first)
        start == StartsIn(str, 1..(first - 1)) + Crutches(str, first)
        body  == CountBlocks(str, first, (end - first) \div VectorBytes, start)
    IN  IF size <= 4 * VectorBytes THEN CountWordsSlowly(str)
        ELSE body - Bit(StartsAt(str, end)) + StartsIn(str, end..(size - 1))

-----------------------------------------------------------------------------
(* vectorized_memcpy                                                       *)

LeftOver_OfAll(size, offset) == size % VectorBytes

\* end_of_vectorization: what is left after whole blocks
LeftOver(size, offset) == (size - offset) % VectorBytes

\* The stores, each by its first byte and its length, for dst at the given address
Stores(size, address) ==
    LET offset == Unaligned(address)
        tail   == LeftOver(size, offset)
        Bytes(from, to) == { <<i, 1>> : i \in from..(to - 1) }
    IN  IF size < 2 * VectorBytes THEN Bytes(0, size)
        ELSE Bytes(0, offset)
             \cup { <<i, VectorBytes>> : i \in { k \in offset..(size - tail - 1) : (k - offset) % VectorBytes = 0 } }
             \cup Bytes(size - tail, size)

-----------------------------------------------------------------------------
(* What the loops promise                                                  *)

\* The fast count is the slow one for every string at every address
\* (word_counter.cpp:34-156, test_utils.cpp:20-39, compared in word_counter.cpp:193)
CountsAgree(str) ==
    \A address \in 0..(VectorBytes - 1) : CountWords(str, address) = CountWordsSlowly(str)

\* Every byte is stored once and no other, and a store of a block, which movntdq does
\* not take unaligned, is aligned (memcpy.cpp:21-52)
CopiesEachByteOnce(size) ==
    \A address \in 0..(VectorBytes - 1) :
        LET stores == Stores(size, address)
        IN  /\ \A b \in 0..(size - 1) : Cardinality({ s \in stores : b \in s[1]..(s[1] + s[2] - 1) }) = 1
            /\ \A s \in stores : s[1] + s[2] <= size
            /\ \A s \in stores : s[2] = VectorBytes => (address + s[1]) % VectorBytes = 0
=============================================================================
