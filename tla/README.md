# A verification project for CPP-Homework

TLA+ models of the programs in this repository, TLC runs that check them on
small instances, and TLAPS proofs of what holds on every instance. Paths below
are relative to the repository's root (`src/` in `PROJECT.json`).

## 1. The system

The repository is a collection of independent programs. The largest one that
runs as a system is the echo server; the others are data structures and
arithmetic.

| Component | State it keeps | Operations | What is hard | What makes it correct |
|---|---|---|---|---|
| `echo_server/timeouts` deadline_container | map timeout → queue, map timeout → multimap iterator, multimap deadline → queue | `add`, `update`, `remove`, `get_min`, `is_empty` | four structures that point into each other; iterators that every update invalidates | the structures agree, iterators in use are valid, `get_min` is a least deadline |
| `echo_server/echo_server.cpp` event loop | map descriptor → client, the container, the array of epoll events | sleep, expire, accept, read, write, stop | peers, clock and signal act between any two steps; events go stale; the array is extended while it is read | no client outlives its deadline, no event reaches the wrong client, bytes come back in order, the server stops when told to |
| `echo_server/wrappers` clients | descriptor, storing buffer, iterator in the container | construct, read, write, destroy | destructors that change three structures; partial writes; errors that throw | the buffer is never overrun, destruction leaves nothing behind |
| `echo_server/wrappers` epoll_wrapper | epoll and signalfd descriptors, array of events | register, sleep, remove | edge-triggered clients, timeout computed by the caller | every wake-up that is needed happens |
| `cpp/lru_cache` | binary search tree and cyclic list through the same nodes | `find`, `insert`, `erase`, iteration | nodes reused on eviction; pointers in two structures | tree and list hold the same nodes, recency order, iterators of other keys stay valid |
| `cpp/slab_allocator` | per cell size, lists of empty, wip and filled slabs; a header and a free list in each slab | `allocate`, `deallocate`, `clear` | address arithmetic, slabs moving between lists | no two live blocks overlap, a slab is in the right list, `clear` returns exactly the empty ones |
| `cpp/either` | storage for one of two types | construct, assign, emplace, swap | constructors that throw half way | exactly one value is alive |
| `cpp/big_integer` | shared, copy-on-write vector of digits | arithmetic and bit operations | carries, signs, sharing | equals integer arithmetic; a copy never changes |
| `cpp/checked` | a fixed-width integer | arithmetic that throws on overflow | the boundaries | never a wrong integer; throws when the result does not fit, and for what else is known |
| `cpp/parser_combinators` | none (pure) | combinators on strings | rests of the input, alternatives | equals the grammar |
| `cpp/bind` | stored arguments | call | argument forwarding | resolved at compile time |
| `asm/asm_inlines/trampoline` | pages of code slots, a free list | allocate, call, free | ownership on move and swap | a slot has one owner |
| `asm/asm_inlines` word_counter, memcpy | none | vector loops | alignment, tails | equals the plain loop |
| `asm/pure_asm` | arrays of digits | add, subtract, multiply | carries | equals integer arithmetic |

How the parts of the echo server interact: `start` asks the container for the
nearest deadline and sleeps in `epoll_wrapper::start_sleeping`; an accepted
connection becomes an `echo_client`, whose constructors add it to the container
and to epoll; reads and writes go through `deadline_client`, which updates the
container after each; erasing a client from `all_clients` runs the destructors
that take it out of epoll and of the container and close the socket. Errors are
exceptions of `utils::ensure`; none is caught before `main`.

## 2. Modules

| Module | Models | State and actions |
|---|---|---|
| `DeadlineContainer` | `timeouts/deadline_container.{h,cpp}`, `deadline_wrapper.h` | operators on a record of the three members; one per method |
| `DeadlineTimers` | the container with clients that use it as `deadline_client` does | `dc`, the iterators `held`, the last answer `min`; `AddClient`, `UpdateClient`, `RemoveClient`, `AskMin` |
| `TimerSet` | abstract: a set of timers that knows a least one | implemented by `DeadlineTimers` |
| `DeadlineContainer_proofs`, `DeadlineTimers_proofs` | lemmas on the operators; invariants and refinement | |
| `EchoServer` | `echo_server.cpp`, `wrappers/`, with kernel and peers as environment | below |
| `EchoServerProperties` | what the server is checked for | |
| `EchoService` | abstract: a queue of bytes per client | implemented by `EchoServer` |
| `EchoServer_proofs` | invariant, safety, refinement of `EchoService` | |
| `LruCache` | `cpp/lru_cache` | `node` (every node's fields by address), `fake_root`, `head`, `size`; `Find`, `InsertPresent`, `InsertNew`, `InsertEvict`, `Erase` |
| `RecencyList` | abstract: keys and values by last use | implemented by `LruCache` |
| `LruCache_proofs` | invariant, safety, refinement of `RecencyList` | |
| `SlabAllocator` | `cpp/slab_allocator` | the allocator `a` (headers by address, heads of lists), the users' blocks `live`; `Allocate`, `Deallocate`, `Clear` |
| `SlabAllocator_proofs` | invariant, safety, what is reported and returned | |
| `Either` | `cpp/either` | `cell` (tag and what is really in the storage), `live` (objects alive per type), `outcome` of the last operation; `Construct`, `Copy`, `Move`, `Emplace`, `AssignEither`, `Swap`, `Destroy` |
| `OptimizedVector` | `cpp/big_integer/optimized_vector` | `vec` (the members of each vector), `heap` (the shared `std::vector`s); one action per method |
| `IndependentVectors` | abstract: vectors that are values | implemented by `OptimizedVector` |
| `BigInteger` | `cpp/big_integer/big_integer.cpp` | `big`, the value of each variable of a program; an operator per member function, `BigNext` applies any of them |
| `Checked` | `cpp/checked` | operators, from integers to how the operation ends |
| `ParserCombinators` | `cpp/parser_combinators` | `Parse` of a parser, which is a record, on a string |
| `Trampoline` | `asm/asm_inlines/trampoline`: allocator, construction, move, destruction | `head` and `slot` (the pages), `trampoline`, `functors`; `Make`, `MoveFrom`, `Delete` |
| `TrampolineCode` | the code `trampoline.h` emits, `argument_types.h` | operators from a signature to registers and stack |
| `VectorLoops` | `asm/asm_inlines` word_counter, memcpy | operators on strings and addresses |
| `Inlines` | `TrampolineCode` and `VectorLoops` on one input | `input`, a string that grows |
| `Inlines_proofs` | the two for every input, vector and number of registers | |
| `LongArithmetic` | `asm/pure_asm` | operators on sequences of qwords |
| `Ownership` | either, trampolines or vectors: a behaviour is one of the three programs | `program`, and the state of the three |
| `MCPrograms` | the programs of `Ownership`, or the one of `DeadlineTimers` | |
| `MCEchoServer`, `MCLruCache`, `MCSlabAllocator` | constants of the runs | |
| `Ownership_proofs` | invariants of eithers and trampolines; the vectors' invariant and refinement; the programs of `Ownership` | |
| `Arithmetic` | `BigInteger`, `Checked` and `LongArithmetic` together: what a program computes is the input of the other two | as `BigInteger` |
| `Arithmetic_proofs` | numbers in a base; the three at every base, width and number of digits | |
| `MCAlgorithms` | the program of `Arithmetic`, or a string that grows, the input of the rest | |

**The container.** A queue is a sequence of nodes, the multimap a sequence of
entries in iteration order. An iterator is the node (or entry) it points to.
This loses nothing: a node never changes in place (`update_list` erases and
inserts a new one), and a client has one node. It makes a stale iterator
visible: the node is not in the queue any more. `std::map::insert` keeps the
value of a key that is there, as `MapInsert` does; forgetting the `erase` before
it would leave an old iterator (the mutant `Rekeyed_NoErase`).

**The server.** `pc` is where the one thread is: `top` (before `epoll_wait`),
`asleep` (in it), `expire` (the loop of lines 70–76), `events` (the loop of
lines 80–123, at `next`), `unwind` (an exception destroys the clients),
`stopped` and `killed` (SIGPIPE). A step of the server is one iteration of one
loop, and makes at most one read or write; everything between two system calls
that others could see is one step. An element of `events` carries the peer it
was reported for, which `data.fd` does not, so that `EventsFresh` can compare.

**The environment** (external): a connection has two byte queues, `toServer`
and `toPeer` (bounded by `SocketCap`), and ends by shutdown, close or reset.
Clients are on epoll's `ready` list after something happens on their socket and
leave it when they are reported (edge-triggered, `epoll_wrapper.cpp:62`); the
listener and the signalfd are reported as long as they are ready. A write to a
peer that has left is answered by a reset; a write after FIN and reset raises
SIGPIPE. Time is in whole seconds, like `time(nullptr)`. It passes while the
server waits and, `MaxLag` times in a behaviour, while it works.

**The cache.** Tree and list are threaded through the same nodes, and a node is
a record of the pointers of `lru_cache::node`. Each public operation is one
step; each helper (`EraseTwoChild`, `ListCut`, ...) is an operator from memory to
memory with the assignments of the code in their order; `erase_two_child` is
`CutFromTree` of the predecessor, then `TakePlace`. Iterators are not part
of the state: `IteratorsStable` says that a key that stays keeps its node, and
`IterationSorted` walks with `Successor` and `Predecessor` from every node.

**The allocator.** Addresses are numbers, because the code computes with them:
slab of a cell, cells of a slab, alignment. A free list is the sequence of its
cells; in memory each cell holds the next, which is why `NoOverlap` also keeps
users out of free cells. Users are `slab<T>` objects; all share one allocator. Memory
comes from `aligned_alloc`, which is external: it gives bytes that neither a slab nor a
large block has (`FreeSlabs`, `FreeLarge`), and may give those of one that was freed.

**Either.** `data` is what the storage holds (a value in place, or a pointer to a
copy on the heap, and of which type), `which` the tag the code goes by. Where the
code reads or destroys the storage as something it is not, the outcome is
`undefined` and the behaviour ends. Any constructor may throw, before the storage is
touched or in the middle of an emplacement or swap. `crossed` is a history variable:
the variables in which a constructor failed whose value was of the other side than
the one that is kept.

**The vector.** A `shared_ptr` is the address it holds and its use count the
number of vectors with that address. `big_integer` is modelled on plain sequences;
that this is sound is what `ImplementsIndependentVectors` says.

**Arithmetic.** A number is the sequence of its digits, lowest first. Carries,
borrows, trial digits and trimming are those of the code; the base and the width
are constants. A function that lets an exception out returns `Threw`.
`Checked` tells a result, an exception and undefined behaviour apart, the latter
being an overflow that passes the test or one in the test itself.

**Assembler.** Loops are modelled by what they do to memory. An xmm register is a
block of `VectorBytes` lanes; the byte counters of `count_words` saturate at
`CounterMax`. A trampoline's code is modelled by where each argument is when the
functor is called. Arguments are numbered, `FuncObj` is the one it slips in.

## 3. What the runs check

| Run | Instance | What it shows |
|---|---|---|
| `programs` | 3 clients, 2 timeouts, deadlines 0..3; 2 eithers; 3 trampolines on 2 slots; 3 vectors of 2 digits | The container: `TypeOK`, `ContainerConsistent`, `IteratorsValid`, `MinIsLeast`, and the refinement of `TimerSet`. Three clients on two queues give heads, middles and tails, queues that empty, and equal deadlines within and between queues. `EitherSound` and `ValuesKept` with every constructor that may throw: an operation that throws keeps the old value, no object is lost but one for each failed swap, the tag describes the storage exactly where no constructor of the other side failed, and nothing is undefined without a cause that is named. `TrampolineSound`: functors and slots have one owner through moves and an empty list; the refinement of `IndependentVectors`, with vectors that share, grow and shrink |
| `echo_timeouts` | 2 clients, 5 seconds, one of which may pass anywhere in the server's work, a signal | `SourceOfTruth` (map, container and sockets agree at every step of expiry), `DeadlinesInOrder`, `NoEarlyExpiry`, `ExpiryComplete`, `CleanStop`; as long as no second has passed but in `epoll_wait`, `NoneOverdue` (nobody lives past the second of its deadline) and `LazyDroppedIfPrompt` |
| `echo_data` | 1 client, 11 bytes, buffer 4, reads of 2, socket 3 | `BufferFits` and the refinement of `EchoService` under every split into reads and partial writes, and every way to end the connection |
| `echo_full` | 2 peers, 1 descriptor, an array of 4 events, all moves, a signal; the first peer waits for each echo | `EventsFit`, `EventsFresh`: a descriptor is reused, accept fails; `SignalStops`; `EchoCompletes` for the peer that waits, whatever the other does |
| `lru_cache` | 5 elements, 6 keys, 1 value | `ListSound`, `TreeSound`, `IterationSorted`, `IteratorsStable`, and the refinement of `RecencyList`: what is used, replaced and evicted is what a list by last use says. Five elements give every way to erase a node with two children: its predecessor near and far, with a child and without |
| `slab_allocator` | 3 adjacent slabs, cells of 16 and 32 bytes, large blocks at an address of their own and at one within a slab that may come or go | `BlocksSound`: a block is aligned, nobody else's, and found when it comes back; `ListsExact`: slabs in the middle of a list come and go; `SizesReported`; `ClearReturnsEmpties` |
| `algorithms` | 2 `big_integer`s of 3 digits in base 4; strings of 12, blocks of 2, counters up to 3, 3 integer and 2 SSE registers; integers of 5 bits; 3 qwords in base 4 | `BigIntegerExact`: every operator of arithmetic on every pair of values that programs reach; `BitwiseExact` on the operands it names; `FixedWidthExact`: where `checked<T>` throws, and that it never returns a wrong integer, on their values, and how far the assembler's long arithmetic is right on their digits; `InlinesExact`: the vector loops at every alignment, a trampoline's code for every signature of 12 one-word arguments; `CombinatorsExact` for combinators over combinators, and alternatives among three whose types convert |

A property that is a conjunction (`BigIntegerExact` and the like) has a mutant for
each of its parts.

Five runs expect a violation, each a disagreement between the code and what its
documentation says:

- `echo_overdue`: `start` passes `deadline - time(nullptr)` to `epoll_wait`. When
  a deadline went by while events were handled the number is negative, and a
  negative timeout means none: silent clients stay connected. `LazyDropped`
  is violated; `LazyDroppedIfPrompt`, which stops at the first such second, holds
  (`echo_timeouts`).
- `echo_same_second`: `deadline_container.h:55` and `:78` ask for a deadline greater
  than every other in the queue. A client is armed with the second it is, and two
  clients of one second have the same. `DeadlinePrecondition` is what is written;
  what the container needs is that no deadline is later (`NotBefore`), which
  `DeadlinesInOrder` says the server keeps.
- `echo_non_reader`: `README.md` says a client that does not read "will also be
  soon disconnected". When its socket is full, `write` fails with EAGAIN and the
  exception ends the server. (`is_nasty` gets the client first only if its
  buffer is full before its socket is.)
- `either_strong_guarantee`: `either.h:56` promises that an emplacement that throws
  leaves the old value. When the constructor is of the other side, the old value is
  kept on the heap, but the tag names the side of the one that never came
  (`:267-270`): one accessor asserts, the other takes the value for one of its type.
- `lru_erase_last`: erasing the only element leaves `head` pointing to the freed
  node, because the node is its own successor in the cycle. The runs that pass
  have `EraseLast = FALSE`: their users erase only what leaves another element, so
  they say nothing of a cache after that.

Other places where the code does not do what it means to have no run of their
own. The models follow the code; where a property would fail because of one, its
statement or the instance leaves the case out, and says so in its comment.

*Echo server.* A client is edge-triggered and read once, 16 bytes, per event: what
is left of a longer message is not echoed before the client sends again, which is
why `EchoCompletes` speaks of polite peers only. `is_nasty` is `<=` where its
comment says "less than". That the clients are destroyed before the container is
the order of two declarations (`echo_server.cpp:53-56`), which the guard of
`UnwindDone` takes over: `CleanStop` would not notice them swapped.

*Slab allocator.* `deallocate` passes a number of elements
(`slab_allocator.hpp:60`) where `sfree` expects bytes
(`singleton_slab_allocator.hpp:35`). A block of elements larger than a byte that
was large to `smalloc` can be small to `sfree`, which then uses a slab header that
is not there. `slab_allocator` has elements of one byte (`SizeOfT = 1`); with 16,
`BlocksSound` fails in its part `NeverUndefined`.

*Either.* The move constructor reads and destroys a value that is not there yet
(`either.h:144-152`), although the tests use it (`either/main.cpp:138-154`); it is an
action that ends the behaviour. A constructor that fails in an emplacement of the
other side leaves a wrong tag (`either_strong_guarantee`), and so does one that fails in
the second half of a swap of two sides (`:349-360`). The passing run has all of these
failures: `TagDescribesStorage` says that the tag is wrong in exactly those variables
(`crossed`), and `ValuesKept` that the old value is there all the same. A value kept on
the left by pointer can neither be emplaced over (`:282` asserts) nor destroyed (`:242`
falls through to the next case); `UndefinedHasCause` says that these and wrong tags
are the only ways to an undefined operation, besides the move. A swap that fails
loses one object (`:359-360` overwrite a value that is alive), which `NoObjectLost`
counts.

*Parser combinators.* `alt` converts the value of the parser that succeeded to the type
of its last one (`parser_combinators.hpp:154`). An empty `optional<char>` of
`alt(opt(ch('a')), ch('b'))` so becomes a `result<char>` without a value: the
alternative fails without trying `ch('b')`. `Converted` is this conversion;
`AltTakesFirst` says when it makes `alt` fail, and `Total` counts no such alternative.

*big_integer.* `a *= a` with two digits or more throws `out_of_range`, because the
product is accumulated in its own operand (`:622-632`): `TimesItself`, apart from
`Times`, which takes two objects. `<<=` loses bits that cross a digit (`:271-283`).
`>>=` throws when it shifts out more digits than there are, and forgets the sign
of -1. Bit operations are wrong for -1, for negative zero, for negative left
operands shorter than the right one, and for most negative results (`:345-387`):
the domains in `ShiftsExact` and `BitsExact` are what is left. `0 / 0` is 1, and
a division of anything else by 0 ends the program; `a - a` is negative zero for a
negative `a`, which compares equal to zero.

*Checked.* A parenthesis closes too early and every signed sum with a positive
right operand throws (`checked.cpp:112`). A product that is exactly the least value
throws (`:161`). `ThrowsExactly` states both as what the code does, so neither is a
false alarm it would catch. `std::abs` of the least `int` is undefined, and division by
zero is not tested; both are outside.

*Trampoline.* One that was moved from keeps its page and frees it when it is
destroyed (`trampoline.h:147`): then one slot has two owners, and `SlotsExact` and
`Callable` speak of the time before. `malloc` dereferences the end of the list
(`allocator.cpp:8`). An SSE argument on the stack before the integer that has to
make room ends up in the wrong place (`SseBeforePushed`). `argument_types.h` counts
`long double` and structures passed by value as one word of class INTEGER; the
model has no such arguments. `*ip = label_1 - ip++ - 1`
(`trampoline.h:111`) has no defined order before C++17; the model takes the one
that is meant.

*Assembler.* The product drops the last carry of its inner loop when the first
factor uses its highest qword, and never writes its own highest one
(`multiply.asm:73-96`), although its header promises the product (`:42-48`).
`LongExact` says what is left: the lower half is right, the rest never too
large, and all of it right if the first factor leaves its highest qword free.

**Bounds.** `MaxSend`, `MaxTime`, `LastActivity` and `MaxLag` bound the
environment, not the server. `LastActivity + ClientTimeout <= MaxTime` lets every
deadline come. A buffer holds several reads, as in
`echo_server.h:21-22`, and `echo_data` has a buffer that fills before and after the
socket does. `MaxEvents` is at least one place per descriptor and two more, so
that one `epoll_wait` reports everything; `EventsFit` needs twice the
descriptors. With the code's 1024 events this means 511 clients, which the code
does not enforce: `EventsFit` is checked in an instance where the array just fits.
`echo_timeouts` has one second of lag, which comes at any step, once.

The cache is bounded by its capacity (with one `Value`, so that a value that is not
replaced shows only in the proof, `CacheImplementsList`), the allocator by the addresses the system
may return (`SlabAt`, `LargeAt`). Slabs and headers are scaled down; what
the code's sizes guarantee and the model needs (two cells in a slab at least, a
header within the reserved bytes, powers of two) is an assumption of the module. The addresses
of the cache's nodes are a symmetry set: they are only compared for equality.
`FewSmall` limits the users of small cells of the allocator to one slab's worth.

Two eithers give every pair of states a swap or an assignment can meet, and
`MaxSwapThrows = 1` bounds the objects a failed swap loses. Three trampolines on two
slots run out of slots, and one can move from another while the third takes a
slot. Four addresses are enough for three vectors: one is free whenever a copy is
made. A base of 4 and three digits have every carry into, through and out of a
digit, and the trial digits of the division at both ends; 5 bits have all pairs
of ends of a range. Twelve characters in blocks of two fill a counter that
saturates at three; a block of 16 and a counter of 255 meet in the same way in a
string of some 8 KB. Signatures of 12 arguments overflow 3 integer and 2 SSE
registers together. Parsers are two levels deep, strings for them 5 long.

**Fairness.** The operating system runs the server whenever it can move
(`[]<>~ServerCanStep \/ []<><<ServerStep>>_vars` is weak fairness of
`ServerStep`, with ENABLED spelled out), time passes, and a peer that has bytes
to read reads them. Nothing makes peers send, close or connect.

**Deadlock** is checked in the runs of cache and allocator.
The server may wait for ever, and ends; a program over eithers ends when its
behaviour is undefined, and inputs of `algorithms` end at their bound. Their runs do
not check it.

**Mutants.** An operator named after another with a suffix, such as
`Rekeyed_NoErase` or `Shl_Clears`, is the same code with a slip.
Each property is known to fail on one of them.

## 4. What is proved

`DeadlineContainer_proofs` and `DeadlineTimers_proofs` hold for any set of
clients, any timeouts in Nat, any deadlines in Nat up to `TimeMax`
(`TimeAssumption`), and a `NoClient` that is not a client
(`ClientAssumption`).

- `TypeCorrect`, `ContainerStaysConsistent`, `IteratorsStayValid`,
  `MinAlwaysLeast`: `Spec => []P` for the four invariants of the container in `programs`.
- `RefinesTimerSet`: `Spec => ImplementsTimerSet`; the mapping reads the
  deadlines off the queues.

The inductive invariant `IInv` is the conjunction of the type invariant,
`ContainerConsistent` and `IteratorsValid`. None is inductive alone: `update`
finds the right entry of the multimap only because `multimap_iterators` points
to it, changes the right node only because the client's iterator is in its
queue, and keeps the queue sorted only because of the caller's precondition. The
argument is in two layers. `DeadlineContainer_proofs` shows what insertion,
erasure and the search of `std::multimap::insert` do to sequences, then that
`Add`, `Update` and `RemoveNode` keep the container consistent and change the
set of its nodes by exactly the node they are about (`AddCorrect`,
`UpdateCorrect`, `RemoveCorrect`), and that `GetMin` is a least node
(`GetMinCorrect`). `DeadlineTimers_proofs` has one lemma per action on top of
these. `remove` first updates to the greatest time, so its lemma is `update`'s
followed by the erasure of the last node.

`EchoServer_proofs` holds for any peers, any finite set of descriptors
(`IsFiniteSet(Fd)` in `ServerAssumption`: numbers of descriptors are compared with
the length of an array), any sizes of buffers and sockets, any timeout, and any lag.

- `ServerTypes`, `ServerTruth`, `ServerEventsFresh`, `ServerBufferFits`,
  `ServerDeadlinesInOrder`, `ServerCleanStop`: `Spec => []P` for invariants of
  the runs `echo_timeouts`, `echo_data` and `echo_full`.
- `ServerNoEarlyExpiry`, `ServerExpiryComplete`: the two action properties.
- `ServerEventsBound`: `events` has at most `2 * Cardinality(Fd) + 2` members. The
  code has room for 1024 and does not compare; that they fit is not proved.
- `ServerNoneOverdue`, for any lag: the property speaks of the time before the first
  second passes outside of `epoll_wait`. After that it is false, which is the finding
  of `echo_overdue`.
- `ServerImplementsService`: `Spec => ImplementsEchoService`, by any split into reads and
  partial writes, any way to end a connection and any reuse of descriptors.

`IInv` of `EchoServer_proofs` has a part for each pair of structures that must agree,
stated as an operator of those structures, so that a lemma about one update serves
every action that makes it:

| Part | Says | Needed because |
|---|---|---|
| `Held(dc, clients, NewDeadline)` | `GoodContainer` (the invariant of the container), and nodes and clients name each other | `Destroy` removes the right node, and `update` never meets a later deadline (`DeadlinesInOrder`) |
| `Roomy(clients)` | buffers are in bounds | `IsNasty` leaves room for one read, not two |
| `Linked(link, clients)` | a connection is accepted if one client has it, exactly one | otherwise an event for a peer could reach another client |
| `Waiting(backlog, link)` | peers wait once, in state `queued` | `accept` must not make a second client for a peer |
| `Batch(events, next, clients, backlog)` | events from `next` on are of living clients, at most one each, and the listener has a peer waiting | a client dropped for one event must have no other |
| `Alarm` | asleep until the least deadline; while expiring, no deadline is older than the second expiry began with | `ExpiryComplete` is about the step that ends the loop |

`Batch` is the part that is easy to get wrong: an addition to the array
(`echo_server.cpp:116`) puts a second event of a client behind the current one, and
only because the current one is then done is there one from `next` on. The lemmas of
`DeadlineContainer_proofs` are used as they are: `HeldAdd`, `HeldRenew` and `HeldErase`
lift `AddCorrect`, `UpdateCorrect` and `RemoveCorrect` to the map of clients. TLC
has checked `IInv` as an invariant on instances with two seconds of lag, of `echo_data` and
of `echo_full`.

For the refinement, `Mapping` states `pipe` and `cut` by whether a client has the
peer (`StoredOf`, `StoredNone` get rid of the CHOOSE in `Stored`), `Regroup` moves
bytes along a queue of three parts, and each action is one lemma: a read takes bytes from
`toServer` to the buffer, a write from the buffer to `toPeer`, both a stutter of the service;
a close cuts.

The vectors, in `Ownership_proofs`, are any set with any addresses, any digits
with a zero, and a `Null` that is no address (`VectorAssumption`).

- `VectorTypeCorrect`: `VectorSpec => []VectorTypeOK`. The invariant is inductive as
  it stands: it says that the `std::vector`s alive are those some vector points to.
- `RefinesIndependentVectors`: `VectorSpec => ImplementsIndependentVectors`; the
  mapping reads a vector's digits through its pointer.

Everything rests on `ReplaceCorrect`: if a vector gets new members and the memory
agrees with the old one for the pointers of all others that are large, only its own
digits change. `ModifyCorrect` then shows the two sides of `copy_if_not_unique`: a
pointer nobody else has, or a new address. Each method is one lemma on top.

Trampolines and eithers, in the same module, have any number of slots above zero, any variables, functors
and values, and a `NoFunc` that is no functor.

- `TrampolineOwnership`: `TrampolineSpec => []TrampolineSound`. The invariant `TInv`
  says that the free list is some sequence of distinct slots, exactly those no
  trampoline has, until a slot is freed that another trampoline has. `SlotsExact`
  itself, which walks the list by a recursive function, is not inductive: it does
  not say that the pointers between the free slots are still those of a list when
  the first is taken. `Walk` and `Left` lead from the sequence to the walk, by the
  least position that is wrong.
- `EitherTypes`: types, and `CountsHold`: what is alive of a type is never less than
  what the variables hold, whatever throws.
- `EitherCorrect`, `EitherKeepsValues`: `EitherSpec => []EitherSound` and
  `EitherSpec => ValuesKept`, whichever constructor throws. The counts
  are by variable written (`CountOne`, `CountTwo`), the rest, `SoundInv`, is that a
  variable's tag describes its storage exactly if it is not in `crossed`.
- `OwnershipTypes`, `OwnershipCorrect`: the same of `OwnershipSpec`, in which
  one of the three programs takes all steps and the other two stand still
  (`EachProgram`).

`LruCache_proofs` holds for any capacity, any keys in Nat, any values, and any set of
addresses that has room for the capacity (`CacheAssumption`), where users erase only
what leaves another element (`~EraseLast`). It is the condition of the run `lru_cache`:
after the only element is erased `head` points to freed memory (`lru_erase_last`), and
nothing can be said of the next insert.

- `CacheTypes`, `ListIsSound`, `TreeIsSound`, `IterationIsSorted`, and `HeadIsLive`:
  `Spec => []P` for the four invariants of `lru_cache` and the one of `lru_erase_last`.
- `IteratorsAreStable`: the action property.
- `CacheImplementsList`: `Spec => ImplementsRecencyList`.

The invariant, `IInv`, says that `Sound` holds of some ring `q` of nodes and some subtrees
`S`. `ListSound` and `TreeSound`, which TLC checks, follow pointers by recursive functions,
and what an assignment does to the value of such a function cannot be read off it; nor do
they say anything of memory outside of the tree. `Sound` says the same locally, of
each node and its neighbours, and the two follow from it (`InvList`, `InvTree`). TLC cannot
evaluate `Sound` (it would have to guess `q` and `S`), so it checks these two instead.
Its parts are about tree and list separately:

| Part | Says | Needed because |
|---|---|---|
| `Tree(h, L, S)` | `S[x]` is `x` and the subtrees of its children; children know their parents; keys are ordered | a search, and `++`, go by keys and never leave the tree |
| `Idle(h, L)` | a node that is not in the tree has no children and no parent (freed memory is blanked) | `from`, `up` and `down` are functions of all addresses, and must be defined at these, too |
| `Ring(h, head, L, q, k)` | `q` lists the `k` nodes, `next` and `prev` lead to its neighbours, `head` to the first | a cut and an insertion are operations on `q` |
| keys and values | of the types of the calls | the refinement |

The tree is proved in steps that follow the code: `Inserted` and `Spliced` say what an
insertion, and the erasure of a node with a child at most, do to each field, `Replaced`
what it does that the predecessor takes a node's place; then each leaves a search tree,
with `S` changed by one node. A loop that follows pointers is a recursive function here
(`FindByKey`, `Successor`). `DescentEnds` gives its value without induction over data,
from a rank that every step makes smaller, by a least counterexample; the ranks are
the size of a subtree, downwards, and what is left of the tree, upwards. The list needs no
such argument for its steps: `RingCut` and `RingFront` follow from indices.

The four kinds of steps, `Hit`, `Came`, `Evicted` and `Gone`, say what each does to `q`.
The refinement follows: `Listed` reads a ring's elements, and `DroppedIs`, `PushedIs` and
`FrontIs` turn changes of `q` into the operators on sequences of `RecencyList`.

`SlabAllocator_proofs` holds for any sizes of slabs, headers, cells, elements and requests
and any finite set of addresses that satisfy `AllocatorAssumption` and `MaxCellsAssumption`:
the least cell and the reserved area are powers of two, a header fits into the reserved
area, a slab is a whole number of cells of each size and has two cells at least, slabs are
aligned to their size. The code's constants do (`singleton_slab_allocator.hpp:19-28`).

- `SlabAllocatorTypes`, `ListsAreExact`, `SizesAreReported`: `Spec => []P` for the invariants of
  `slab_allocator`; `ClearReturnsTheEmpties`: its action property.
- `BlocksAreApart`: `Spec => [](Aligned /\ NoOverlap)`, for elements of any size, and also
  when a step was undefined, which ends the behaviour without giving out anything.
- `BlocksAreSound`, where `DeallocateKnows`: what `deallocate` is told of a request is large
  exactly if the request was. Elements of a byte satisfy it (`BytesAreKnown`); larger ones
  need not, and then `NeverUndefined` is false (section 3).

`BlocksSound` is not inductive: it does not say where free cells are. `Inv` has these parts:

| Part | Says | Needed because |
|---|---|---|
| `Good(a)`: `CellsOK` | a free list is a sequence of distinct cells of its slab, as many as the count | the cell taken off is one of the slab's, and the count is 0 or full only for the lists that are |
| `Good(a)`: `Listed(a, Homes(a.mem))` | for each list and cell size some sequence lists the slabs whose count calls for it, linked by `next` and `prev` from the head | removal and insertion are operations on the sequence; a slab that has to move is in the list the code takes it from |
| `Owned(a.mem, live)` | the cells of slabs that are not free are those of the users, one each, and of the size they asked for | a cell that comes back is in no free list and its slab is there, which `clear` must not have freed |
| `LargeApart(a.mem, live)` | large blocks are apart from slabs and from each other | the address of a new slab may have been a large block's |

The lemmas follow the code from the bottom. `PowerSum` and those after it are about powers of
two (the library has none: `2^n` counts the subsets of a set of `n`), and give what
`ceiling_pow2` returns and that cells of a slab are aligned and apart (`CellPlace`).
`RemovedFrom` and `PushedTo` are first described field by field, `Unlinked` and `Linked`, then as
operations on the sequence of a list. `Exchanged` puts the two together for a `Moved` slab, whose
list is the one its count called for before the step. A new slab, a cell
taken and a cell given are one lemma each, `clear` is one lemma per turn: `Repeated` gives the
loop its values by a least counterexample, and every turn leaves one slab fewer or is the last. `Walk`, which
follows `next`, is read off the sequence (`WalkIs`); `Size`, a fold over a set of slabs, is
related to the users of the slabs by `SumIs`. TLC cannot evaluate `Inv`
(it would have to guess the sequences); it checks the properties that follow from it.

`Arithmetic_proofs` holds for digits of any number of bits from two on and any radix that is
a digit (`BigIntegerAssumption`), any base and number of qwords with a text long enough for the
greatest qword (`LongAssumption`), integers of any width from two bits on
(`CheckedAssumption`), and digits that are not larger than qwords (`ArithmeticAssumption`).

- `BigIntegersAreTyped`, `BigIntegersAreExact`, `FixedWidthIsExact`: `BigSpec => []P` for
  `BigTypeOK` and for two of the invariants of `algorithms`, at any bound on the digits.
- `LongNumbersAreExact`, `LongTextIsReadBack`: `LongExact` and `LongRoundTrip` of all long
  numbers, whether `big_integer` has such digits or not.
- `CheckedNoSilentOverflow` (a result is the integer it should be), `CheckedThrowsExactly`
  (which operations throw, the signed sums and products among them that fit): all
  operands, quotients by zero and products of the least `int` apart.

The invariant, `BigInv`, says that every variable is a sign and digits of which the highest is
zero only if it is alone, or `Threw`: what `BigTypeOK` says, and that there is nothing else in
`big`. That it is inductive is the hard part, because an operation is right, and trims its result
enough, only for operands that are trimmed; `BigIntegerExact` then follows from it state by state.
The argument has three layers. First, numbers in a base: `Val` of a function and a length,
what carries (`Carries`), borrows (`Borrowing`) and remainders (`Dividing`) do to it, that
digits are unique (`ValUnique`) and how sizes compare. A carry is a local recursive function in
the models; `RecursionUp` and `RecursionDown` say that there is such a function, by a least
counterexample, and after this only what it says of neighbours is used. Second, one lemma per
helper of the code on digits without leading zeros: sum, difference, product, and the long division,
each turn of which finds the greatest digit that fits (`DigitOfQuotientIs`) and leaves a rest
below the divisor (`CellIs`). Third, the signs: each member function gives such a number again
and is the integer operation. Text goes through a list of quotients (`RunsOut`):
writing divides until nothing is left, reading multiplies the same digits back, and both are
compared with this list. The same lemmas serve the assembler's programs, where the number of
digits is fixed and what does not fit is gone.

Of the operations on bits only that they end in a number again is proved (`ShiftIs`,
`BinaryOperationIs`), because the next operation meets the result; that this number is the
right one, `BitwiseExact`, is left to TLC.

`Inlines_proofs` holds for vectors of any number of bytes and counters with any limit above
zero (`VectorLoopsAssumption`), any number of integer registers above zero and any
number of SSE registers (`TrampolineCodeAssumption`).

- `CountsAreExact`, `CopiesAreExact`: the vector loops on every string or size, at every address.
- `ArgumentsAreInPlace`, `CallersAreReturnedTo`: the trampoline on every signature of
  one-word arguments, the first with the exception section 3 names.
- `InlinesAreExact`: the four as `InputSpec => []InlinesExact`.

A count of words is the number of places where one starts (`Starts`, a cardinality, which
`StartsBetween` splits). The plain loop's state is this number so far (`CountWordsSlowlyIs`). For
the vector loop the invariant of a turn is that what has been emptied into `ans` and what is
still in the lanes are together the starts so far, and that no lane has its top bit set
(`Quiet`): such a lane can be counted up once more without saturating, so `NothingIsLost`. The two
corrections at the borders of the blocks then cancel (`CountWordsIs`). For the copy, the three
kinds of stores are shown to be apart and together everything (`StoresAre`). For the trampoline, `InOrder`
lists a set of numbers: a member's place is its rank, ranks are one to one and, by counting, all
are taken (`RankReached`). So `SmallestFirst` says that putting the functor in front of all
arguments pushes it in front of the list, and `FirstIs` that those in registers are a prefix; the same
lemma, for the integer that loses its register, is why `ArgumentsAreInPlace` needs it to be the
first on the stack. `CallersStackIs` counts the words, which is what `stack_size` must be.

Only model-checked:

- liveness (`LazyDroppedIfPrompt`, `SignalStops`, `EchoCompletes`): TLAPS does not do liveness
  under fairness;
- the findings;
- the bit operations of `big_integer` (`BitwiseExact`), beyond what is said above;
- the combinators (`CombinatorsExact`): what their recursive operators compute for every
  input is out of the prover's reach.

## 5. What is not modelled

- `change_timeout` and `test_write_to_client`: nothing calls them.
- Clocks that are set back, `bad_alloc`, and failures of calls at start-up.
- The wording of logs.
- gtest (third-party), which is five sixths of the lines of code; bind
  (compile-time only); the tests and drivers, among them the tester of
  `big_integer` and the random tests of the vector loops, whose questions the
  properties ask.
- Failing allocations in the cache, in vectors and in the allocator (where
  `aligned_alloc` may return null), and `aligned_alloc` with a size that is no power
  of two. A copy of a string that throws in the middle of an eviction.
- `operator=` and `swap` of trampolines: they name a member that does not exist
  (`trampoline.h:173`) and cannot be instantiated.
- Characters that are no digits in the assembler's input, which end the program.

## 6. Plan

1. Done: the deadline container with proofs; the echo server.
2. Done: `LruCache`, tree and list at the level of pointers, refining a recency
   list.
3. Done: `SlabAllocator` with proofs.
4. Done: `Either`, `OptimizedVector` and `Trampoline`, who owns what.
5. Done: the algorithms at a small base or width against integers.
6. Proofs. Done: the container and its timers; the event loop, safety and
   refinement; eithers, trampolines and vectors;
   the cache, safety and refinement; the allocator; `big_integer`, `checked` and the
   assembler, both long numbers and inlines. What is left to TLC, and why, is at the
   end of section 4.
