# syseng: models, checks and proofs

This directory specifies the implemented parts of the `syseng` workbook in TLA+,
checks them with TLC on small instances, and proves the most important
properties with TLAPS. `PROJECT.json` lists runs, mutants, the map from
definitions to source lines, findings, hazards and theorems.

## 1. The system

The workbook is a collection of C and C++ exercises with their tests. Many
exercises are implemented; others (most of modules 03 to 07) are skeletons whose
bodies are `TODO` placeholders. The parts with behaviour of their own:

| Part | State | Operations | What makes it hard |
|---|---|---|---|
| `ScopedFd` (02/ex1) | one descriptor number per wrapper; the descriptor table of the process | construct, destroy, move, `release` | `close` frees the number for any other thread while the wrapper still shows it |
| `UniqueBuffer` (02/ex1) | pointer and size per object; the heap | construct, destroy, move | the heap reuses a block between `delete[]` and the overwrite of the pointer |
| `ScopeGuard` (02/ex1) | a flag, a callable | construct, `dismiss`, destroy | nested scopes left by exceptions, cleanups that throw |
| `Buffer` (02/ex3) | pointer and size per object, two static counters; the heap | six special members, `operator[]`, `reset_counters` | exceptions between two statements, self-assignment, block reuse |
| `int_vec_t` (00/ex2) | pointer, length, capacity; the heap | `vec_init` ... `vec_free` | failing and moving `realloc`, capacity 0, byte counts that wrap |
| string functions (00/ex2) | bytes of the caller's buffer; the heap | `my_strlen` ... `str_is_palindrome` | overlapping arguments, short destinations, failing `malloc`, chars above 127, lengths kept in an `int` |
| functions of `hello.c` (00/ex1) | the caller's array | sum, maximum, clamp, in-place reversal | odd, even and empty lengths, overflowing partial sums |
| linked list (00/ex3) | head, length, nodes on the heap | `ll_init` ... `ll_free` | cursors into memory that is being freed, recycled nodes, duplicates |
| entity (00/ex3) | hit points, life, position, name | init, damage, heal, move | order of calls, overflow |
| `PoolAllocator` (03/ex3) | one bump pointer shared by all types | `allocate`, `deallocate`, `reset` | the end of the pool, `size_t` arithmetic |
| bitwise functions (01/ex1), float bits (01/ex2) | none | pure functions | most negative integer, binade boundaries, rounding, NaN |
| symbol table (02/ex2) | none | `symbol_id` | names that are beginnings of one another |
| container benchmark (03/ex1) | nine containers filled one after the other | insert, lookup, iterate | capped and scaled scans, `int` sums, `lower_bound` without a test for equality |
| statistics (`tools/common.hpp`) | the samples | `median_ns`, `percentile`, `print_latency_dist` | rounding of the index at both ends |
| MPMC test drivers (05/ex3) | the queue, shared atomic counters, producer and consumer threads | the loops of the threads, join, drain | when may a consumer leave |
| echo server (07/ex1) | stop flag, server thread | construct, `run`, `stop`, join, destroy | `stop()` before `run()` has begun |
| test framework (`tools/`) | three counters, the current test; the child process of `check.py` | `TEST_BEGIN`, `RUN_TEST`, the assertions, `TEST_END`, `check.py` | assertions on several threads race on plain counters; hanging and crashing tests |

Interaction: the containers and owners meet only the allocator or the kernel,
which the models contain as far as the code can tell them apart (which block or
number is handed out next is a free choice). The tests of 05-concurrency run
assertions of the framework on several threads. `make` targets run the
test binaries, `check.py` wraps one of them.

What makes each part correct, in one line: owners never share, leak or
double-release a resource; containers are sequences whatever the allocator does;
blocks of the pool never overlap; arithmetic functions equal their mathematical
definitions; a string function that returns has done what was asked, in its own
bytes only; a cleanup runs once; the rows of the benchmark are about the same
data; a test driver ends and counts every value once; a verdict
"ALL TESTS PASSED" is true.

Not modelled, and why: bodies that do not exist yet (`dns.c`,
`circular_buffer.hpp`, all of 04, the operations of `SeqLock`, `SPSCQueue`,
`MPMCQueue`, all of 06, `multicast.hpp`, `fix_parser.hpp`, `int_to_float`, which
has no `return`; `run_once` and what it dispatches to in `server.hpp`): a model
of their comments would be a model of no code. What the benchmarks measure is
hardware; their loops are modelled, time is not. Printing and formatting
(`entity_status`, `fizzbuzz`, `print_result`, `side_str`) carry no property.
`Price`, `Quantity`, `Side` and `Order` are immutable wrappers without a state.
The drivers of `test_seqlock.cpp` and `test_spsc_queue.cpp` exercise placeholders
through busy loops of their own and are left for later.

## 2. Modules

| Module | Models | Notes |
|---|---|---|
| `Ownership` | abstract: a resource has one owner or none | one resource per step |
| `ScopedFd` | class `ScopedFd` used by threads | destructor and move assignment are split at `close()`; implements `Ownership` |
| `UniqueBuffer` | class `UniqueBuffer` | split at `delete[]`; implements `Ownership` |
| `BufferValues` | abstract: buffers are values | |
| `Buffer` | class `Buffer` | `fault` marks undefined behaviour, `threw` remembers an exception |
| `Sequence` | abstract: a sequence of integers with the calls of both C containers | |
| `IntVec` | `int_vec_t` | a `vec_push` has three outcomes: fits, grows, allocation fails; byte counts wrap at `Modulus`, so a block may have fewer cells than its capacity says |
| `LinkedList` | `linked_list_t` | one action per loop iteration; `pc`, `cur`, `prev`, `n`, `steps` are the locals of the call |
| `PoolAllocator` | the pool | `size_t` wraps at `Modulus` |
| `CInt` | `int` as two's complement of a parameter width that wraps | used by the C modules |
| `Entity` | hit points, life, position and distance of `entity_t` | `overflowed` remembers a heal that left the range of `int` |
| `Bits`, `FloatBits` | the pure functions as operators | width and format are parameters; the C operators are external, `&`, `\|` and `^` work bit by bit |
| `Arrays` | the functions of `hello.c` | `array_reverse` is a loop of steps |
| `CStrings` | the string functions of `strings.c` | one address space with a gap between buffer and block; a length stored in an `int` is converted (`ToInt`, `IntHalf` is `INT_MAX + 1`); `my_strcpy` and `str_reverse` are loops of steps |
| `ScopeGuard` | nested guards | exceptions unwind from the innermost; a throwing cleanup terminates |
| `Symbols` | `symbol_id` | how far the pointer `name` has moved is part of the scan |
| `Sorting` | `std::sort` (external) | used by the next two modules |
| `BenchStats` | median and percentiles of `common.hpp` | the index of `percentile` is a set: a product of doubles may fall just below an integer |
| `ContainerBench` | `bench_containers.cpp` | one step per loop iteration; both generators are seeded with 42, so the queries are the permutation of the keys applied twice; the `std::sort` inside the timed part of `bench_insert_vector` is counted apart from the insertions |
| `MpmcTest` | the drivers of `test_mpmc_queue.cpp` | one step per access to an atomic; the queue is the placeholder of the repository or a finished one (external: a bounded FIFO) |
| `EchoServer` | `EchoServer` and `main()` of its test | `run_once` is the placeholder |
| `TestHarness` | macros of `common.h`/`common.hpp`, `check.py` | `_tests_failed++` is a load and a store |
| `MCScopedFd`, `MCBuffer`, `MCIntVec` | instances for TLC | |
| `MCSmallParts` | instance of `Bits`, `FloatBits`, `Entity`, `Arrays`, `CStrings` | the parts share nothing: one is chosen and runs |
| `MCCppParts` | instance of `PoolAllocator`, `UniqueBuffer`, `ScopeGuard`, `Symbols`, `BenchStats`, `ContainerBench` | likewise |
| `MCThreads` | instance of `TestHarness`, `MpmcTest`, `EchoServer` | likewise, with the fairness of each |
| `ScopedFdProof`, `BufferProof`, `IntVecProof`, `LinkedListProof`, `CStringsProof` | theorems about the module of that name | section 4 |
| `CppPartsProof` | theorems about `UniqueBuffer`, `ScopeGuard`, `PoolAllocator`, `Symbols`, `BenchStats` and `ContainerBench` | |
| `ThreadsProof` | theorems about `TestHarness`, `MpmcTest` and `EchoServer` | |
| `CFunctionsProof` | theorems about `Entity`, `Arrays`, `FloatBits` and `Bits` | |

Variables carry the names of the members and locals they stand for; an action
carries the name of its function, or of the step of its loop. Operators whose
comment calls them a mutant are wrong variants of the definition that follows;
they document which slip each property notices and are used by no specification.

Atomicity. A call on an object that only its caller uses is one step, except
where something shared can change in the middle (the descriptor table, the heap,
`_tests_failed`, the atomics of the queue drivers) or where the intermediate
states are the question (the loops of the linked list, of the string functions,
of `array_reverse` and of the benchmark). The contracts assumed of the callers are in the header
of each module and come from the headers of the code: objects are used by one
thread at a time, `vec_pop` and `ll_pop_front` on non-empty containers, `reset`
when no block is in use, amounts that are not negative, sources that are
terminated strings. Nothing is asked of a string's destination.

## 3. Runs

| Run | Checks | Bounds, and why they are enough |
|---|---|---|
| `scoped_fd` | `TypeOK`, `Exclusive`, `NoLeak`, refinement of `Ownership` | 2 threads, 3 wrappers, 3 numbers: one thread inside each split operation on different objects while the client reuses the number |
| `buffer` | `OwnedOnce` (`TypeOK`, `Exclusive`, `NoLeak`), `ValuesUnlessExcused` | 3 objects, 3 blocks, sizes 0 to 2, two copies and two moves between resets: sharing needs two objects and one reused block |
| `int_vec` | `Shape` (with `TypeOK`), `Amortised`, `FaultOnlyIfNoCell`, refinement of `Sequence` | elements of 2 bytes and a `size_t` modulo 16; initial capacities 0, 1, 2, 3 (up to three doublings), 8, 9 and 15 (byte counts that wrap to 0, to one cell and to seven), up to 7 elements, allocation may fail at any call |
| `linked_list` | `Shape` (with `TypeOK`), `CursorsValid`, refinement of `Sequence`, `CallsReturn` | 3 nodes with arbitrary old contents, 2 values: head, inner and last position, duplicates, recycled nodes |
| `small_parts` | `BitsExact`, `FloatsExact`, `EntityExact`, `DeathIsFinal`, `ArraysExact`, `ReverseReturns`, `ReadersExact`, `CopyExact`, `FaultOnlyIfUnsafe`, `CallsEnd` | 4-bit ints and an 8-bit float format exhaustively; entities of 4-bit ints, so that heals and moves overflow; arrays of up to 4 elements (both parities, overflowing partial sums); a buffer of 5 bytes with a zero, a positive and a negative char, and an `int` up to 3, so that reversals have two swaps, copies overlap by one and two bytes, `str_join` has two non-empty parts, and the longest strings fit neither the `int` of `my_strcat` nor those of `my_strdup` and `str_join` |
| `cpp_parts` | `Disjoint`, `SizeMatches`, `CleanupOnce`, `SymbolIdExact`, `PercentileRanks`, `SameData`, `RowsComparable`, refinement of `Ownership` by `UniqueBuffer` | a pool of 12 bytes, elements of 1 and 4 bytes, counts 0 to 3 (exact fit, one byte too many, empty requests); 3 objects and 3 blocks; 4 guards; 5 symbols with common beginnings and every name of up to 3 of 5 letters; up to 4 samples; 5 keys in every order, a cap of 2 queries, which leaves a remainder, and an `int` that their sum exceeds |
| `threads` | `VerdictHonest`, `Accounting`, `VerdictComes`, `NoEarlyLeave`, `SeenOnce`, `ThroughputDone`, `NoUseAfterDestroy`, `ServerStops` | 3 tests, 3 threads, up to 3 counted failures (a lost update needs two threads, blame on a wrong test two tests); 2 producers of 2 items, 3 consumers, a queue of 2, so that it is full, empty and shared unevenly |

Deadlock is checked except where a terminal state is meant: `buffer` and
`int_vec` stop at undefined behaviour, `linked_list` at the store through the
`NULL` of a failed `malloc`, `small_parts` at a string function that has left its
object, `threads` when the processes have ended.

Fairness. `LinkedList` assumes weak fairness of the loop steps: a thread inside
a call keeps running. `TestHarness` assumes that `check.py` keeps running, so
that its timeout or the end of the process is noticed; the test itself may hang.
`CStrings` assumes weak fairness of its loop steps, like the list. `MpmcTest` and
`EchoServer` assume weak fairness of every thread: the operating system schedules
each runnable thread again and again, and the loops poll, so that a thread that
waits is runnable. `EchoServer` also assumes that the tests between start and
`stop()` end (a failed assertion returns). No strong fairness is used, and no
other liveness is claimed.

### Disagreements found

Five runs show what the code does against a comment of its own:

- `buffer_self_copy`: `b = b` replaces `data_` before copying; the contents become zeros.
- `int_vec_zero`: capacity 0 doubled is 0, the first push stores outside the block.
- `pool_wrap`: `n * sizeof(T)` wraps and passes the overflow test.
- `float_comments`: `float_half` drops the last bit of an odd denormal, where `f / 2.0`
  rounds to the even neighbour (`0x3` gives `0x1` and not `0x2`), and the leading one
  at exponent 1 ("watch the boundary"); `float_twice` turns exponent `0xFE` with a
  fraction into a NaN; `float_abs` clears the sign of a NaN ("NaN unchanged"). TLC
  stops at the first of these; each is a conjunct of `FloatsAsCommented`.
- `mpmc_hang`: in the correctness test a consumer leaves when `consumed + local`
  reaches the total, but only leaving consumers add to `consumed`. As soon as two
  consumers have popped one item each, none can leave and `main` waits for ever,
  even over a perfect queue. (`NoEarlyLeave` shows that the condition is safe; the
  throughput driver, which publishes every pop, ends.)

Smaller ones, seen while modelling and without a run: `vec_init` announces its
capacity after a failed `malloc`, and one that its block does not have when
the byte count wraps (`Shape`, `FaultOnlyIfNoCell`); `allocate` does not round to
64 bytes (marked `TODO` in the code); a failed `realloc` leaks the old block; a copy assignment of `Buffer` deletes before `new[]`, and if
that throws, the destructor deletes again (`OwnedOnce` and `ValuesUnlessExcused`
hold up to that exception); `my_strcat(s, s)` runs off its buffer, and `my_strdup`
and `str_join` write through the `NULL` of a failed `malloc` (`FaultOnlyIfUnsafe`
lists these and lengths beyond `INT_MAX`, which `my_strcat`, `my_strdup` and
`str_join` keep in an `int`, as the only causes); a heal close to `INT_MAX`
overflows before the clamp and leaves hit points that a later hit may even raise
(`EntityExact` holds up to such a heal); in the container benchmark the `int` sums of the five
standard containers overflow for the 1,000,000 keys of `main()` (`SumsExact`, a part of `SameData`), and
the rows of list and deque are exactly comparable only because 1000 divides that
number (`RowsComparable`: otherwise they stand for up to 999 lookups fewer).

## 4. Proofs

Each theorem states a property that a run checks, for every value of the
constants that satisfies the `ASSUME`s of the module: any number of threads,
objects, nodes, blocks, tests and elements. The bounds on counters (`MaxLen`,
`MaxCount`, `MaxN`, ...) are constants too, so they bound nothing in a theorem.

| Theorem | States | Assumes of the constants |
|---|---|---|
| `ScopedFdProof!TypeCorrect`, `SingleOwner`, `LeakFree` | `TypeOK`, `Exclusive`, `NoLeak` always | `NoObject` is no wrapper, descriptors are naturals |
| `ScopedFdProof!OwnershipRefined` | `ImplementsOwnership`: every step is one of `Ownership` or a stutter | the same |
| `BufferProof!SingleOwnership` | `OwnedOnce` always | sizes are naturals, `NULL` is no block and no array, 0 is a byte |
| `BufferProof!BuffersAreValues` | `ValuesUnlessExcused`: every step is one of `BufferValues`, but for the two excused ones | the same |
| `CppPartsProof!SizeTruthful`, `OwnershipRefined` | `SizeMatches` always, `ImplementsOwnership` | `NULL` is no block, sizes are naturals |
| `CppPartsProof!CleanupsRunOnce` | `CleanupOnce` always | the number of guards is bounded |
| `IntVecProof!OneBlock`, `DoublingPays`, `StoresInside` | `Shape`, `Amortised`, `FaultOnlyIfNoCell` always | `NULL` is no block, capacities are values of `size_t`, an `int` has at least two bytes, `Garbage` is no value |
| `IntVecProof!VectorIsSequence` | `ImplementsSequence`: the vector implements `Sequence` | the same |
| `LinkedListProof!ListShape`, `CursorsSafe` | `Shape`, `CursorsValid` always | finitely many nodes, `NULL` is none of them |
| `LinkedListProof!ListIsSequence` | `ImplementsSequence`: the list implements `Sequence` | the same |
| `CppPartsProof!NoOverlap` | `Disjoint` always | `NoWrap`: no request wraps `size_t` (run `pool_wrap` shows it is needed) |
| `ThreadsProof!HonestVerdict`, `ExactAccount` | `VerdictHonest`, `Accounting` always | `None` is no exit status |
| `ThreadsProof!ServerOutlivesThread` | `NoUseAfterDestroy` always | |
| `ThreadsProof!LeavesLast`, `EachSeenOnce` | `NoEarlyLeave`, `SeenOnce` always | at least one producer, consumer, item and place |
| `CFunctionsProof!EntitySound`, `DeadStayDead` | `EntityExact` always, `DeathIsFinal` | arguments are ints, hit points and amounts not negative |
| `CFunctionsProof!ArraysSound`, `ReverseReverses` | `ArraysExact` always, `ReverseReturns` | elements are ints |
| `CStringsProof!StringsStayInside`, `StringsReadExact` | `FaultOnlyIfUnsafe`, `ReadersExact` always | a buffer of at least one byte, characters are signed bytes and 0 is one, `INT_MAX` is a natural |
| `CStringsProof!StringsReturnExact` | `CopyExact` | the same |
| `CFunctionsProof!AllFloatsExact` | `FloatsExact` always | at least two bits of exponent and one of fraction |
| `CFunctionsProof!AllBitsExact` | `BitsExact` always | an `int` of at least three bits |
| `CppPartsProof!AllSymbolIdExact` | `SymbolIdExact` always | the table has different, non-empty names |
| `CppPartsProof!AllPercentileRanks` | `PercentileRanks` always | percentages between 0 and 100 |
| `CppPartsProof!AllContainersSameData`, `AllRowsComparable` | `SameData`, `RowsComparable` always | at least one key, a cap of at least one, the sum of the keys fits a `long long` |

What the properties do not say and the inductive invariants had to add:

`ScopedFd`: `Exclusive` is not inductive by itself. A destructor in progress
must be known to run on an empty, living wrapper that no other thread works on,
and a move assignment in progress on two living wrappers: that is `Frames`. The
number shown by the target of a move assignment after `close()` is excluded from
ownership by `Stale`; without it the kernel's reuse of the number would refute
the invariant. `NoLeak` then needs `Exclusive`, to know that closing one
descriptor removes exactly that one, and the refinement needs both: the owner
that the mapping names is the only one, so one release changes one owner.

`Buffer`: `OwnedOnce` and that storage without an object has no pointer. The
refinement uses that a block which `new[]` hands out again is held by nobody, so
that filling it changes no other buffer.

`UniqueBuffer`: between `delete[]` and the two assignments of a move assignment
target and source show the same block. The invariant speaks of the settled
objects only, and two assignments in progress have no object in common
(`AssignsDisjoint`, the contract of the caller). `ScopeGuard`: the ids of waiting,
dismissed and called guards partition those made (`CallsOK`).

`IntVec`: `Quiet`, that a vector without a block has no elements and that the
length never exceeds its recorded peak. `Amortised` is inductive with it: a
reallocation copies at most a capacity and adds as much to the capacity. That the
byte count of a doubled capacity is that of all its cells, unless it wraps, is
arithmetic (`CellsFollow`, `DoublingFollows`): a vector that has filled a block with
one cell for each place of its capacity and doubles it into a wrap gets a block without
a cell for the next element, which is the third cause in `FaultOnlyIfNoCell`.

`LinkedList`: there is a path `s`, an injective function from `1..length` to the
nodes, along which `next` leads from `head` to `NULL`; the allocated nodes are
those on it and the node that a push holds in its hand (`Linked`). For each loop
`CursorOn` says where its cursor is on that path, and for `ll_contains` and
`ll_remove` that no place passed so far has the value: this makes their results
right. While `ll_free` runs only the rest of the path is left (`Freeing`). The
refinement mapping follows the links by a recursive function; along a path it is
the path.

`PoolAllocator`: `Disjoint` contains its own strengthening (every block ends
below the bump pointer, and that inside the pool); `PlainArithmetic` turns the
modular arithmetic into plain addition once and for all.

`TestHarness`: the failure counter may lose increments and even decrease, so
"failures are counted" is not an invariant. `Counted` says what is: during a
test no thread holds a load older than the test, and every store is one more
than such a load, so the counter cannot return to its value at the start.
`Accounting` needs the other direction as well (`Balanced`): a test without a
failed assertion leaves the counter where it was.

`MpmcTest`: no value is in the queue twice or both queued and seen (`Unique`);
what a producer has not reached yet is nowhere; what the consumers have counted
is at most the number of values seen. A consumer can only leave at `TOTAL`, and
a set of `TOTAL` seen values is all of them: hence `NoEarlyLeave`, although the
consumers that leave add their counts twice. `EchoServer`: the thread runs only
while the server is alive, because `main()` destroys it behind the join.

`Entity`: the dead have exactly 0 hit points, also after an overflow that
`EntityExact` excuses; `DeathIsFinal` rests on it. The facts about `Wrap` are
lemmas: it is the identity on ints and moves a number that is less than a range
away by the number of ints. `Arrays`: the second conjunct of `ReverseReturns` as
a state predicate is the invariant of the loop. A partial sum differs from the
exact one by a multiple of the number of ints (`SumsDiffer`), and two ints that do
so are equal.

`CStrings`: the properties speak of the call and of the return, the invariant
`StringsInv` of everything between. `Loop` describes `my_strcpy`: either some `k`
characters of a source that is still intact where it is read have been copied
(`Copied`), or the destination lies inside the source and the loop chases its own
terminator: no byte from `src` up to `dst` is 0 (`Chasing`), so it never ends and must
leave the buffer. `str_join` runs two such loops; the memory between them is a
copy of the first string into the block (`Before`), which leaves the buffer and so
the second string alone. `CallOK` ties the block's length to the lengths of the
arguments at the call, through the conversion to `int`: that is why the two sizes
suffice for lengths that are ints, and why a shorter block is always overrun, so
that the two functions never return a truncated string. `Mirrored` is the state
of `str_reverse` after `k` exchanges. Between calls no byte of an object is one
that was never written (`Clean`); `ReadersExact` rests on it, since `my_strcmp`
compares only what `(unsigned char)` tells apart.

`ContainerBench`: `BenchIInv` follows `main()` through its loops. `BenchControl` says
where it is, `BenchHeld` that the container holds exactly the keys inserted so far
and, once it is complete, every key with its value (for the sorted vector in the
order that `lower_bound` needs), `BenchSum` what the loop has added up, `BenchRows`
and `BenchSums` what the finished rows are. That the keys of every shuffle add up
to `N(N-1)/2` is proved without an induction over permutations: the sum of a set of
naturals is the number of pairs of an element and a smaller number (`Total`), so
the order does not matter; the numbers of a shuffle are different, so each adds
itself (`ShuffleAdds`), and together they are `0..N-1` (`SumComplete`).
Nothing is assumed of the cap: the scaled time stands for the whole multiples of it in
`N` (`WholeMultiples`, `LookupsStandFor`).

`BenchStats`: that a sorted rearrangement of the samples exists at all is part of
the proof (`StdSort`): the elements are ordered by value and then by place, and the
place of each in the result is the number of those before it. The rank of the value
at index `c` follows by counting: the `c` places before it hold nothing larger.

`Symbols`: the scan is a recursive function of the row; its closed form (the id is
that of the first row that equals the name, -1 while there is none) satisfies
the recursion because the pointer is set back before each comparison.

`FloatBits`: a pattern is sign, exponent and fraction, and has only one
decomposition into them (`FieldsOfPattern`, `PatternHasFields`); each function is
described by what it does to the fields, and the magnitudes follow by arithmetic.
The theorem leaves out what the three runs about floats refute: the last normal and
the top binade, the direction of a tie between two denormals, the sign of a NaN.

`Bits`: the invariant is that the variables are ints; the work is in the functions.
An int is determined by its bits (`BitsDetermine`), and every choice of bits is an
int (`BitsExist`), so `&`, `|` and `^` are total and an identity between masks is
shown bit by bit (`SameOnes`). `is_power_of_2` rests on the highest one of `a`
(`Highest`): it is also in `a - 1` unless `a` is a power of two. `bit_count` is the
cardinality of the set of ones (`CountIs`). `AddOkFollows` shows that the wrapped sum
of two numbers of one sign has the other sign exactly when it overflowed.

Induction over data is done without the induction theorems of the library,
whose operator parameter the provers cannot instantiate: a set of natural numbers
that is not empty has a least element (`LeastNumber`, from the well-foundedness
of `<`), so a least exception is examined (`UpTo`). A recursively defined function
is shown to exist by `LoopRuns`, with the step of the recursion given as a
function.

`CInt!PowerAssumption`, `Bits!BitPowers` and `FloatBits!FormatPowers` state facts of
arithmetic about powers of two, because `^` has no meaning to the provers; TLC
evaluates them in `small_parts`.

Only model-checked: liveness (`CallsReturn`, `CallsEnd`, `VerdictComes`,
`ThroughputDone`, `ServerStops`), which is out of this prover's reach. Every other
property of a passing run is a theorem.

## 5. Plan

Done so far: `ScopedFd` with `Ownership`, `Buffer`, `UniqueBuffer`, `ScopeGuard`,
`IntVec` and `LinkedList` against `Sequence`, the string functions, the functions
of `hello.c`, `PoolAllocator`, `Entity`, `Bits`, `FloatBits`, the symbol table, the
container benchmark and the statistics, `TestHarness`, the MPMC drivers and the
echo server; all safety properties and refinements of the passing runs are proved.

Left, in this order:

1. The drivers of `test_seqlock.cpp` and `test_spsc_queue.cpp` over external
   locks and queues.
2. The placeholders, when they are implemented.
