------------------------------- MODULE IntVec -------------------------------
(***************************************************************************)
(* int_vec_t, the dynamic array of 00-c-for-programmers/exercises/         *)
(* ex2-strings-and-arrays/strings.c, over malloc, realloc and free.        *)
(*                                                                         *)
(* A block is the sequence of its int cells; a cell nobody has written     *)
(* holds Garbage.  realloc may leave the block where it is or move it;     *)
(* with AllocMayFail it (and malloc) may also return NULL, and then it     *)
(* keeps the old block.  malloc(0) and realloc(p, 0) are implementation    *)
(* defined: NULL, the old block being freed, or a block without a cell.    *)
(* The sizes are size_t, so a capacity and a number of bytes are computed  *)
(* modulo Modulus: a block may have fewer cells than the capacity says.    *)
(* A store outside of an allocated block is undefined: the model stops     *)
(* with fault set.                                                         *)
(*                                                                         *)
(* Client contract (strings.h): vec_init comes first, vec_free last, and   *)
(* vec_pop and vec_get are called within the length.                       *)
(***************************************************************************)
EXTENDS Naturals, Sequences

CONSTANTS
  Blocks,       \* heap blocks
  NULL,         \* the null pointer
  Values,       \* the integers pushed
  Garbage,      \* content of a cell that was never written
  Void,         \* no argument, nothing returned
  IntSize,      \* sizeof(int)
  Modulus,      \* 2^w for the w bits of size_t
  InitCaps,     \* initial capacities the client asks for
  MaxLen,       \* bound on the length
  AllocMayFail  \* malloc and realloc may return NULL

ASSUME NullAssumption == NULL \notin Blocks
ASSUME ValuesAssumption == Garbage \notin Values
ASSUME SizeAssumption == IntSize \in Nat \ {0, 1} /\ Modulus \in Nat \ {0}
ASSUME CapsAssumption == InitCaps \subseteq 0..Modulus - 1 /\ MaxLen \in Nat
ASSUME FailAssumption == AllocMayFail \in BOOLEAN

VARIABLES
  alloc,    \* allocated blocks
  mem,      \* their cells
  ready,    \* between vec_init and vec_free
  data, length, capacity, \* the members of the vector
  fault,    \* undefined behaviour has happened
  last,     \* history: the last call that returned
  initial,  \* history: the capacity the vector began with
  peak,     \* history: the largest length since vec_init
  copied    \* history: cells realloc may have had to copy since vec_init

vec == <<data, length, capacity>>

history == <<last, initial, peak, copied>>

vars == <<alloc, mem, ready, vec, fault, history>>

Cells(n) == [i \in 1..n |-> Garbage]

(* c * sizeof(int), and the cells of a block of so many bytes.             *)
Bytes(c) == (c * IntSize) % Modulus

CellsOf(c) == Bytes(c) \div IntSize

Returns(op, arg, result) == last' = <<op, arg, result>>

Init ==
  /\ alloc = {}
  /\ mem = [b \in Blocks |-> <<>>]
  /\ ready = FALSE
  /\ data = NULL
  /\ length = 0
  /\ capacity = 0
  /\ fault = FALSE
  /\ last = <<"init", Void, Void>>
  /\ initial = 0
  /\ peak = 0
  /\ copied = 0

(* vec_init.  When malloc fails vec_free is called on the vector, and the
   two assignments that follow are made all the same.                      *)
vec_init(c) ==
  /\ ~ready /\ ~fault
  /\ \/ \E b \in Blocks \ alloc :
          /\ alloc' = alloc \cup {b}
          /\ mem' = [mem EXCEPT ![b] = Cells(CellsOf(c))]
          /\ data' = b
     \/ /\ AllocMayFail \/ Bytes(c) = 0
        /\ data' = NULL
        /\ UNCHANGED <<alloc, mem>>
  /\ length' = 0
  /\ capacity' = c
  /\ ready' = TRUE
  /\ initial' = c
  /\ peak' = 0
  /\ copied' = 0
  /\ Returns("init", Void, Void)
  /\ UNCHANGED fault

(* The store data[length] = val and length++ of vec_push.  b, n, c and m are
   the block, the length, the capacity and the heap at that point.         *)
Store(v, b, n, c, m) ==
  /\ b # NULL /\ n < Len(m[b])
  /\ mem' = [m EXCEPT ![b][n + 1] = v]
  /\ data' = b
  /\ length' = n + 1
  /\ capacity' = c
  /\ peak' = IF n + 1 > peak THEN n + 1 ELSE peak
  /\ Returns("push_back", v, Void)
  /\ UNCHANGED <<fault, ready, initial>>

BadStore(b, n, c, m) ==
  /\ b # NULL => n >= Len(m[b])
  /\ fault' = TRUE
  /\ mem' = m
  /\ data' = b
  /\ length' = n
  /\ capacity' = c
  /\ UNCHANGED <<ready, last, initial, peak>>

vec_push_fits(v) ==
  /\ ready /\ ~fault
  /\ length < MaxLen
  /\ length # capacity
  /\ Store(v, data, length, capacity, mem) \/ BadStore(data, length, capacity, mem)
  /\ UNCHANGED <<alloc, copied>>

\* Mutant of Grown: the array grows by one cell.
GrownByOne(c) == (c + 1) % Modulus

\* Mutant of Grown: full arrays of one cell are not grown.
GrownNotOne(c) == IF c = 1 THEN 1 ELSE (c * 2) % Modulus

(* The capacity a full array is given.                                     *)
Grown(c) == (c * 2) % Modulus

\* Mutant of Resized: realloc taken for malloc, the cells are not kept.
ResizedFresh(old, n) == Cells(n)

(* The cells after realloc from old to n cells, which may be fewer.        *)
Resized(old, n) ==
  IF n <= Len(old) THEN SubSeq(old, 1, n) ELSE old \o Cells(n - Len(old))

(* A full array, and realloc returns a block, moved or not.                *)
vec_push_grows(v) ==
  LET n == Grown(capacity)
      old == IF data = NULL THEN <<>> ELSE mem[data]
  IN
  /\ ready /\ ~fault
  /\ length < MaxLen
  /\ length = capacity
  /\ \E b \in (Blocks \ alloc) \cup ({data} \ {NULL}) :
       LET m == [x \in Blocks |-> IF x = b THEN Resized(old, CellsOf(n))
                                  ELSE IF x = data THEN <<>> ELSE mem[x]]
       IN  /\ alloc' = (alloc \ {data}) \cup {b}
           /\ Store(v, b, length, n, m) \/ BadStore(b, length, n, m)
  /\ copied' = copied + length

(* A full array, and realloc returns NULL: the only pointer to the old
   block is overwritten (unless the size was 0, which frees it), vec_free
   resets the members, and the store goes through NULL.                    *)
vec_push_fails(v) ==
  LET empty == Bytes(Grown(capacity)) = 0
      freed == IF empty THEN {data} ELSE {}
  IN
  /\ ready /\ ~fault
  /\ length < MaxLen
  /\ length = capacity
  /\ AllocMayFail \/ empty
  /\ alloc' = alloc \ freed
  /\ BadStore(NULL, 0, 0, [x \in Blocks |-> IF x \in freed THEN <<>> ELSE mem[x]])
  /\ UNCHANGED copied

(* --length                                                                *)
Popped == length - 1

(* data[--length]; the cells of the model count from 1.                    *)
vec_pop ==
  /\ ready /\ ~fault
  /\ length > 0
  /\ Returns("pop_back", Void, mem[data][length])
  /\ length' = Popped
  /\ UNCHANGED <<alloc, mem, ready, data, capacity, fault, initial, peak, copied>>

vec_get(i) ==
  /\ ready /\ ~fault
  /\ i < length
  /\ Returns("get", i, mem[data][i + 1])
  /\ UNCHANGED <<alloc, mem, ready, vec, fault, initial, peak, copied>>

\* Mutant of AfterFree: vec_free resets the members and frees nothing.
AfterFreeNothing == alloc

(* free(v->data)                                                           *)
AfterFree == alloc \ {data}

(* The pointer is left as it is.                                           *)
vec_free ==
  /\ ready /\ ~fault
  /\ alloc' = AfterFree
  /\ mem' = [b \in Blocks |-> IF b = data THEN <<>> ELSE mem[b]]
  /\ length' = 0
  /\ capacity' = 0
  /\ ready' = FALSE
  /\ Returns("free", Void, Void)
  /\ UNCHANGED <<data, fault, initial, peak, copied>>

Next ==
  \/ \E c \in InitCaps : vec_init(c)
  \/ \E v \in Values : vec_push_fits(v) \/ vec_push_grows(v) \/ vec_push_fails(v)
  \/ \E i \in 0..MaxLen - 1 : vec_get(i)
  \/ vec_pop
  \/ vec_free

Spec == Init /\ [][Next]_vars

----------------------------------------------------------------------------
TypeOK ==
  /\ alloc \subseteq Blocks
  /\ mem \in [Blocks -> Seq(Values \cup {Garbage})]
  /\ ready \in BOOLEAN
  /\ data \in Blocks \cup {NULL}
  /\ length \in 0..MaxLen
  /\ capacity \in Nat
  /\ fault \in BOOLEAN
  /\ initial \in InitCaps \cup {0}
  /\ peak \in 0..MaxLen
  /\ copied \in Nat

(* A capacity whose cells are more bytes than size_t can count.            *)
Wraps(c) == c * IntSize >= Modulus

(***************************************************************************)
(* Between vec_init and vec_free the vector owns the one allocated block,  *)
(* and the elements fit into the block and into the capacity; outside      *)
(* nothing is allocated.  The block has exactly capacity cells, unless     *)
(* vec_init was asked for more than size_t can count in bytes: then it has *)
(* fewer, and the capacity is never changed again (growing cannot make     *)
(* such a capacity, the push that tries stores outside at once).  The      *)
(* exceptions are a vector whose malloc failed and what is left after a    *)
(* store outside of the block.                                             *)
(***************************************************************************)
Shape ==
  /\ TypeOK
  /\ ~fault /\ (ready => data # NULL) =>
    /\ alloc = IF ready THEN {data} ELSE {}
    /\ ready => /\ length <= Len(mem[data]) /\ length <= capacity
                /\ ~Wraps(capacity) => Len(mem[data]) = capacity
                /\ Wraps(capacity) => Len(mem[data]) < capacity /\ capacity = initial

(***************************************************************************)
(* Doubling pays: whatever the pushes and pops, the cells ever copied by   *)
(* realloc and the capacity stay below twice the largest length there was  *)
(* (or the capacity is still the initial one).                             *)
(***************************************************************************)
Amortised ==
  ready /\ ~fault => /\ copied + initial <= capacity
                     /\ capacity = initial \/ capacity < 2 * peak

(***************************************************************************)
(* A store goes astray only if an allocation has failed, the vector was    *)
(* created without a cell, or the capacity, asked for or reached by        *)
(* doubling, is more than size_t can count in bytes: nothing else makes    *)
(* vec_push leave its block.                                               *)
(***************************************************************************)
FaultOnlyIfNoCell == fault => data = NULL \/ initial = 0 \/ Wraps(capacity)

(***************************************************************************)
(* vec_push appends: it never stores outside of its block ("Append val to  *)
(* the end of the vector. If the vector is full, double its capacity.",    *)
(* strings.h).                                                             *)
(***************************************************************************)
PushStaysInside == ~fault

Elements == IF length = 0 THEN <<>> ELSE SubSeq(mem[data], 1, length)

Abstract == INSTANCE Sequence WITH seq <- Elements

(***************************************************************************)
(* int_vec_t is a sequence: pushes append, vec_pop and vec_get give back   *)
(* what was pushed, across any number of reallocations and moves.  Only a  *)
(* push that stores outside of the block is no step of the sequence.       *)
(***************************************************************************)
ImplementsSequence ==
  /\ Abstract!Init
  /\ [][fault' \/ [Abstract!Next]_<<Elements, last>>]_vars
=============================================================================
