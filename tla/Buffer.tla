------------------------------- MODULE Buffer -------------------------------
(***************************************************************************)
(* Buffer of 02-modern-cpp/exercises/ex3-move-semantics/buffer.hpp: a heap *)
(* array with hand-written copy and move operations, and the heap under    *)
(* it.                                                                     *)
(*                                                                         *)
(* The heap is what the code can tell about new[] and delete[]: new[]      *)
(* hands out some block that is not allocated, the one deleted last not    *)
(* excepted; delete[] of the null pointer does nothing; delete[] of a      *)
(* block that is not allocated, and any access through such a pointer, is  *)
(* undefined, and the model stops there with fault set.  A constructor     *)
(* whose new[] throws leaves no object and no other trace: no step.        *)
(***************************************************************************)
EXTENDS Naturals, Sequences, FiniteSets

CONSTANTS
  Objects,            \* storage for Buffer objects
  Blocks,             \* heap blocks
  NULL,               \* the null pointer
  Sizes,              \* sizes asked for; also bounds the indices written
  Bytes,              \* values of one byte, 0 among them
  MaxCount,           \* bound on each counter, hence on copies and moves
  CopyAssignMayThrow, \* new[] may throw inside operator=(const Buffer&)
  SelfCopy            \* the client may write b = b

ASSUME SizesAssumption == Sizes \subseteq Nat
ASSUME BytesAssumption == 0 \in Bytes /\ Bytes \subseteq Nat
ASSUME NullAssumption == NULL \notin Blocks
ASSUME NullIsNoArray == NULL \notin UNION {[1..n -> Bytes] : n \in Sizes \cup {0}}
ASSUME SwitchAssumption == {CopyAssignMayThrow, SelfCopy} \subseteq BOOLEAN
ASSUME BoundAssumption == MaxCount \in Nat

VARIABLES
  alloc,     \* blocks that are allocated
  mem,       \* their bytes
  live,      \* objects whose lifetime has begun and not ended
  data_,     \* the pointer member of each object
  size_,     \* the size member
  s_copies_, \* the static counters
  s_moves_,
  fault,     \* undefined behaviour has happened
  threw      \* history: a copy assignment has been left by an exception

vars == <<alloc, mem, live, data_, size_, s_copies_, s_moves_, fault, threw>>

(* new uint8_t[n]{}                                                        *)
Zeros(n) == [i \in 1..n |-> 0]

Defined(p) == p \in alloc \cup {NULL}

(* The blocks left after delete[] p, and their bytes.                      *)
AfterDelete(p) == alloc \ {p}

Cleared(p) == [b \in Blocks |-> IF b = p THEN <<>> ELSE mem[b]]

Crash ==
  /\ fault' = TRUE
  /\ UNCHANGED <<alloc, mem, live, data_, size_, s_copies_, s_moves_, threw>>

Init ==
  /\ alloc = {}
  /\ mem = [b \in Blocks |-> <<>>]
  /\ live = {}
  /\ data_ = [o \in Objects |-> NULL]
  /\ size_ = [o \in Objects |-> 0]
  /\ s_copies_ = 0
  /\ s_moves_ = 0
  /\ fault = FALSE
  /\ threw = FALSE

(* Buffer(size_t): allocate and zero.                                      *)
Construct(o, n) ==
  /\ ~fault
  /\ o \notin live
  /\ \E b \in Blocks \ alloc :
       /\ alloc' = alloc \cup {b}
       /\ mem' = [mem EXCEPT ![b] = Zeros(n)]
       /\ data_' = [data_ EXCEPT ![o] = b]
  /\ size_' = [size_ EXCEPT ![o] = n]
  /\ live' = live \cup {o}
  /\ UNCHANGED <<s_copies_, s_moves_, fault, threw>>

(* ~Buffer: delete[] data_.                                                *)
Destroy(o) ==
  /\ ~fault
  /\ o \in live
  /\ \/ /\ Defined(data_[o])
        /\ alloc' = AfterDelete(data_[o])
        /\ mem' = Cleared(data_[o])
        /\ live' = live \ {o}
        /\ data_' = [data_ EXCEPT ![o] = NULL]
        /\ size_' = [size_ EXCEPT ![o] = 0]
        /\ UNCHANGED <<s_copies_, s_moves_, fault, threw>>
     \/ ~Defined(data_[o]) /\ Crash

(* operator[] as an lvalue, for an index below size().                     *)
Write(o, i, v) ==
  /\ ~fault
  /\ o \in live
  /\ i \in 1..size_[o]
  /\ \/ /\ data_[o] \in alloc
        /\ i \in DOMAIN mem[data_[o]]
        /\ mem' = [mem EXCEPT ![data_[o]][i] = v]
        /\ UNCHANGED <<alloc, live, data_, size_, s_copies_, s_moves_, fault, threw>>
     \/ /\ data_[o] \in alloc => i \notin DOMAIN mem[data_[o]]
        /\ Crash

(* What the loop of both copy operations leaves in the new block b of size
   other.size_: the bytes that other.data_ points to at that time.  Once
   this->data_ has been replaced, that is b itself if this is other.       *)
CopiedBytes(o, p) ==
  IF o = p \/ size_[p] = 0 THEN Zeros(size_[p]) ELSE SubSeq(mem[data_[p]], 1, size_[p])

(* The loop reads other's bytes through a dangling pointer: the block is no
   longer allocated, or belongs to somebody else and is too short.         *)
ReadsFreed(o, p) ==
  /\ o # p
  /\ size_[p] > 0
  /\ data_[p] \in alloc \ {data_[o]} => Len(mem[data_[p]]) < size_[p]

CopyConstruct(o, p) ==
  /\ ~fault
  /\ o \notin live
  /\ p \in live
  /\ s_copies_ < MaxCount
  /\ \/ /\ ~ReadsFreed(o, p)
        /\ \E b \in Blocks \ alloc :
             /\ alloc' = alloc \cup {b}
             /\ mem' = [mem EXCEPT ![b] = CopiedBytes(o, p)]
             /\ data_' = [data_ EXCEPT ![o] = b]
        /\ size_' = [size_ EXCEPT ![o] = size_[p]]
        /\ live' = live \cup {o}
        /\ s_copies_' = s_copies_ + 1
        /\ UNCHANGED <<s_moves_, fault, threw>>
     \/ ReadsFreed(o, p) /\ Crash

(* The blocks that survive the delete[] every assignment begins with.      *)
Kept(o) == AfterDelete(data_[o])

(* operator=(const Buffer&): delete[] first, then new[], which may return
   the same block or throw; nothing excludes o = p.                        *)
CopyAssign(o, p) ==
  /\ ~fault
  /\ {o, p} \subseteq live
  /\ o # p \/ SelfCopy
  /\ s_copies_ < MaxCount
  /\ \/ /\ Defined(data_[o]) /\ ~ReadsFreed(o, p)
        /\ \E b \in Blocks \ Kept(o) :
             /\ alloc' = Kept(o) \cup {b}
             /\ mem' = [Cleared(data_[o]) EXCEPT ![b] = CopiedBytes(o, p)]
             /\ data_' = [data_ EXCEPT ![o] = b]
        /\ size_' = [size_ EXCEPT ![o] = size_[p]]
        /\ s_copies_' = s_copies_ + 1
        /\ UNCHANGED <<live, s_moves_, fault, threw>>
     \/ (~Defined(data_[o]) \/ ReadsFreed(o, p)) /\ Crash

(* The exception leaves data_ and size_ as they were, the block is gone.   *)
CopyAssignThrows(o, p) ==
  /\ CopyAssignMayThrow
  /\ ~fault
  /\ {o, p} \subseteq live
  /\ o # p \/ SelfCopy
  /\ Defined(data_[o])
  /\ alloc' = Kept(o)
  /\ mem' = Cleared(data_[o])
  /\ threw' = TRUE
  /\ UNCHANGED <<live, data_, size_, s_copies_, s_moves_, fault>>

\* Mutant of StealPtr: the source keeps its pointer.
StealPtrShared(o, p) == [data_ EXCEPT ![o] = data_[p]]

(* Both moves: take data_ and size_, leave nullptr and 0 behind.           *)
StealPtr(o, p) == [data_ EXCEPT ![o] = data_[p], ![p] = NULL]

\* Mutant of StealSize: the source keeps its size.
StealSizeKept(o, p) == [size_ EXCEPT ![o] = size_[p]]

StealSize(o, p) == [size_ EXCEPT ![o] = size_[p], ![p] = 0]

MoveConstruct(o, p) ==
  /\ ~fault
  /\ o \notin live
  /\ p \in live
  /\ s_moves_ < MaxCount
  /\ data_' = StealPtr(o, p)
  /\ size_' = StealSize(o, p)
  /\ live' = live \cup {o}
  /\ s_moves_' = s_moves_ + 1
  /\ UNCHANGED <<alloc, mem, s_copies_, fault, threw>>

(* operator=(Buffer&&): delete[] first; with o = p the object ends empty.  *)
MoveAssign(o, p) ==
  /\ ~fault
  /\ {o, p} \subseteq live
  /\ s_moves_ < MaxCount
  /\ \/ /\ Defined(data_[o])
        /\ alloc' = Kept(o)
        /\ mem' = Cleared(data_[o])
        /\ data_' = StealPtr(o, p)
        /\ size_' = StealSize(o, p)
        /\ s_moves_' = s_moves_ + 1
        /\ UNCHANGED <<live, s_copies_, fault, threw>>
     \/ ~Defined(data_[o]) /\ Crash

reset_counters ==
  /\ ~fault
  /\ s_copies_' = 0
  /\ s_moves_' = 0
  /\ UNCHANGED <<alloc, mem, live, data_, size_, fault, threw>>

Next ==
  \/ reset_counters
  \/ \E o \in Objects :
       \/ Destroy(o)
       \/ \E n \in Sizes : Construct(o, n)
       \/ \E i \in Sizes, v \in Bytes : Write(o, i, v)
       \/ \E p \in Objects :
            \/ CopyConstruct(o, p)
            \/ CopyAssign(o, p)
            \/ CopyAssignThrows(o, p)
            \/ MoveConstruct(o, p)
            \/ MoveAssign(o, p)

Spec == Init /\ [][Next]_vars

----------------------------------------------------------------------------
TypeOK ==
  /\ alloc \subseteq Blocks
  /\ mem \in [Blocks -> UNION {[1..n -> Bytes] : n \in Sizes \cup {0}}]
  /\ live \subseteq Objects
  /\ data_ \in [Objects -> Blocks \cup {NULL}]
  /\ size_ \in [Objects -> Sizes \cup {0}]
  /\ s_copies_ \in 0..MaxCount
  /\ s_moves_ \in 0..MaxCount
  /\ fault \in BOOLEAN
  /\ threw \in BOOLEAN

(***************************************************************************)
(* As long as no copy assignment was left by an exception, every pointer   *)
(* of a live object is null or points to an allocated block of exactly     *)
(* size_ bytes that no other object points to, and nothing undefined has   *)
(* happened: a failed copy assignment is the only way to a dangling        *)
(* pointer or a double delete[].                                           *)
(***************************************************************************)
Exclusive ==
  ~threw =>
    /\ ~fault
    /\ \A o \in live :
         /\ data_[o] = NULL => size_[o] = 0
         /\ data_[o] # NULL => data_[o] \in alloc /\ Len(mem[data_[o]]) = size_[o]
    /\ \A o, p \in live : data_[o] = data_[p] /\ data_[o] # NULL => o = p

(***************************************************************************)
(* Every allocated block can still be reached from a live object, even     *)
(* after exceptions: no operation of Buffer leaks.                         *)
(***************************************************************************)
NoLeak == alloc \subseteq {data_[o] : o \in live}

(***************************************************************************)
(* Every allocated block has one owner, for every order of constructions,  *)
(* copies, moves and destructions.                                         *)
(***************************************************************************)
OwnedOnce == TypeOK /\ Exclusive /\ NoLeak

Value(o) ==
  IF o \notin live THEN NULL
  ELSE IF data_[o] = NULL THEN <<>> ELSE mem[data_[o]]

Contents == [o \in Objects |-> Value(o)]

Abstract ==
  INSTANCE BufferValues WITH
    Dead <- NULL,
    val <- Contents,
    copies <- s_copies_,
    moves <- s_moves_

(***************************************************************************)
(* Buffers are values: a write to one is never seen through another, a     *)
(* copy holds what its source holds and leaves the source as it was ("deep *)
(* copy from other"), a move leaves the source empty, and the counters say *)
(* how many of each there were.                                            *)
(***************************************************************************)
ImplementsValues == Abstract!Spec

(***************************************************************************)
(* The same with the two exceptions the code has: a step of the program is *)
(* a step of plain values unless it copies an object onto itself, or an    *)
(* exception has left a copy assignment.  In particular a block that was   *)
(* deleted and handed out again never connects two objects.                *)
(***************************************************************************)
ValuesUnlessExcused ==
  /\ Abstract!Init
  /\ [][\/ threw'
        \/ \E o \in Objects : CopyAssign(o, o)
        \/ [Abstract!Next]_<<Contents, s_copies_, s_moves_>>]_vars
=============================================================================
