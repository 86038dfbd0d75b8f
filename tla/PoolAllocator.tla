--------------------------- MODULE PoolAllocator ---------------------------
(***************************************************************************)
(* The bump allocator of 03-stl-internals/exercises/ex3-pool-allocator/    *)
(* pool_allocator.hpp: one pool shared by the allocators of all types.     *)
(*                                                                         *)
(* size_t arithmetic is modulo Modulus (2^64 in the code, scaled down for  *)
(* TLC together with the pool).  Client contract: reset() is called        *)
(* "between independent tests", that is when nothing allocated from the    *)
(* pool is in use.                                                         *)
(***************************************************************************)
EXTENDS Naturals, FiniteSets

CONSTANTS
  POOL_SIZE, \* bytes in g_pool
  Modulus,   \* size_t values are 0..Modulus - 1
  TypeSizes, \* sizeof(T) of the types allocated
  Counts,    \* the n of allocate(n)
  MaxLive    \* bound on the blocks in use at a time

ASSUME PoolAssumption == POOL_SIZE \in Nat /\ Modulus \in Nat /\ 2 * POOL_SIZE < Modulus
ASSUME SizesAssumption == TypeSizes \subseteq Nat \ {0} /\ Counts \subseteq Nat
ASSUME BoundAssumption == MaxLive \in Nat

VARIABLES
  g_offset, \* the bump pointer
  inUse     \* blocks handed out and not deallocated: where, and how many bytes were asked for

vars == <<g_offset, inUse>>

Block(at, need, id) == [at |-> at, need |-> need, id |-> id]

(* n * sizeof(T), as size_t computes it.                                   *)
Bytes(n, size) == (n * size) % Modulus

(* The test before the throw.                                              *)
Overflows(offset, bytes) == (offset + bytes) % Modulus > POOL_SIZE

\* Mutant of Bumped: the element count is added, not the bytes.
BumpedByCount(offset, bytes) == IF bytes = 0 THEN offset ELSE offset + 1

(* The bump pointer after the block.                                       *)
Bumped(offset, bytes) == (offset + bytes) % Modulus

Init == g_offset = 0 /\ inUse = {}

(* allocate(n) of PoolAllocator<T>; the blocks are told apart by an id.    *)
allocate(n, size) ==
  LET bytes == Bytes(n, size)
  IN
  /\ Cardinality(inUse) < MaxLive
  /\ ~Overflows(g_offset, bytes)
  /\ g_offset' = Bumped(g_offset, bytes)
  /\ \E id \in 1..MaxLive :
       /\ \A b \in inUse : b.id # id
       /\ inUse' = inUse \cup {Block(g_offset, n * size, id)}

(* bad_alloc is thrown before anything is written.                         *)
allocate_throws(n, size) ==
  /\ Overflows(g_offset, Bytes(n, size))
  /\ UNCHANGED vars

(* deallocate is a no-op for the pool.                                     *)
deallocate(b) ==
  /\ inUse' = inUse \ {b}
  /\ UNCHANGED g_offset

reset ==
  /\ inUse = {}
  /\ g_offset' = 0
  /\ UNCHANGED inUse

Next ==
  \/ \E n \in Counts, size \in TypeSizes : allocate(n, size) \/ allocate_throws(n, size)
  \/ \E b \in inUse : deallocate(b)
  \/ reset

Spec == Init /\ [][Next]_vars

(* No request is so large that size_t arithmetic wraps (std::vector never
   makes one: it checks max_size() first).                                 *)
NoWrap == \A n \in Counts, size \in TypeSizes : n * size + POOL_SIZE < Modulus

----------------------------------------------------------------------------
TypeOK ==
  /\ g_offset \in 0..POOL_SIZE
  /\ inUse \subseteq [at : Nat, need : Nat, id : 1..MaxLive]

(***************************************************************************)
(* Every block in use lies below the bump pointer, the bump pointer inside *)
(* the pool, and no two blocks share a byte, whatever was deallocated or   *)
(* reset before.                                                           *)
(***************************************************************************)
Disjoint ==
  /\ g_offset <= POOL_SIZE
  /\ \A b \in inUse : b.at + b.need <= g_offset
  /\ \A b, c \in inUse :
       b # c => b.at + b.need <= c.at \/ c.at + c.need <= b.at

(***************************************************************************)
(* "Throw std::bad_alloc if the pool would overflow": a block that was     *)
(* handed out has the bytes that were asked for inside the pool.           *)
(***************************************************************************)
InsidePool == \A b \in inUse : b.at + b.need <= POOL_SIZE
============================================================================
