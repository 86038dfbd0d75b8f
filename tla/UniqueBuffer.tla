---------------------------- MODULE UniqueBuffer ----------------------------
(***************************************************************************)
(* UniqueBuffer<T> of 02-modern-cpp/exercises/ex1-raii-ownership/          *)
(* ownership.hpp: a move-only heap array.                                  *)
(*                                                                         *)
(* The heap is shared by all threads, so a block that a move assignment    *)
(* has deleted may be handed out again before the assignment has replaced  *)
(* the pointer: the assignment is split at its delete[].  Objects are used *)
(* by one thread at a time.  A constructor whose new[] throws leaves no    *)
(* object: no step.                                                        *)
(***************************************************************************)
EXTENDS Naturals, FiniteSets

CONSTANTS
  Objects, \* storage for UniqueBuffer objects
  Blocks,  \* heap blocks
  NULL,
  Sizes    \* element counts asked for

ASSUME NullAssumption == NULL \notin Blocks
ASSUME ElementsAssumption == Sizes \subseteq Nat

VARIABLES
  alloc,  \* allocated blocks
  extent, \* their number of elements
  live,   \* objects whose lifetime has begun and not ended
  data_,  \* the members of each object
  size_,
  assign  \* the move assignments past their delete[]: pairs of this and other

uniqueVars == <<alloc, extent, live, data_, size_, assign>>

InUse(o) == \E a \in assign : o \in {a[1], a[2]}

UniqueInit ==
  /\ alloc = {}
  /\ extent = [b \in Blocks |-> 0]
  /\ live = {}
  /\ data_ = [o \in Objects |-> NULL]
  /\ size_ = [o \in Objects |-> 0]
  /\ assign = {}

Construct(o, n) ==
  /\ o \notin live
  /\ live' = live \cup {o}
  /\ size_' = [size_ EXCEPT ![o] = n]
  /\ \E b \in Blocks \ alloc :
       /\ alloc' = alloc \cup {b}
       /\ extent' = [extent EXCEPT ![b] = n]
       /\ data_' = [data_ EXCEPT ![o] = b]
  /\ UNCHANGED assign

(* delete[] data_; of the null pointer it does nothing.                    *)
Delete(o) ==
  /\ alloc' = alloc \ {data_[o]}
  /\ extent' = [b \in Blocks |-> IF b = data_[o] THEN 0 ELSE extent[b]]

Destroy(o) ==
  /\ o \in live
  /\ ~InUse(o)
  /\ Delete(o)
  /\ live' = live \ {o}
  /\ data_' = [data_ EXCEPT ![o] = NULL]
  /\ size_' = [size_ EXCEPT ![o] = 0]
  /\ UNCHANGED assign

\* Mutant of StealSize: only the pointer of the source is reset.
StealSizeKept(o, p) == [size_ EXCEPT ![o] = size_[p]]

StealSize(o, p) == [size_ EXCEPT ![o] = size_[p], ![p] = 0]

\* Mutant of StealPtr: the source is reset before its pointer is taken.
StealPtrLost(o, p) == [data_ EXCEPT ![o] = NULL, ![p] = NULL]

(* Both moves: take the members, leave nullptr and 0 in the source.        *)
StealPtr(o, p) == [data_ EXCEPT ![o] = data_[p], ![p] = NULL]

MoveConstruct(o, p) ==
  /\ o \notin live
  /\ p \in live
  /\ ~InUse(p)
  /\ data_' = StealPtr(o, p)
  /\ size_' = StealSize(o, p)
  /\ live' = live \cup {o}
  /\ UNCHANGED <<alloc, extent, assign>>

(* operator=(UniqueBuffer&&): free, then steal; o = p is not excluded.     *)
MoveAssign(o, p) ==
  /\ {o, p} \subseteq live
  /\ ~InUse(o) /\ ~InUse(p)
  /\ Delete(o)
  /\ assign' = assign \cup {<<o, p>>}
  /\ UNCHANGED <<live, data_, size_>>

MoveAssignEnd(a) ==
  /\ data_' = StealPtr(a[1], a[2])
  /\ size_' = StealSize(a[1], a[2])
  /\ assign' = assign \ {a}
  /\ UNCHANGED <<alloc, extent, live>>

UniqueNext ==
  \/ \E a \in assign : MoveAssignEnd(a)
  \/ \E o \in Objects :
       \/ Destroy(o)
       \/ \E n \in Sizes : Construct(o, n)
       \/ \E p \in Objects : MoveConstruct(o, p) \/ MoveAssign(o, p)

UniqueSpec == UniqueInit /\ [][UniqueNext]_uniqueVars

----------------------------------------------------------------------------
(* Between delete[] and the steal the target's members are out of date.    *)
Settled(o) == o \in live /\ \A a \in assign : a[1] # o

(***************************************************************************)
(* size() tells the truth: an object that no move assignment is rewriting  *)
(* has an allocated block with exactly size_ elements, or null and 0, so   *)
(* that operator[] below size() stays inside.                              *)
(***************************************************************************)
SizeMatches ==
  \A o \in Objects : Settled(o) =>
    \/ data_[o] = NULL /\ size_[o] = 0
    \/ data_[o] \in alloc /\ extent[data_[o]] = size_[o]

Holders(b) == {o \in Objects : Settled(o) /\ data_[o] = b}

OwnerOf(b) ==
  IF b \notin alloc THEN IF Holders(b) = {} THEN "nobody" ELSE "dangling"
  ELSE IF Cardinality(Holders(b)) = 1
         THEN CHOOSE o \in Holders(b) : TRUE
         ELSE "leaked or shared"

Abstract ==
  INSTANCE Ownership WITH
    Resources <- Blocks,
    Owners <- Objects,
    Nobody <- "nobody",
    owner <- [b \in Blocks |-> OwnerOf(b)]

(***************************************************************************)
(* UniqueBuffer implements single ownership of heap blocks: no leak, no    *)
(* double delete[], no block shared by two objects, and a step concerns    *)
(* one block only ("Move transfers data_ and size_, nulls the source").    *)
(***************************************************************************)
ImplementsOwnership == Abstract!Spec
=============================================================================
