---------------------------- MODULE CppPartsProof ----------------------------
(***************************************************************************)
(* Theorems about UniqueBuffer and ScopeGuard, the two other classes of    *)
(* ownership.hpp, for any number of objects, blocks and guards; about the  *)
(* bump allocator, for every pool size, every set of element types and     *)
(* every set of requests that do not wrap size_t; and about the symbol     *)
(* table, the statistics and the container benchmark, for every table, any *)
(* number of samples and any number of keys.                               *)
(*                                                                         *)
(* SizeMatches is not inductive: an operation that deletes a block must    *)
(* not disturb another object, so no two settled objects may share one,    *)
(* and the end of a move assignment must find its source settled, so no    *)
(* two assignments in progress may have an object in common.  CleanupOnce  *)
(* needs to know how the guards, the dismissed ids and the calls relate.   *)
(***************************************************************************)
EXTENDS UniqueBuffer, ScopeGuard, PoolAllocator, Symbols, BenchStats, ContainerBench,
        FiniteSetTheorems, TLAPS

UniqueTypeOK ==
  /\ alloc \subseteq Blocks
  /\ extent \in [Blocks -> Nat]
  /\ live \subseteq Objects
  /\ data_ \in [Objects -> Blocks \cup {NULL}]
  /\ size_ \in [Objects -> Nat]
  /\ assign \subseteq live \X live

(* No object takes part in two move assignments (the client contract).     *)
AssignsDisjoint ==
  \A a, c \in assign : a # c => {a[1], a[2]} \cap {c[1], c[2]} = {}

NoSharing ==
  \A o, p \in Objects :
    Settled(o) /\ Settled(p) /\ data_[o] = data_[p] /\ data_[o] # NULL => o = p

NoBlockLost == \A b \in alloc : \E o \in Objects : Settled(o) /\ data_[o] = b

UniqueIInv == UniqueTypeOK /\ AssignsDisjoint /\ SizeMatches /\ NoSharing /\ NoBlockLost

(***************************************************************************)
(* What the operations of UniqueBuffer do to the settled objects, one step *)
(* per operation and, below it, one per part of the invariant.             *)
(***************************************************************************)
LEMMA UniqueStep == UniqueIInv /\ [UniqueNext]_uniqueVars => UniqueIInv'
<1> SUFFICES ASSUME UniqueIInv, [UniqueNext]_uniqueVars PROVE UniqueIInv'
  OBVIOUS
<1>a. /\ alloc \subseteq Blocks
      /\ extent \in [Blocks -> Nat]
      /\ live \subseteq Objects
      /\ data_ \in [Objects -> Blocks \cup {NULL}]
      /\ size_ \in [Objects -> Nat]
      /\ assign \subseteq live \X live
  BY DEF UniqueIInv, UniqueTypeOK
<1>b. AssignsDisjoint
  BY DEF UniqueIInv
<1>c. /\ SizeMatches
      /\ NoSharing
      /\ NoBlockLost
  BY DEF UniqueIInv
<1>1. ASSUME NEW o \in Objects, NEW n \in Sizes, Construct(o, n) PROVE UniqueIInv'
  <2>1. PICK b \in Blocks \ alloc :
          /\ alloc' = alloc \cup {b}
          /\ extent' = [extent EXCEPT ![b] = n]
          /\ data_' = [data_ EXCEPT ![o] = b]
    BY <1>1 DEF Construct
  <2>2. /\ o \notin live /\ live' = live \cup {o}
        /\ size_' = [size_ EXCEPT ![o] = n]
        /\ assign' = assign
    BY <1>1 DEF Construct
  <2>3. UniqueTypeOK'
    BY <1>a, <2>1, <2>2, ElementsAssumption DEF UniqueTypeOK
  <2>4. \A x \in Objects \ {o} : Settled(x)' <=> Settled(x)
    BY <2>2 DEF Settled
  <2>5. AssignsDisjoint'
    BY <1>b, <2>2 DEF AssignsDisjoint
  <2>6. \A x \in Objects \ {o} : Settled(x) => data_[x] # b /\ data_'[x] = data_[x]
    BY <1>c, <2>1, <1>a, NullAssumption DEF SizeMatches
  <2>7. Settled(o)' /\ data_'[o] = b /\ ~Settled(o)
    <3>1. \A a \in assign : a[1] # o
      BY <1>a, <2>2
    <3>2. QED
      BY <1>a, <2>1, <2>2, <3>1 DEF Settled
  <2>8. SizeMatches'
    BY <1>a, <1>c, <2>1, <2>2, <2>4, <2>6, <2>7 DEF SizeMatches
  <2>9. NoSharing'
    BY <1>c, <2>4, <2>6, <2>7 DEF NoSharing
  <2>10. NoBlockLost'
    BY <1>c, <2>1, <2>4, <2>6, <2>7 DEF NoBlockLost
  <2>11. QED
    BY <2>3, <2>5, <2>8, <2>9, <2>10 DEF UniqueIInv
<1>2. ASSUME NEW o \in Objects, Destroy(o) PROVE UniqueIInv'
  <2>1. /\ o \in live /\ ~InUse(o) /\ live' = live \ {o}
        /\ alloc' = alloc \ {data_[o]}
        /\ extent' = [b \in Blocks |-> IF b = data_[o] THEN 0 ELSE extent[b]]
        /\ data_' = [data_ EXCEPT ![o] = NULL]
        /\ size_' = [size_ EXCEPT ![o] = 0]
        /\ assign' = assign
    BY <1>2 DEF Destroy, Delete
  <2>2. \A a \in assign : a[1] # o /\ a[2] # o
    BY <2>1 DEF InUse
  <2>3. UniqueTypeOK'
    BY <1>a, <2>1, <2>2 DEF UniqueTypeOK
  <2>4. AssignsDisjoint'
    BY <1>b, <2>1 DEF AssignsDisjoint
  <2>5. Settled(o) /\ ~Settled(o)'
    BY <2>1, <2>2 DEF Settled
  <2>6. \A x \in Objects \ {o} : Settled(x)' <=> Settled(x)
    BY <2>1 DEF Settled
  <2>7. \A x \in Objects \ {o} :
          data_'[x] = data_[x] /\ (Settled(x) /\ data_[x] # NULL => data_[x] # data_[o])
    BY <1>a, <1>c, <2>1, <2>5 DEF NoSharing
  <2>8. SizeMatches'
    <3>1. ASSUME NEW x \in Objects \ {o}, Settled(x), data_[x] # NULL
          PROVE  data_[x] \in alloc' /\ extent'[data_[x]] = size_[x]
      <4>1. data_[x] \in alloc /\ extent[data_[x]] = size_[x]
        BY <1>c, <3>1 DEF SizeMatches
      <4>2. data_[x] # data_[o]
        BY <2>7, <3>1
      <4>3. QED
        BY <1>a, <2>1, <4>1, <4>2
    <3>2. ASSUME NEW x \in Objects \ {o}, Settled(x), data_[x] = NULL PROVE size_[x] = 0
      BY <1>a, <1>c, <3>2, NullAssumption DEF SizeMatches
    <3>3. \A x \in Objects \ {o} : data_'[x] = data_[x] /\ size_'[x] = size_[x]
      BY <1>a, <2>1
    <3>4. QED
      BY <2>5, <2>6, <3>1, <3>2, <3>3 DEF SizeMatches
  <2>9. NoSharing'
    BY <1>c, <2>5, <2>6, <2>7 DEF NoSharing
  <2>10. NoBlockLost'
    BY <1>c, <2>1, <2>6, <2>7 DEF NoBlockLost
  <2>11. QED
    BY <2>3, <2>4, <2>8, <2>9, <2>10 DEF UniqueIInv
(* A pointer and its size move from the settled p to o, and p is left with
   null and 0.  With o = p that is all that is left.                       *)
<1>3. ASSUME NEW o \in Objects, NEW p \in Objects, ~Settled(o), o # p => Settled(p),
             Settled(o)', Settled(p)',
             \A x \in Objects \ {o, p} : Settled(x)' <=> Settled(x),
             data_' = StealPtr(o, p), size_' = StealSize(o, p),
             alloc' = alloc, extent' = extent
      PROVE  SizeMatches' /\ NoSharing' /\ NoBlockLost'
  <2>1. \A x \in Objects \ {o, p} : data_'[x] = data_[x] /\ size_'[x] = size_[x]
    BY <1>3, <1>a DEF StealPtr, StealSize
  <2>2. data_'[p] = NULL /\ size_'[p] = 0
    BY <1>3, <1>a DEF StealPtr, StealSize
  <2>3. o # p => data_'[o] = data_[p] /\ size_'[o] = size_[p]
    BY <1>3, <1>a DEF StealPtr, StealSize
  <2>4. SizeMatches'
    BY <1>3, <1>c, <2>1, <2>2, <2>3 DEF SizeMatches
  <2>5. NoSharing'
    BY <1>3, <1>c, <2>1, <2>2, <2>3 DEF NoSharing
  <2>6. ASSUME NEW b \in alloc PROVE \E x \in Objects : Settled(x)' /\ data_'[x] = b
    <3>1. PICK x \in Objects : Settled(x) /\ data_[x] = b
      BY <1>c DEF NoBlockLost
    <3>2. CASE x = p
      BY <1>3, <2>3, <3>1, <3>2
    <3>3. CASE x # p
      BY <1>3, <2>1, <3>1, <3>3
    <3>4. QED
      BY <3>2, <3>3
  <2>7. QED
    BY <1>3, <2>4, <2>5, <2>6 DEF NoBlockLost
<1>4. ASSUME NEW o \in Objects, NEW p \in Objects, MoveConstruct(o, p) PROVE UniqueIInv'
  <2>1. /\ o \notin live /\ p \in live /\ ~InUse(p) /\ live' = live \cup {o}
        /\ data_' = StealPtr(o, p) /\ size_' = StealSize(o, p)
        /\ alloc' = alloc /\ extent' = extent /\ assign' = assign
    BY <1>4 DEF MoveConstruct
  <2>2. UniqueTypeOK'
    BY <1>a, <2>1 DEF UniqueTypeOK, StealPtr, StealSize
  <2>3. AssignsDisjoint'
    BY <1>b, <2>1 DEF AssignsDisjoint
  <2>4. \A a \in assign : a[1] # o /\ a[1] # p
    BY <1>a, <2>1 DEF InUse
  <2>5. /\ ~Settled(o) /\ Settled(p) /\ Settled(o)' /\ Settled(p)'
        /\ \A x \in Objects \ {o, p} : Settled(x)' <=> Settled(x)
    BY <2>1, <2>4 DEF Settled
  <2>6. QED
    BY <1>3, <2>1, <2>2, <2>3, <2>5 DEF UniqueIInv
<1>5. ASSUME NEW o \in Objects, NEW p \in Objects, MoveAssign(o, p) PROVE UniqueIInv'
  <2>1. /\ o \in live /\ p \in live /\ ~InUse(o) /\ ~InUse(p)
        /\ alloc' = alloc \ {data_[o]}
        /\ extent' = [b \in Blocks |-> IF b = data_[o] THEN 0 ELSE extent[b]]
        /\ assign' = assign \cup {<<o, p>>}
        /\ live' = live /\ data_' = data_ /\ size_' = size_
    BY <1>5 DEF MoveAssign, Delete
  <2>2. \A a \in assign : {o, p} \cap {a[1], a[2]} = {}
    BY <2>1 DEF InUse
  <2>3. UniqueTypeOK'
    BY <1>a, <2>1 DEF UniqueTypeOK
  <2>4. AssignsDisjoint'
    <3>1. ASSUME NEW a \in assign', NEW c \in assign', a # c
          PROVE  {a[1], a[2]} \cap {c[1], c[2]} = {}
      <4>1. CASE a = <<o, p>>
        BY <2>1, <2>2, <3>1, <4>1
      <4>2. CASE c = <<o, p>>
        BY <2>1, <2>2, <3>1, <4>2
      <4>3. CASE a \in assign /\ c \in assign
        BY <1>b, <3>1, <4>3 DEF AssignsDisjoint
      <4>4. QED
        BY <2>1, <4>1, <4>2, <4>3
    <3>2. QED
      BY <3>1 DEF AssignsDisjoint
  <2>5. Settled(o) /\ ~Settled(o)'
    <3>1. \A a \in assign : a[1] # o
      BY <2>2
    <3>2. <<o, p>> \in assign' /\ <<o, p>>[1] = o
      BY <2>1
    <3>3. QED
      BY <2>1, <3>1, <3>2 DEF Settled
  <2>6. \A x \in Objects \ {o} : Settled(x)' <=> Settled(x)
    BY <2>1 DEF Settled
  <2>7. \A x \in Objects \ {o} : Settled(x) /\ data_[x] # NULL => data_[x] # data_[o]
    BY <1>c, <2>5 DEF NoSharing
  <2>8. SizeMatches'
    <3>1. ASSUME NEW x \in Objects \ {o}, Settled(x), data_[x] # NULL
          PROVE  data_[x] \in alloc' /\ extent'[data_[x]] = size_[x]
      <4>1. data_[x] \in alloc /\ extent[data_[x]] = size_[x]
        BY <1>c, <3>1 DEF SizeMatches
      <4>2. data_[x] # data_[o]
        BY <2>7, <3>1
      <4>3. QED
        BY <1>a, <2>1, <4>1, <4>2
    <3>2. ASSUME NEW x \in Objects \ {o}, Settled(x), data_[x] = NULL PROVE size_[x] = 0
      BY <1>a, <1>c, <3>2, NullAssumption DEF SizeMatches
    <3>3. \A x \in Objects \ {o} : data_'[x] = data_[x] /\ size_'[x] = size_[x]
      BY <1>a, <2>1
    <3>4. QED
      BY <2>5, <2>6, <3>1, <3>2, <3>3 DEF SizeMatches
  <2>9. NoSharing'
    BY <1>c, <2>1, <2>5, <2>6 DEF NoSharing
  <2>10. NoBlockLost'
    BY <1>c, <2>1, <2>6 DEF NoBlockLost
  <2>11. QED
    BY <2>3, <2>4, <2>8, <2>9, <2>10 DEF UniqueIInv
<1>6. ASSUME NEW a \in assign, MoveAssignEnd(a) PROVE UniqueIInv'
  <2>1. PICK o \in live, p \in live : a = <<o, p>>
    BY <1>a
  <2>2. /\ data_' = StealPtr(o, p) /\ size_' = StealSize(o, p)
        /\ assign' = assign \ {a}
        /\ alloc' = alloc /\ extent' = extent /\ live' = live
    BY <1>6, <2>1 DEF MoveAssignEnd
  <2>3. o \in Objects /\ p \in Objects
    BY <1>a
  <2>4. UniqueTypeOK'
    BY <1>a, <2>2, <2>3 DEF UniqueTypeOK, StealPtr, StealSize
  <2>5. AssignsDisjoint'
    BY <1>b, <2>2 DEF AssignsDisjoint
  <2>6. \A c \in assign \ {a} : c[1] # o /\ c[1] # p
    BY <1>b, <2>1 DEF AssignsDisjoint
  <2>7. ~Settled(o) /\ (o # p => Settled(p)) /\ Settled(o)' /\ Settled(p)'
    BY <2>1, <2>2, <2>6 DEF Settled
  <2>8. \A x \in Objects \ {o, p} : Settled(x)' <=> Settled(x)
    BY <2>1, <2>2 DEF Settled
  <2>9. QED
    BY <1>3, <2>2, <2>3, <2>4, <2>5, <2>7, <2>8 DEF UniqueIInv
<1>7. CASE UNCHANGED uniqueVars
  BY <1>7 DEF uniqueVars, UniqueIInv, UniqueTypeOK, AssignsDisjoint, SizeMatches, NoSharing,
              NoBlockLost, Settled
<1>8. QED
  BY <1>1, <1>2, <1>4, <1>5, <1>6, <1>7 DEF UniqueNext

(* The inductive invariant holds in every reachable state.                 *)
LEMMA UniqueInvariance == UniqueSpec => []UniqueIInv
<1>1. UniqueInit => UniqueIInv
  BY DEF UniqueInit, UniqueIInv, UniqueTypeOK, AssignsDisjoint, SizeMatches, NoSharing,
         NoBlockLost, Settled
<1>2. QED
  BY <1>1, UniqueStep, PTL DEF UniqueSpec

(***************************************************************************)
(* size() tells the truth about every UniqueBuffer that no move assignment *)
(* is rewriting: its block is allocated and has exactly size_ elements.    *)
(***************************************************************************)
THEOREM SizeTruthful == UniqueSpec => []SizeMatches
<1>1. UniqueIInv => SizeMatches
  BY DEF UniqueIInv
<1>2. QED
  BY <1>1, UniqueInvariance, PTL

(***************************************************************************)
(* The abstract owner of a block is the one settled object that has it.    *)
(***************************************************************************)
OneHolder ==
  \A b \in Blocks :
    IF b \in alloc
      THEN \E h \in Objects : Holders(b) = {h} /\ OwnerOf(b) = h
      ELSE Holders(b) = {} /\ OwnerOf(b) = "nobody"

(* Every block has at most one holder, so the owner in the abstract        *)
(* specification is well defined.                                          *)
LEMMA HasOneHolder == UniqueIInv => OneHolder
<1> SUFFICES ASSUME SizeMatches, NoSharing, NoBlockLost, NEW b \in Blocks
             PROVE  IF b \in alloc
                      THEN \E h \in Objects : Holders(b) = {h} /\ OwnerOf(b) = h
                      ELSE Holders(b) = {} /\ OwnerOf(b) = "nobody"
  BY DEF UniqueIInv, OneHolder
<1>1. b # NULL
  BY NullAssumption
<1>2. CASE b \notin alloc
  <2>1. Holders(b) = {}
    BY <1>1, <1>2 DEF Holders, SizeMatches
  <2>2. QED
    BY <1>2, <2>1 DEF OwnerOf
<1>3. CASE b \in alloc
  <2>1. PICK h \in Objects : Settled(h) /\ data_[h] = b
    BY <1>3 DEF NoBlockLost
  <2>2. Holders(b) = {h}
    BY <1>1, <2>1 DEF Holders, NoSharing
  <2>3. Cardinality(Holders(b)) = 1
    BY <2>2, FS_Singleton
  <2>4. OwnerOf(b) = CHOOSE o \in Holders(b) : TRUE
    BY <1>3, <2>3 DEF OwnerOf
  <2>5. OwnerOf(b) \in Holders(b)
    BY <2>2, <2>4
  <2>6. QED
    BY <1>3, <2>2, <2>5
<1>4. QED
  BY <1>2, <1>3

(***************************************************************************)
(* A step that leaves the holders of every block but b alone is a step of  *)
(* single ownership.                                                       *)
(***************************************************************************)
LEMMA OneBlock ==
  ASSUME OneHolder, OneHolder', NEW b,
         \A c \in Blocks \ {b} : Holders(c)' = Holders(c) /\ (c \in alloc' <=> c \in alloc)
  PROVE  [Abstract!Next]_[c \in Blocks |-> OwnerOf(c)]
<1> DEFINE owner == [c \in Blocks |-> OwnerOf(c)]
<1>1. ASSUME NEW c \in Blocks \ {b} PROVE OwnerOf(c)' = OwnerOf(c)
  <2>1. CASE c \in alloc
    <3>1. PICK h : Holders(c) = {h} /\ OwnerOf(c) = h
      BY <2>1 DEF OneHolder
    <3>2. PICK k : Holders(c)' = {k} /\ OwnerOf(c)' = k
      BY <2>1 DEF OneHolder
    <3>3. QED
      BY <3>1, <3>2
  <2>2. CASE c \notin alloc
    BY <2>2 DEF OneHolder
  <2>3. QED
    BY <2>1, <2>2
<1>2. owner' = [c \in Blocks |-> OwnerOf(c)']
  OBVIOUS
<1>3. CASE b \notin Blocks
  <2>1. owner' = owner
    BY <1>1, <1>2, <1>3
  <2>2. QED
    BY <2>1
<1>4. CASE b \in Blocks
  <2>1. owner' = [owner EXCEPT ![b] = OwnerOf(b)']
    <3>1. \A c \in Blocks : OwnerOf(c)' = IF c = b THEN OwnerOf(b)' ELSE OwnerOf(c)
      BY <1>1
    <3>2. owner' = [c \in Blocks |-> IF c = b THEN OwnerOf(b)' ELSE OwnerOf(c)]
      BY <1>2, <3>1
    <3>3. QED
      BY <3>2
  <2>2. owner[b] = OwnerOf(b)
    BY <1>4
  <2>3. OwnerOf(b) \in Objects \/ OwnerOf(b) = "nobody"
    BY <1>4 DEF OneHolder
  <2>4. OwnerOf(b)' \in Objects \/ OwnerOf(b)' = "nobody"
    BY <1>4 DEF OneHolder
  <2>5. CASE OwnerOf(b) = "nobody" /\ OwnerOf(b)' = "nobody"
    <3>1. owner' = owner
      BY <2>1, <2>2, <2>5
    <3>2. QED
      BY <3>1
  <2>6. CASE OwnerOf(b) = "nobody" /\ OwnerOf(b)' \in Objects
    <3>1. Abstract!Acquire(b, OwnerOf(b)')
      BY <2>1, <2>2, <2>6 DEF Abstract!Acquire
    <3>2. QED
      BY <1>4, <2>6, <3>1 DEF Abstract!Next
  <2>7. CASE OwnerOf(b) \in Objects /\ OwnerOf(b)' = "nobody"
    <3>1. Abstract!Dispose(b)
      BY <2>1, <2>2, <2>7 DEF Abstract!Dispose
    <3>2. QED
      BY <1>4, <3>1 DEF Abstract!Next
  <2>8. CASE OwnerOf(b) \in Objects /\ OwnerOf(b)' \in Objects
    <3>1. Abstract!Transfer(b, OwnerOf(b)')
      BY <2>1, <2>2, <2>8 DEF Abstract!Transfer
    <3>2. QED
      BY <1>4, <2>8, <3>1 DEF Abstract!Next
  <2>9. QED
    BY <2>3, <2>4, <2>5, <2>6, <2>7, <2>8
<1>5. QED
  BY <1>3, <1>4

(***************************************************************************)
(* Every operation touches the ownership of one block at most.             *)
(***************************************************************************)
LEMMA OwnershipStep ==
  ASSUME UniqueIInv, UniqueNext
  PROVE  \E b : \A c \in Blocks \ {b} : Holders(c)' = Holders(c) /\ (c \in alloc' <=> c \in alloc)
<1> DEFINE Same(c) ==
      /\ \A o \in Objects : Settled(o)' /\ data_'[o] = c <=> Settled(o) /\ data_[o] = c
      /\ c \in alloc' <=> c \in alloc
<1>a. SUFFICES \E b : \A c \in Blocks \ {b} : Same(c)
  <2>1. ASSUME NEW c, Same(c) PROVE Holders(c)' = Holders(c)
    BY <2>1 DEF Holders
  <2>2. QED
    BY <2>1
<1>b. /\ data_ \in [Objects -> Blocks \cup {NULL}]
      /\ live \subseteq Objects
      /\ assign \subseteq live \X live
      /\ AssignsDisjoint
  BY DEF UniqueIInv, UniqueTypeOK
<1>c. \A c \in Blocks : c # NULL
  BY NullAssumption
<1>1. ASSUME NEW o \in Objects, NEW n \in Sizes, Construct(o, n)
      PROVE  \E b : \A c \in Blocks \ {b} : Same(c)
  <2>1. PICK b \in Blocks \ alloc : alloc' = alloc \cup {b} /\ data_' = [data_ EXCEPT ![o] = b]
    BY <1>1 DEF Construct
  <2>2. o \notin live /\ live' = live \cup {o} /\ assign' = assign
    BY <1>1 DEF Construct
  <2>3. \A c \in Blocks \ {b} : Same(c)
    BY <1>b, <2>1, <2>2 DEF Settled
  <2>4. QED
    BY <2>3
<1>2. ASSUME NEW o \in Objects, Destroy(o) PROVE \A c \in Blocks \ {data_[o]} : Same(c)
  BY <1>2, <1>b, <1>c DEF Destroy, Delete, Settled
<1>3. ASSUME NEW o \in Objects, NEW p \in Objects, MoveConstruct(o, p)
      PROVE  \A c \in Blocks \ {data_[p]} : Same(c)
  BY <1>3, <1>b, <1>c DEF MoveConstruct, StealPtr, Settled
<1>4. ASSUME NEW o \in Objects, NEW p \in Objects, MoveAssign(o, p)
      PROVE  \A c \in Blocks \ {data_[o]} : Same(c)
  <2>1. /\ alloc' = alloc \ {data_[o]} /\ live' = live /\ data_' = data_
        /\ assign' = assign \cup {<<o, p>>}
    BY <1>4 DEF MoveAssign, Delete
  <2>2. \A x \in Objects \ {o} : Settled(x)' <=> Settled(x)
    BY <2>1 DEF Settled
  <2>3. QED
    BY <2>1, <2>2
<1>5. ASSUME NEW a \in assign, MoveAssignEnd(a)
      PROVE  \A c \in Blocks \ {data_[a[2]]} : Same(c)
  <2>1. PICK o \in live, p \in live : a = <<o, p>>
    BY <1>b
  <2>2. /\ data_' = StealPtr(o, p) /\ assign' = assign \ {a} /\ alloc' = alloc /\ live' = live
    BY <1>5, <2>1 DEF MoveAssignEnd
  <2>3. \A x \in Objects \ {o} : Settled(x)' <=> Settled(x)
    BY <2>1, <2>2 DEF Settled
  <2>4. ~Settled(o) /\ a[2] = p
    BY <2>1 DEF Settled
  <2>5. QED
    BY <1>b, <1>c, <2>1, <2>2, <2>3, <2>4 DEF StealPtr
<1>6. QED
  BY <1>1, <1>2, <1>3, <1>4, <1>5 DEF UniqueNext

(***************************************************************************)
(* UniqueBuffer implements single ownership: no leak, no double delete[],  *)
(* no sharing, although the heap may hand out the deleted block again in   *)
(* the middle of a move assignment, and a step concerns one block only.    *)
(***************************************************************************)
THEOREM OwnershipRefined == UniqueSpec => ImplementsOwnership
<1>1. UniqueInit => Abstract!Init
  BY DEF UniqueInit, Abstract!Init, OwnerOf, Holders, Settled
<1>2. UniqueIInv' => OneHolder'
  BY HasOneHolder, PTL
<1>3. UniqueIInv /\ UniqueIInv' /\ [UniqueNext]_uniqueVars
        => [Abstract!Next]_[b \in Blocks |-> OwnerOf(b)]
  <2>1. SUFFICES ASSUME UniqueIInv, UniqueIInv', [UniqueNext]_uniqueVars
                 PROVE  [Abstract!Next]_[b \in Blocks |-> OwnerOf(b)]
    OBVIOUS
  <2>2. CASE UniqueNext
    <3>1. PICK b : \A c \in Blocks \ {b} : Holders(c)' = Holders(c) /\ (c \in alloc' <=> c \in alloc)
      BY <2>1, <2>2, OwnershipStep
    <3>2. QED
      BY <2>1, <3>1, <1>2, HasOneHolder, OneBlock
  <2>3. CASE UNCHANGED uniqueVars
    BY <2>3 DEF uniqueVars, OwnerOf, Holders, Settled
  <2>4. QED
    BY <2>1, <2>2, <2>3
<1>4. QED
  BY <1>1, <1>3, UniqueInvariance, PTL DEF UniqueSpec, ImplementsOwnership, Abstract!Spec

-----------------------------------------------------------------------------
(* What relates the living guards, the dismissed ones and the calls made.  *)
Waiting == {guards[j].id : j \in 1..Len(guards)}

Due == ((1..born) \ Waiting) \ dismissed

GuardRecords == [id : Nat, active_ : BOOLEAN]

GuardTypeOK ==
  /\ born \in Nat
  /\ guards \in Seq(GuardRecords)
  /\ ran \in Seq(Nat)
  /\ dismissed \subseteq 1..born

GuardsOK ==
  /\ \A j \in 1..Len(guards) : guards[j].id \in 1..born
  /\ \A i, j \in 1..Len(guards) : guards[i].id = guards[j].id => i = j
  /\ \A j \in 1..Len(guards) : guards[j].active_ <=> guards[j].id \notin dismissed

CallsOK ==
  /\ \A i, j \in 1..Len(ran) : ran[i] = ran[j] => i = j
  /\ \A j \in 1..Len(ran) : ran[j] \in Due
  /\ \A g \in Due : \E j \in 1..Len(ran) : ran[j] = g

GuardIInv == GuardTypeOK /\ GuardsOK /\ CallsOK

(***************************************************************************)
(* What is left of a sequence when its last element is removed.            *)
(***************************************************************************)
LEMMA FrontOf ==
  ASSUME NEW S, NEW s \in Seq(S), Len(s) > 0
  PROVE  /\ SubSeq(s, 1, Len(s) - 1) \in Seq(S)
         /\ Len(SubSeq(s, 1, Len(s) - 1)) = Len(s) - 1
         /\ \A j \in 1..(Len(s) - 1) : SubSeq(s, 1, Len(s) - 1)[j] = s[j]
<1>1. Len(s) - 1 \in Nat
  OBVIOUS
<1>2. SubSeq(s, 1, Len(s) - 1) = [j \in 1..(Len(s) - 1) |-> s[j]]
  BY <1>1
<1>3. \A j \in 1..(Len(s) - 1) : s[j] \in S
  OBVIOUS
<1>4. [j \in 1..(Len(s) - 1) |-> s[j]] \in Seq(S)
  BY <1>1, <1>3
<1> DEFINE n == Len(s) - 1
<1> DEFINE t == [j \in 1..n |-> s[j]]
<1>5. n \in Nat /\ t \in Seq(S) /\ Len(t) = n /\ \A j \in 1..n : t[j] = s[j]
  BY <1>1, <1>4
<1>6. SubSeq(s, 1, n) = t
  BY <1>2
<1> HIDE DEF t
<1>7. QED
  BY <1>5, <1>6

(***************************************************************************)
(* Every step of a program with guards keeps their bookkeeping: destroying *)
(* the innermost guard adds its id to the calls exactly when it is active. *)
(***************************************************************************)
LEMMA GuardStep == GuardIInv /\ [GuardNext]_guardVars => GuardIInv'
<1> SUFFICES ASSUME GuardIInv, [GuardNext]_guardVars PROVE GuardIInv'
  OBVIOUS
<1>a. /\ born \in Nat
      /\ guards \in Seq(GuardRecords)
      /\ ran \in Seq(Nat)
      /\ dismissed \subseteq 1..born
      /\ Len(guards) \in Nat
      /\ Len(ran) \in Nat
  BY DEF GuardIInv, GuardTypeOK
<1>b. GuardsOK /\ CallsOK
  BY DEF GuardIInv
<1>1. CASE MakeGuard
  <2> DEFINE g == [id |-> born + 1, active_ |-> TRUE]
  <2>1. /\ guards' = Append(guards, g) /\ born' = born + 1
        /\ ran' = ran /\ dismissed' = dismissed
    BY <1>1 DEF MakeGuard
  <2>2. g \in GuardRecords /\ g.id = born + 1 /\ g.active_
    BY <1>a DEF GuardRecords
  <2> HIDE DEF g
  <2>3. GuardTypeOK'
    BY <1>a, <2>1, <2>2 DEF GuardTypeOK
  <2>4. /\ Len(guards') = Len(guards) + 1
        /\ \A j \in 1..Len(guards) : guards'[j] = guards[j]
        /\ guards'[Len(guards) + 1] = g
    BY <1>a, <2>1, <2>2
  <2>5. GuardsOK'
    BY <1>a, <1>b, <2>1, <2>2, <2>4 DEF GuardsOK
  <2>6. Waiting' = Waiting \cup {born + 1}
    <3>1. \A x : x \in Waiting <=> \E j \in 1..Len(guards) : x = guards[j].id
      BY DEF Waiting
    <3>2. \A x : x \in Waiting' <=> \E j \in 1..(Len(guards) + 1) : x = guards'[j].id
      BY <2>4 DEF Waiting
    <3>3. \A j : j \in 1..(Len(guards) + 1) <=> j \in 1..Len(guards) \/ j = Len(guards) + 1
      BY <1>a
    <3>4. \A x : x \in Waiting' <=> x \in Waiting \/ x = born + 1
      BY <3>1, <3>2, <3>3, <2>2, <2>4
    <3>5. QED
      BY <3>4
  <2>7. Due' = Due
    BY <1>a, <2>1, <2>6 DEF Due
  <2>8. CallsOK'
    BY <1>b, <2>1, <2>7 DEF CallsOK
  <2>9. QED
    BY <2>3, <2>5, <2>8 DEF GuardIInv
<1>2. ASSUME NEW k \in DOMAIN guards, dismiss(k) PROVE GuardIInv'
  <2>1. k \in 1..Len(guards)
    BY <1>a
  <2>2. /\ guards' = [guards EXCEPT ![k].active_ = FALSE]
        /\ dismissed' = dismissed \cup {guards[k].id}
        /\ ran' = ran /\ born' = born
    BY <1>2 DEF dismiss
  <2>3. guards[k] \in GuardRecords /\ guards[k].id \in 1..born
    BY <1>a, <1>b, <2>1 DEF GuardsOK
  <2> DEFINE g == [guards[k] EXCEPT !.active_ = FALSE]
  <2>4. g \in GuardRecords /\ g.id = guards[k].id /\ ~g.active_
    BY <2>3 DEF GuardRecords
  <2>5. guards' = [guards EXCEPT ![k] = g]
    BY <2>2
  <2> HIDE DEF g
  <2>6. /\ guards' \in Seq(GuardRecords)
        /\ Len(guards') = Len(guards)
        /\ \A j \in 1..Len(guards) : guards'[j] = IF j = k THEN g ELSE guards[j]
    BY <1>a, <2>1, <2>4, <2>5
  <2>7. GuardTypeOK'
    BY <1>a, <2>2, <2>3, <2>6 DEF GuardTypeOK
  <2>8. \A j \in 1..Len(guards) : guards'[j].id = guards[j].id
    BY <2>4, <2>6
  <2>9. GuardsOK'
    <3>1. ASSUME NEW j \in 1..Len(guards)
          PROVE  guards'[j].active_ <=> guards'[j].id \notin dismissed'
      <4>1. CASE j = k
        <5>1. guards'[j] = g
          BY <2>6, <4>1
        <5>2. ~guards'[j].active_
          BY <2>4, <5>1
        <5>3. guards'[j].id \in dismissed'
          BY <2>2, <2>4, <5>1
        <5>4. QED
          BY <5>2, <5>3
      <4>2. CASE j # k
        <5>1. guards'[j] = guards[j]
          BY <2>6, <4>2
        <5>2. guards[j].id # guards[k].id
          BY <1>b, <2>1, <4>2 DEF GuardsOK
        <5>3. guards[j].active_ <=> guards[j].id \notin dismissed
          BY <1>b DEF GuardsOK
        <5>4. guards[j].id \in dismissed' <=> guards[j].id \in dismissed
          BY <2>2, <5>2
        <5>5. QED
          BY <5>1, <5>3, <5>4
      <4>3. QED
        BY <4>1, <4>2
    <3>2. QED
      BY <1>b, <2>2, <2>6, <2>8, <3>1 DEF GuardsOK
  <2>10. Waiting' = Waiting
    BY <2>6, <2>8 DEF Waiting
  <2>11. Due' = Due
    BY <2>1, <2>2, <2>10 DEF Due, Waiting
  <2>12. CallsOK'
    BY <1>b, <2>2, <2>11 DEF CallsOK
  <2>13. QED
    BY <2>7, <2>9, <2>12 DEF GuardIInv
<1>3. CASE DestroyGuard
  <2> DEFINE n == Len(guards)
  <2> DEFINE g == guards[n]
  <2>1. n \in Nat /\ n > 0
    <3>1. guards # <<>>
      BY <1>3 DEF DestroyGuard
    <3>2. QED
      BY <1>a, <3>1
  <2>2. /\ ran' = IF g.active_ THEN Append(ran, g.id) ELSE ran
        /\ guards' = SubSeq(guards, 1, n - 1)
        /\ dismissed' = dismissed /\ born' = born
    BY <1>3 DEF DestroyGuard, Runs
  <2>3. g \in GuardRecords /\ g.id \in 1..born
    <3>1. n \in 1..Len(guards)
      BY <2>1
    <3>2. QED
      BY <1>a, <1>b, <3>1 DEF GuardsOK
  <2>4. g.active_ <=> g.id \notin dismissed
    BY <1>b, <2>1 DEF GuardsOK
  <2>5. /\ guards' \in Seq(GuardRecords)
        /\ Len(guards') = n - 1
        /\ \A j \in 1..(n - 1) : guards'[j] = guards[j]
    BY <1>a, <2>1, <2>2, FrontOf
  <2>6. \A j \in 1..(n - 1) : guards[j].id # g.id
    BY <1>b, <2>1 DEF GuardsOK
  <2>7. g.id \in Waiting
    BY <2>1 DEF Waiting
  <2>8. GuardsOK'
    <3>1. \A j \in 1..(n - 1) : j \in 1..n
      BY <2>1
    <3>2. QED
      BY <1>b, <2>2, <2>5, <3>1 DEF GuardsOK
  <2>9. Waiting' = Waiting \ {g.id}
    <3>1. \A x : x \in Waiting <=> \E j \in 1..n : x = guards[j].id
      BY DEF Waiting
    <3>2. \A x : x \in Waiting' <=> \E j \in 1..(n - 1) : x = guards[j].id
      BY <2>1, <2>5 DEF Waiting
    <3>3. \A j \in 1..n : j = n \/ j \in 1..(n - 1)
      BY <2>1
    <3>4. \A j \in 1..(n - 1) : j \in 1..n
      BY <2>1
    <3> HIDE DEF n
    <3>5. \A x : x \in Waiting' <=> x \in Waiting /\ x # g.id
      BY <3>1, <3>2, <3>3, <3>4, <2>6
    <3>6. QED
      BY <3>5
  <2> DEFINE r == g.id
  <2>10. CASE g.active_
    <3>1. ran' = Append(ran, r)
      BY <2>2, <2>10
    <3>2. r \in Nat /\ r \in 1..born /\ r \notin dismissed /\ r \in Waiting
      BY <2>3, <2>4, <2>7, <2>10
    <3>3. Due' = Due \cup {r} /\ r \notin Due
      BY <2>2, <2>9, <3>2 DEF Due
    <3> HIDE DEF r
    <3>4. /\ ran' \in Seq(Nat)
          /\ Len(ran') = Len(ran) + 1
          /\ \A j \in 1..Len(ran) : ran'[j] = ran[j]
          /\ ran'[Len(ran) + 1] = r
      BY <1>a, <3>1, <3>2
    <3>5. GuardTypeOK'
      BY <1>a, <2>2, <2>5, <3>4 DEF GuardTypeOK
    <3>6. CallsOK'
      <4>1. \A j \in 1..Len(ran) : ran[j] # r
        BY <1>b, <3>3 DEF CallsOK
      <4>2. \A j \in 1..Len(ran') : j \in 1..Len(ran) \/ j = Len(ran) + 1
        BY <1>a, <3>4
      <4>3. \A i, j \in 1..Len(ran') : ran'[i] = ran'[j] => i = j
        BY <1>b, <3>4, <4>1, <4>2 DEF CallsOK
      <4>4. \A j \in 1..Len(ran') : ran'[j] \in Due'
        BY <1>b, <3>3, <3>4, <4>2 DEF CallsOK
      <4>5. ASSUME NEW h \in Due' PROVE \E j \in 1..Len(ran') : ran'[j] = h
        <5>1. CASE h = r
          BY <1>a, <3>4, <5>1
        <5>2. CASE h \in Due
          <6>1. PICK j \in 1..Len(ran) : ran[j] = h
            BY <1>b, <5>2 DEF CallsOK
          <6>2. j \in 1..Len(ran') /\ ran'[j] = h
            BY <1>a, <3>4, <6>1
          <6>3. QED
            BY <6>2
        <5>3. QED
          BY <3>3, <5>1, <5>2
      <4>6. QED
        BY <4>3, <4>4, <4>5 DEF CallsOK
    <3>7. QED
      BY <2>8, <3>5, <3>6 DEF GuardIInv
  <2>11. CASE ~g.active_
    <3>1. ran' = ran
      BY <2>2, <2>11
    <3>2. Due' = Due
      BY <2>2, <2>4, <2>9, <2>11 DEF Due
    <3>3. CallsOK'
      BY <1>b, <3>1, <3>2 DEF CallsOK
    <3>4. GuardTypeOK'
      BY <1>a, <2>2, <2>5, <3>1 DEF GuardTypeOK
    <3>5. QED
      BY <2>8, <3>3, <3>4 DEF GuardIInv
  <2>12. QED
    BY <2>10, <2>11
<1>4. CASE UNCHANGED <<guards, ran, dismissed, born>>
  BY <1>4 DEF GuardIInv, GuardTypeOK, GuardsOK, CallsOK, Due, Waiting
<1>5. QED
  BY <1>1, <1>2, <1>3, <1>4 DEF GuardNext, Throw, Catch, Terminated, guardVars

(***************************************************************************)
(* ~ScopeGuard calls each cleanup exactly once, at the end of its guard's  *)
(* life, and never after dismiss(): for any number of nested guards,       *)
(* exceptions and dismissals.                                              *)
(***************************************************************************)
THEOREM CleanupsRunOnce == GuardSpec => []CleanupOnce
<1>1. GuardInit => GuardIInv
  BY DEF GuardInit, GuardIInv, GuardTypeOK, GuardsOK, CallsOK, Due, Waiting
<1>2. GuardIInv => CleanupOnce
  <2>1. SUFFICES ASSUME GuardIInv, NEW g \in 1..born
                 PROVE  Cardinality({j \in DOMAIN ran : ran[j] = g}) = IF g \in Due THEN 1 ELSE 0
    BY SMTT(30) DEF CleanupOnce, Due, Waiting, GuardIInv, GuardTypeOK
  <2> DEFINE C == {j \in 1..Len(ran) : ran[j] = g}
  <2>2. DOMAIN ran = 1..Len(ran)
    BY <2>1 DEF GuardIInv, GuardTypeOK
  <2>3. CASE g \in Due
    <3>1. PICK j \in 1..Len(ran) : ran[j] = g
      BY <2>1, <2>3 DEF GuardIInv, CallsOK
    <3>2. C = {j}
      BY <2>1, <3>1 DEF GuardIInv, CallsOK
    <3>3. QED
      BY <2>2, <2>3, <3>2, FS_Singleton
  <2>4. CASE g \notin Due
    <3>1. C = {}
      BY <2>1, <2>4 DEF GuardIInv, CallsOK
    <3>2. QED
      BY <2>2, <2>4, <3>1, FS_EmptySet
  <2>5. QED
    BY <2>3, <2>4
<1>3. QED
  BY <1>1, <1>2, GuardStep, PTL DEF GuardSpec

-----------------------------------------------------------------------------
(* The pool allocator.                                                     *)


(***************************************************************************)
(* What allocate() computes when its arithmetic does not wrap.             *)
(***************************************************************************)
LEMMA PlainArithmetic ==
  ASSUME NoWrap, NEW n \in Counts, NEW size \in TypeSizes, NEW offset \in 0..POOL_SIZE
  PROVE  /\ n * size \in Nat
         /\ Bytes(n, size) = n * size
         /\ Overflows(offset, Bytes(n, size)) <=> offset + n * size > POOL_SIZE
         /\ Bumped(offset, Bytes(n, size)) = offset + n * size
<1> DEFINE k == n * size
<1>1. n \in Nat /\ size \in Nat
  BY SizesAssumption
<1>2. k \in Nat
  BY <1>1
<1>3. k + POOL_SIZE < Modulus
  BY DEF NoWrap
<1> HIDE DEF k
<1>4. ASSUME NEW x \in Nat, x < Modulus PROVE x % Modulus = x
  BY <1>4, PoolAssumption
<1>5. k % Modulus = k /\ (offset + k) % Modulus = offset + k
  BY <1>2, <1>3, <1>4, PoolAssumption
<1> USE DEF k
<1>6. QED
  BY <1>2, <1>5 DEF Bytes, Overflows, Bumped

(***************************************************************************)
(* The bump pointer stays inside the pool and the blocks in use stay well  *)
(* formed.                                                                 *)
(***************************************************************************)
LEMMA PoolTypeStep == NoWrap /\ TypeOK /\ [Next]_vars => TypeOK'
<1> SUFFICES ASSUME NoWrap, TypeOK, [Next]_vars PROVE TypeOK'
  OBVIOUS
<1>1. ASSUME NEW n \in Counts, NEW size \in TypeSizes, allocate(n, size) PROVE TypeOK'
  <2>1. g_offset \in 0..POOL_SIZE
    BY DEF TypeOK
  <2>2. /\ n * size \in Nat
        /\ g_offset + n * size <= POOL_SIZE
        /\ g_offset' = g_offset + n * size
    BY <1>1, <2>1, PlainArithmetic, PoolAssumption DEF allocate
  <2>3. g_offset' \in 0..POOL_SIZE
    BY <2>1, <2>2, PoolAssumption
  <2>4. PICK i \in 1..MaxLive : inUse' = inUse \cup {Block(g_offset, n * size, i)}
    BY <1>1 DEF allocate
  <2>5. Block(g_offset, n * size, i) \in [at : Nat, need : Nat, id : 1..MaxLive]
    BY <2>1, <2>2, PoolAssumption DEF Block
  <2>6. QED
    BY <2>3, <2>4, <2>5 DEF TypeOK
<1>2. ASSUME NEW n \in Counts, NEW size \in TypeSizes, allocate_throws(n, size) PROVE TypeOK'
  BY <1>2 DEF allocate_throws, TypeOK, vars
<1>3. ASSUME NEW b \in inUse, deallocate(b) PROVE TypeOK'
  BY <1>3 DEF deallocate, TypeOK
<1>4. CASE reset
  BY <1>4, PoolAssumption DEF reset, TypeOK
<1>5. CASE UNCHANGED vars
  BY <1>5 DEF vars, TypeOK
<1>6. QED
  BY <1>1, <1>2, <1>3, <1>4, <1>5 DEF Next

(***************************************************************************)
(* A new block starts at the bump pointer, which no block in use reaches   *)
(* beyond: this is why blocks never overlap.                               *)
(***************************************************************************)
LEMMA DisjointStep == NoWrap /\ TypeOK /\ Disjoint /\ [Next]_vars => Disjoint'
<1> SUFFICES ASSUME NoWrap, TypeOK, Disjoint, [Next]_vars PROVE Disjoint'
  OBVIOUS
<1>1. ASSUME NEW n \in Counts, NEW size \in TypeSizes, allocate(n, size) PROVE Disjoint'
  <2>1. g_offset \in 0..POOL_SIZE
    BY DEF TypeOK
  <2>2. n * size \in Nat /\ g_offset' = g_offset + n * size
    BY <1>1, <2>1, PlainArithmetic DEF allocate
  <2>3. PICK i \in 1..MaxLive : inUse' = inUse \cup {Block(g_offset, n * size, i)}
    BY <1>1 DEF allocate
  <2> DEFINE new == Block(g_offset, n * size, i)
  <2>4. new.at = g_offset /\ new.at + new.need = g_offset'
    BY <2>2 DEF Block
  <2>5. \A b \in inUse : b.at \in Nat /\ b.need \in Nat /\ b.at + b.need <= g_offset
    BY DEF TypeOK, Disjoint
  <2>6. \A b \in inUse : b.at + b.need <= g_offset'
    BY <2>1, <2>2, <2>5, PoolAssumption
  <2> HIDE DEF new
  <2>7. \A b \in inUse' : b.at + b.need <= g_offset'
    BY <2>1, <2>2, <2>3, <2>4, <2>6, PoolAssumption DEF new
  <2>8. ASSUME NEW b \in inUse', NEW c \in inUse', b # c
        PROVE  b.at + b.need <= c.at \/ c.at + c.need <= b.at
    BY <2>3, <2>4, <2>5, <2>8 DEF new, Disjoint
  <2>9. g_offset' <= POOL_SIZE
    BY PoolTypeStep, PoolAssumption DEF TypeOK
  <2>10. QED
    BY <2>7, <2>8, <2>9 DEF Disjoint
<1>2. ASSUME NEW n \in Counts, NEW size \in TypeSizes, allocate_throws(n, size) PROVE Disjoint'
  BY <1>2 DEF allocate_throws, Disjoint, vars
<1>3. ASSUME NEW b \in inUse, deallocate(b) PROVE Disjoint'
  BY <1>3 DEF deallocate, Disjoint
<1>4. CASE reset
  BY <1>4, PoolAssumption DEF reset, Disjoint
<1>5. CASE UNCHANGED vars
  BY <1>5 DEF vars, Disjoint
<1>6. QED
  BY <1>1, <1>2, <1>3, <1>4, <1>5 DEF Next

(***************************************************************************)
(* Blocks in use never overlap and never leave the allocated part of the   *)
(* pool, which lies inside the pool, as long as no request wraps size_t.   *)
(***************************************************************************)
THEOREM NoOverlap == ASSUME NoWrap PROVE Spec => []Disjoint
<1>1. Init => TypeOK /\ Disjoint
  BY PoolAssumption DEF Init, TypeOK, Disjoint
<1>2. TypeOK /\ Disjoint /\ [Next]_vars => (TypeOK /\ Disjoint)'
  BY PoolTypeStep, DisjointStep
<1>3. QED
  BY <1>1, <1>2, PTL DEF Spec
-----------------------------------------------------------------------------
(* Facts about numbers and permutations.                                   *)

(* A set that contains 0 and, with every number below n, its successor,    *)
(* contains all numbers up to n: otherwise there is a least exception.     *)
LEMMA Reached ==
  ASSUME NEW n \in Nat, NEW T, 0 \in T,
         \A m \in 1..n : m - 1 \in T => m \in T
  PROVE  \A m \in 0..n : m \in T
<1> DEFINE S == {m \in 0..n : m \notin T}
<1>1. SUFFICES ASSUME S # {} PROVE FALSE
  OBVIOUS
<1>2. S \in SUBSET Nat
  OBVIOUS
<1>3. IsWellFoundedOn(OpToRel(<, Nat), Nat)
  BY NatLessThanWellFounded
<1>4. PICK m \in S : \A k \in S : ~(<<k, m>> \in OpToRel(<, Nat))
  BY <1>1, <1>2, <1>3, WFMin
<1>5. \A k \in S : ~(k < m)
  BY <1>2, <1>4 DEF OpToRel
<1>6. m \in 0..n /\ m \notin T /\ m # 0
  BY <1>4
<1>7. m \in 1..n /\ m - 1 \in 0..n /\ m - 1 < m
  BY <1>6
<1>8. m - 1 \in T
  BY <1>5, <1>7
<1> QED
  BY <1>6, <1>7, <1>8

(* A set of natural numbers that is not empty has a least element.         *)
LEMMA LeastNumber ==
  ASSUME NEW S \in SUBSET Nat, S # {}
  PROVE  \E m \in S : \A k \in S : m <= k
<1>1. IsWellFoundedOn(OpToRel(<, Nat), Nat)
  BY NatLessThanWellFounded
<1>2. PICK m \in S : \A k \in S : ~(<<k, m>> \in OpToRel(<, Nat))
  BY <1>1, WFMin
<1>3. \A k \in S : ~(k < m)
  BY <1>2 DEF OpToRel
<1>4. \A k \in S : m <= k
  BY <1>3
<1> QED
  BY <1>4

(* Min chooses it.                                                         *)
LEMMA MinIsLeast ==
  ASSUME NEW S \in SUBSET Nat, S # {}
  PROVE  Min(S) \in S /\ \A k \in S : Min(S) <= k
<1>1. \E m \in S : \A k \in S : m <= k
  BY LeastNumber
<1> QED
  BY <1>1 DEF Min

(* The initial parts of the numbers have the size they should have.        *)
LEMMA InitialSegment ==
  ASSUME NEW n \in Nat
  PROVE  IsFiniteSet(1..n) /\ Cardinality(1..n) = n
<1>1. /\ IsFiniteSet(1..n)
      /\ Cardinality(1..n) = IF 1 > n THEN 0 ELSE n - 1 + 1
  BY FS_Interval
<1>2. (IF 1 > n THEN 0 ELSE n - 1 + 1) = n
  OBVIOUS
<1> QED
  BY <1>1, <1>2

(* A shuffle leaves no number out.                                         *)
LEMMA PermutationOnto ==
  ASSUME NEW n \in Nat, NEW S, IsFiniteSet(S), Cardinality(S) = n,
         NEW s \in [1..n -> S], IsInjective(s)
  PROVE  \A v \in S : \E j \in 1..n : s[j] = v
<1>1. s \in Injection(1..n, S)
  BY DEF Injection
<1>2. Cardinality(1..n) = Cardinality(S)
  BY InitialSegment
<1>3. s \in Surjection(1..n, S)
  BY <1>1, <1>2, FS_Injection
<1> QED
  BY <1>3 DEF Surjection

-----------------------------------------------------------------------------
(* std::sort.                                                              *)

(* k comes no later than j in the ascending order of s that keeps the      *)
(* order of equal elements.                                                *)
Precedes(s, k, j) == s[k] < s[j] \/ (s[k] = s[j] /\ k <= j)

Predecessors(s, j) == {k \in 1..Len(s) : Precedes(s, k, j)}

(* Precedes is a total order, so the place of an element grows along it.   *)
LEMMA PlaceGrows ==
  ASSUME NEW s \in Seq(Int), NEW j \in 1..Len(s), NEW k \in 1..Len(s),
         j # k, Precedes(s, j, k)
  PROVE  Cardinality(Predecessors(s, j)) < Cardinality(Predecessors(s, k))
<1>1. IsFiniteSet(1..Len(s))
  BY InitialSegment
<1>2. \A x \in 1..Len(s) : s[x] \in Int /\ x \in Int
  OBVIOUS
<1>3. Predecessors(s, j) \in SUBSET Predecessors(s, k)
  BY <1>2 DEF Predecessors, Precedes
<1>4. k \in Predecessors(s, k)
  BY <1>2 DEF Predecessors, Precedes
<1>5. k \notin Predecessors(s, j)
  BY <1>2 DEF Predecessors, Precedes
<1>6. IsFiniteSet(Predecessors(s, k))
  <2>1. Predecessors(s, k) \in SUBSET (1..Len(s))
    BY DEF Predecessors
  <2> QED
    BY <1>1, <2>1, FS_Subset
<1>7. IsFiniteSet(Predecessors(s, j))
  BY <1>3, <1>6, FS_Subset
<1>8. /\ Cardinality(Predecessors(s, j)) <= Cardinality(Predecessors(s, k))
      /\ Cardinality(Predecessors(s, j)) # Cardinality(Predecessors(s, k))
  BY <1>3, <1>4, <1>5, <1>6, FS_Subset
<1>9. Cardinality(Predecessors(s, j)) \in Nat /\ Cardinality(Predecessors(s, k)) \in Nat
  BY <1>6, <1>7, FS_CardinalityType
<1> QED
  BY <1>8, <1>9

(* The place of each element is a number of the vector's range.            *)
LEMMA PlaceInRange ==
  ASSUME NEW s \in Seq(Int), NEW j \in 1..Len(s)
  PROVE  Cardinality(Predecessors(s, j)) \in 1..Len(s)
<1>1. IsFiniteSet(1..Len(s)) /\ Cardinality(1..Len(s)) = Len(s)
  BY InitialSegment
<1>2. Predecessors(s, j) \in SUBSET (1..Len(s))
  BY DEF Predecessors
<1>3. /\ IsFiniteSet(Predecessors(s, j))
      /\ Cardinality(Predecessors(s, j)) <= Len(s)
  BY <1>1, <1>2, FS_Subset
<1>4. j \in Predecessors(s, j)
  BY DEF Predecessors, Precedes
<1>5. Cardinality(Predecessors(s, j)) # 0
  BY <1>3, <1>4, FS_EmptySet
<1>6. Cardinality(Predecessors(s, j)) \in Nat
  BY <1>3, FS_CardinalityType
<1> QED
  BY <1>3, <1>5, <1>6

(* t has the elements of s, p saying where each comes from, ascending.     *)
Sorts(s, t, p) ==
  /\ p \in [1..Len(s) -> 1..Len(s)]
  /\ IsInjective(p)
  /\ t = [j \in 1..Len(s) |-> s[p[j]]]
  /\ \A j, k \in 1..Len(s) : j < k => t[j] <= t[k]

(* Every vector of integers can be sorted: the element of place r goes to  *)
(* index r.                                                                *)
LEMMA SortExists ==
  ASSUME NEW s \in Seq(Int)
  PROVE  \E t, p : Sorts(s, t, p)
<1> DEFINE n == Len(s)
           place == [j \in 1..n |-> Cardinality(Predecessors(s, j))]
<1>1. n \in Nat /\ IsFiniteSet(1..n) /\ Cardinality(1..n) = n
  BY InitialSegment
<1>2. place \in [1..n -> 1..n]
  BY PlaceInRange
<1>3. \A j \in 1..n : place[j] = Cardinality(Predecessors(s, j))
  OBVIOUS
<1>d. \A j \in 1..n : s[j] \in Int /\ j \in Int /\ place[j] \in Int
  BY <1>2
<1> HIDE DEF n, place
<1>4. \A j, k \in 1..n : j # k /\ Precedes(s, j, k) => place[j] < place[k]
  BY <1>3, PlaceGrows DEF n
<1>5. \A j, k \in 1..n : Precedes(s, j, k) \/ Precedes(s, k, j)
  BY <1>d DEF Precedes
<1>6. IsInjective(place)
  <2>1. ASSUME NEW j \in 1..n, NEW k \in 1..n, place[j] = place[k] PROVE j = k
    BY <1>4, <1>5, <1>d, <2>1
  <2> QED
    BY <1>2, <2>1 DEF IsInjective
<1>7. \A r \in 1..n : \E j \in 1..n : place[j] = r
  <2>1. PICK S : S = 1..n
    OBVIOUS
  <2>2. /\ IsFiniteSet(S)
        /\ Cardinality(S) = n
        /\ place \in [1..n -> S]
    BY <1>1, <1>2, <2>1
  <2>3. \A v \in S : \E j \in 1..n : place[j] = v
    BY <1>1, <1>6, <2>2, PermutationOnto
  <2> QED
    BY <2>1, <2>3
<1> DEFINE p == [r \in 1..n |-> CHOOSE j \in 1..n : place[j] = r]
           t == [r \in 1..n |-> s[p[r]]]
<1>8. \A r \in 1..n : p[r] \in 1..n /\ place[p[r]] = r
  BY <1>7
<1>9. p \in [1..n -> 1..n]
  BY <1>8
<1>10. \A r \in 1..n : t[r] = s[p[r]]
  OBVIOUS
<1> HIDE DEF p
<1>11. IsInjective(p)
  BY <1>8, <1>9 DEF IsInjective
<1>12. ASSUME NEW j \in 1..n, NEW k \in 1..n, j < k PROVE t[j] <= t[k]
  <2>1. SUFFICES ASSUME ~(s[p[j]] <= s[p[k]]) PROVE FALSE
    BY <1>10
  <2>2. p[j] \in 1..n /\ p[k] \in 1..n /\ place[p[j]] = j /\ place[p[k]] = k
    BY <1>8
  <2>3. s[p[k]] < s[p[j]]
    BY <2>1, <2>2, <1>d
  <2>4. Precedes(s, p[k], p[j]) /\ p[k] # p[j]
    BY <2>2, <2>3, <1>d DEF Precedes
  <2>5. k < j
    BY <1>4, <2>2, <2>4
  <2> QED
    BY <1>12, <2>5
<1>13. Sorts(s, t, p)
  BY <1>9, <1>11, <1>12 DEF Sorts, n
<1> QED
  BY <1>13

(* So std_sort sorts.                                                      *)
LEMMA StdSort ==
  ASSUME NEW s \in Seq(Int)
  PROVE  \E p : Sorts(s, std_sort(s), p)
<1>1. PICK t, p : Sorts(s, t, p)
  BY SortExists
<1>2. DOMAIN s = 1..Len(s)
  OBVIOUS
<1>3. p \in {q \in [DOMAIN s -> DOMAIN s] : IsInjective(q)}
  BY <1>1, <1>2 DEF Sorts
<1>4. t \in Rearranged(s)
  BY <1>1, <1>2, <1>3 DEF Sorts, Rearranged
<1>5. \A j, k \in DOMAIN s : j < k => t[j] <= t[k]
  BY <1>1, <1>2 DEF Sorts
<1>6. /\ std_sort(s) \in Rearranged(s)
      /\ \A j, k \in DOMAIN s : j < k => std_sort(s)[j] <= std_sort(s)[k]
  BY <1>4, <1>5, Zenon DEF std_sort
<1>7. PICK q \in [DOMAIN s -> DOMAIN s] :
        IsInjective(q) /\ std_sort(s) = [j \in DOMAIN s |-> s[q[j]]]
  BY <1>6 DEF Rearranged
<1>8. Sorts(s, std_sort(s), q)
  BY <1>2, <1>6, <1>7 DEF Sorts
<1> QED
  BY <1>8

-----------------------------------------------------------------------------
(* The symbol table.                                                       *)

(* A bounded set of natural numbers has a greatest element, which Max      *)
(* chooses.                                                                *)
LEMMA MaxIsGreatest ==
  ASSUME NEW n \in Nat, NEW S \in SUBSET (0..n), S # {}
  PROVE  Max(S) \in S /\ \A k \in S : k <= Max(S)
<1> DEFINE R == {k \in 0..n : n - k \in S}
<1>1. R \in SUBSET Nat
  OBVIOUS
<1>2. R # {}
  <2>1. PICK x \in S : TRUE
    OBVIOUS
  <2>2. x \in 0..n
    BY <2>1
  <2>3. n - x \in 0..n /\ n - (n - x) = x
    BY <2>2
  <2>4. n - x \in R
    BY <2>1, <2>3
  <2> QED
    BY <2>4
<1>3. PICK m \in R : \A k \in R : m <= k
  BY <1>1, <1>2, LeastNumber
<1>4. m \in 0..n /\ n - m \in S
  BY <1>3
<1>5. ASSUME NEW x \in S PROVE n - m >= x
  <2>1. x \in 0..n /\ n - x \in 0..n /\ n - (n - x) = x
    BY <1>5
  <2>2. n - x \in R
    BY <1>5, <2>1
  <2>3. m <= n - x
    BY <1>3, <2>2
  <2> QED
    BY <1>4, <2>1, <2>3
<1>6. \E y \in S : \A x \in S : y >= x
  BY <1>4, <1>5
<1>7. Max(S) \in S /\ \A x \in S : Max(S) >= x
  BY <1>6, Zenon DEF Max
<1>8. \A x \in S : x \in Int
  OBVIOUS
<1>9. ASSUME NEW x \in S PROVE x <= Max(S)
  BY <1>7, <1>8
<1> QED
  BY <1>7, <1>9

(* The loop over the characters ends at the end of both strings exactly    *)
(* when they are the same.                                                 *)
LEMMA MatchedIsEquality ==
  ASSUME NEW t \in Seq(Letters), NEW s \in Seq(Letters)
  PROVE  (Matched(t, s) = Len(t) /\ Matched(t, s) = Len(s)) <=> t = s
<1>1. PICK S : S = {k \in 0..Min({Len(t), Len(s)}) : SubSeq(t, 1, k) = SubSeq(s, 1, k)}
  OBVIOUS
<1>2. PICK n \in Nat : n = Min({Len(t), Len(s)}) /\ n <= Len(t) /\ n <= Len(s)
                       /\ (n = Len(t) \/ n = Len(s))
  <2>1. PICK P : P = {Len(t), Len(s)}
    OBVIOUS
  <2>2. P \in SUBSET Nat /\ P # {} /\ Len(t) \in P /\ Len(s) \in P
    BY <2>1
  <2>3. Min(P) \in P /\ \A k \in P : Min(P) <= k
    BY <2>2, MinIsLeast
  <2>4. Min(P) \in Nat /\ Min(P) <= Len(t) /\ Min(P) <= Len(s)
        /\ (Min(P) = Len(t) \/ Min(P) = Len(s))
    BY <2>1, <2>2, <2>3
  <2> QED
    BY <2>1, <2>4
<1>3. S \in SUBSET (0..n)
  BY <1>1, <1>2
<1>4. 0 \in S
  <2>1. SubSeq(t, 1, 0) = <<>> /\ SubSeq(s, 1, 0) = <<>>
    OBVIOUS
  <2> QED
    BY <1>1, <1>2, <2>1
<1>5. Max(S) \in S /\ \A k \in S : k <= Max(S)
  BY <1>3, <1>4, MaxIsGreatest
<1>6. Matched(t, s) = Max(S)
  BY <1>1 DEF Matched
<1>7. PICK k \in 0..n : k = Matched(t, s) /\ k \in S /\ \A j \in S : j <= k
  BY <1>3, <1>5, <1>6
<1>8. ASSUME k = Len(t), k = Len(s) PROVE t = s
  <2>1. SubSeq(t, 1, k) = SubSeq(s, 1, k)
    BY <1>1, <1>7
  <2>2. SubSeq(t, 1, Len(t)) = t
    OBVIOUS
  <2>3. SubSeq(s, 1, Len(s)) = s
    OBVIOUS
  <2> QED
    BY <1>8, <2>1, <2>2, <2>3, Zenon
<1>9. ASSUME t = s PROVE k = Len(t) /\ k = Len(s)
  <2>1. n = Len(t) /\ n = Len(s)
    BY <1>2, <1>9
  <2>2. SubSeq(t, 1, n) = SubSeq(s, 1, n)
    BY <1>9, Zenon
  <2>3. n \in S
    <3>1. n \in 0..n
      OBVIOUS
    <3>2. S = {j \in 0..n : SubSeq(t, 1, j) = SubSeq(s, 1, j)}
      BY <1>1, <1>2
    <3> QED
      BY <2>2, <3>1, <3>2, Zenon
  <2>4. n <= k /\ k <= n
    BY <1>7, <2>3
  <2> QED
    BY <1>7, <2>1, <2>4
<1> QED
  BY <1>7, <1>8, <1>9

(* What symbol_id starts an entry with: the pointer at the start.          *)
Fresh == [at |-> 0, id |-> -1]

(* An entry of the table that is reached.                                  *)
LEMMA CompareIs ==
  ASSUME NEW t \in Seq(Letters), NEW s \in Seq(Letters), NEW row \in Int
  PROVE  Compare(Fresh, t, row, s) = [at |-> 0, id |-> IF t = s THEN row - 1 ELSE -1]
<1>1. SubSeq(s, Fresh.at + 1, Len(s)) = s
  BY DEF Fresh
<1>2. PICK k : k = Matched(t, s)
  OBVIOUS
<1>3. Compare(Fresh, t, row, s)
      = [at |-> 0, id |-> IF k = Len(t) /\ k = Len(s) THEN row - 1 ELSE -1]
  BY <1>1, <1>2 DEF Compare, Rewound
<1>4. (k = Len(t) /\ k = Len(s)) <=> t = s
  BY <1>2, MatchedIsEquality
<1> QED
  BY <1>3, <1>4

(* The id of s in the first rows of the table.                             *)
Known(s, row) ==
  IF \E r \in 1..row : SYMBOL_TABLE[r] = s
  THEN (CHOOSE r \in 1..row : SYMBOL_TABLE[r] = s) - 1
  ELSE -1

(* A row that has the name determines the id: no two rows have it.         *)
LEMMA KnownIs ==
  ASSUME NEW s, NEW row \in 0..Len(SYMBOL_TABLE)
  PROVE  /\ \A r \in 1..row : SYMBOL_TABLE[r] = s => Known(s, row) = r - 1
         /\ (\A r \in 1..row : SYMBOL_TABLE[r] # s) => Known(s, row) = -1
<1>1. DOMAIN SYMBOL_TABLE = 1..Len(SYMBOL_TABLE) /\ Len(SYMBOL_TABLE) \in Nat
  BY TableAssumption
<1>2. ASSUME NEW r \in 1..row, SYMBOL_TABLE[r] = s PROVE Known(s, row) = r - 1
  <2>1. PICK c : c = CHOOSE x \in 1..row : SYMBOL_TABLE[x] = s
    OBVIOUS
  <2>2. c \in 1..row /\ SYMBOL_TABLE[c] = s
    BY <1>2, <2>1, Zenon
  <2>3. c \in DOMAIN SYMBOL_TABLE /\ r \in DOMAIN SYMBOL_TABLE
    BY <1>1, <2>2
  <2>4. c = r
    BY <1>2, <2>2, <2>3, TableAssumption DEF IsInjective
  <2> QED
    BY <1>2, <2>1, <2>4 DEF Known
<1>3. ASSUME \A r \in 1..row : SYMBOL_TABLE[r] # s PROVE Known(s, row) = -1
  BY <1>3 DEF Known
<1> QED
  BY <1>2, <1>3

(* One more row.                                                           *)
LEMMA KnownStep ==
  ASSUME NEW s, NEW row \in 1..Len(SYMBOL_TABLE)
  PROVE  Known(s, row) = IF Known(s, row - 1) # -1 THEN Known(s, row - 1)
                         ELSE IF SYMBOL_TABLE[row] = s THEN row - 1 ELSE -1
<1>1. PICK k : k \in 0..Len(SYMBOL_TABLE) /\ k = row - 1 /\ row \in 0..Len(SYMBOL_TABLE)
  OBVIOUS
<1>2. \A r \in 1..row : r \in 1..k \/ r = row
  BY <1>1
<1>3. \A r \in 1..k : r \in 1..row /\ r - 1 # -1
  BY <1>1
<1>4. row \in 1..row /\ row - 1 # -1
  OBVIOUS
<1>5. CASE \E r \in 1..k : SYMBOL_TABLE[r] = s
  <2>1. PICK r \in 1..k : SYMBOL_TABLE[r] = s
    BY <1>5
  <2>2. Known(s, k) = r - 1
    BY <1>1, <2>1, KnownIs
  <2>3. Known(s, row) = r - 1
    BY <1>1, <1>3, <2>1, KnownIs
  <2> QED
    BY <1>1, <1>3, <2>1, <2>2, <2>3
<1>6. CASE ~(\E r \in 1..k : SYMBOL_TABLE[r] = s)
  <2>1. Known(s, k) = -1
    BY <1>1, <1>6, KnownIs
  <2>2. CASE SYMBOL_TABLE[row] = s
    <3>1. Known(s, row) = row - 1
      BY <1>1, <1>4, <2>2, KnownIs
    <3> QED
      BY <1>1, <2>1, <2>2, <3>1
  <2>3. CASE SYMBOL_TABLE[row] # s
    <3>1. \A r \in 1..row : SYMBOL_TABLE[r] # s
      BY <1>2, <1>6, <2>3
    <3>2. Known(s, row) = -1
      BY <1>1, <3>1, KnownIs
    <3> QED
      BY <1>1, <2>1, <2>3, <3>2
  <2> QED
    BY <2>2, <2>3
<1> QED
  BY <1>5, <1>6

(* The loop over the table.                                                *)
LEMMA SymbolId ==
  ASSUME NEW s \in Seq(Letters)
  PROVE  symbol_id(s) = Known(s, Len(SYMBOL_TABLE))
<1> DEFINE L == Len(SYMBOL_TABLE)
           Row(g, row) == IF row = 0 THEN [at |-> 0, id |-> -1]
                          ELSE IF g[row - 1].id # -1 THEN g[row - 1]
                          ELSE Compare(g[row - 1], SYMBOL_TABLE[row], row, s)
           Rec(g) == g = [row \in 0..L |-> Row(g, row)]
           Good(row) == [at |-> 0, id |-> Known(s, row)]
<1>1. L \in Nat /\ \A row \in 1..L : SYMBOL_TABLE[row] \in Seq(Letters)
  <2>1. PICK S : S = Seq(Letters) \ {<<>>}
    OBVIOUS
  <2>2. SYMBOL_TABLE \in Seq(S)
    BY <2>1, TableAssumption
  <2> QED
    BY <2>1, <2>2
<1>2. symbol_id(s) = (CHOOSE g : Rec(g))[L].id
  BY DEF symbol_id
<1> HIDE DEF L
<1>3. Good(0) = Fresh
  <2>1. PICK z \in 0..Len(SYMBOL_TABLE) : z = 0
    BY <1>1 DEF L
  <2>2. Known(s, z) = -1
    BY <2>1, KnownIs
  <2> QED
    BY <2>1, <2>2 DEF Fresh
<1>4. ASSUME NEW g, NEW row \in 1..L, g[row - 1] = Good(row - 1)
      PROVE  Row(g, row) = Good(row)
  <2>1. Known(s, row) = IF Known(s, row - 1) # -1 THEN Known(s, row - 1)
                        ELSE IF SYMBOL_TABLE[row] = s THEN row - 1 ELSE -1
    BY KnownStep DEF L
  <2>2. row \in Int /\ row # 0
    BY <1>1
  <2>3. g[row - 1].id = Known(s, row - 1)
    BY <1>4
  <2>4. CASE Known(s, row - 1) # -1
    BY <1>4, <2>1, <2>2, <2>3, <2>4
  <2>5. CASE Known(s, row - 1) = -1
    <3>1. g[row - 1] = Fresh
      BY <1>4, <2>5 DEF Fresh
    <3>2. Row(g, row) = Compare(Fresh, SYMBOL_TABLE[row], row, s)
      BY <2>2, <2>3, <2>5, <3>1
    <3>3. Compare(Fresh, SYMBOL_TABLE[row], row, s)
          = [at |-> 0, id |-> IF SYMBOL_TABLE[row] = s THEN row - 1 ELSE -1]
      BY <1>1, <2>2, CompareIs
    <3> QED
      BY <2>1, <2>5, <3>2, <3>3
  <2> QED
    BY <2>4, <2>5
<1>5. \E g : Rec(g)
  <2> DEFINE h == [row \in 0..L |-> Good(row)]
  <2>1. ASSUME NEW row \in 0..L PROVE h[row] = Row(h, row)
    <3>1. CASE row = 0
      BY <1>3, <3>1 DEF Fresh
    <3>2. CASE row # 0
      <4>1. row \in 1..L /\ row - 1 \in 0..L
        BY <1>1, <3>2
      <4>2. h[row - 1] = Good(row - 1) /\ h[row] = Good(row)
        BY <4>1
      <4> HIDE DEF h, Row, Good
      <4>3. Row(h, row) = Good(row)
        BY <1>4, <4>1, <4>2
      <4> QED
        BY <4>2, <4>3
    <3> QED
      BY <3>1, <3>2
  <2> HIDE DEF Row, Good
  <2>2. Rec(h)
    BY <2>1
  <2> QED
    BY <2>2
<1>6. PICK g : g = CHOOSE f : Rec(f)
  OBVIOUS
<1>7. Rec(g)
  BY <1>5, <1>6, Zenon
<1> HIDE DEF Row, Good
<1>8. \A row \in 0..L : g[row] = Row(g, row)
  BY <1>7
<1> DEFINE T == {row \in 0..L : g[row] = Good(row)}
<1>9. 0 \in T
  <2>1. 0 \in 0..L
    BY <1>1
  <2>2. Row(g, 0) = Fresh
    BY DEF Row, Fresh
  <2> QED
    BY <1>3, <1>8, <2>1, <2>2
<1>10. ASSUME NEW row \in 1..L, row - 1 \in T PROVE row \in T
  <2>1. g[row - 1] = Good(row - 1) /\ row \in 0..L
    BY <1>1, <1>10
  <2>2. Row(g, row) = Good(row)
    BY <1>4, <2>1
  <2> QED
    BY <1>8, <2>1, <2>2
<1> HIDE DEF T
<1>11. \A row \in 0..L : row \in T
  BY <1>1, <1>9, <1>10, Reached
<1>12. L \in T
  BY <1>1, <1>11
<1>13. g[L] = Good(L)
  BY <1>12 DEF T
<1>14. g[L].id = Known(s, L)
  BY <1>13 DEF Good
<1> HIDE DEF Rec
<1>15. symbol_id(s) = g[L].id
  BY <1>2, <1>6, Zenon
<1> QED
  BY <1>14, <1>15 DEF L

(***************************************************************************)
(* For every table without a repeated name and names of every length:      *)
(* symbol_id returns the id of the entry that is equal to the name, and -1 *)
(* when there is none, however many first characters they share.           *)
(***************************************************************************)
THEOREM AllSymbolIdExact == SymbolSpec => []SymbolIdExact
<1> DEFINE Inv == name \in Seq(Letters) /\ id = Known(name, Len(SYMBOL_TABLE))
<1>1. DOMAIN SYMBOL_TABLE = 1..Len(SYMBOL_TABLE) /\ Len(SYMBOL_TABLE) \in Nat
  BY TableAssumption
<1>2. SymbolInit => Inv
  <2> SUFFICES ASSUME SymbolInit PROVE Inv
    OBVIOUS
  <2>1. name = <<>> /\ id = -1
    BY DEF SymbolInit
  <2>2. ASSUME NEW row \in 1..Len(SYMBOL_TABLE) PROVE SYMBOL_TABLE[row] # name
    <3>1. PICK S : S = Seq(Letters) \ {<<>>}
      OBVIOUS
    <3>2. SYMBOL_TABLE \in Seq(S)
      BY <3>1, TableAssumption
    <3>3. SYMBOL_TABLE[row] \in S
      BY <3>2
    <3> QED
      BY <2>1, <3>1, <3>3
  <2>3. PICK L \in Nat : L = Len(SYMBOL_TABLE)
    BY <1>1
  <2>4. Known(name, L) = -1
    <3>1. L \in 0..L
      OBVIOUS
    <3> QED
      BY <2>2, <2>3, <3>1, KnownIs
  <2>5. name \in Seq(Letters)
    BY <2>1
  <2> QED
    BY <2>1, <2>3, <2>4, <2>5
<1>3. Inv /\ [Lookup]_symbolVars => Inv'
  <2> SUFFICES ASSUME Inv, [Lookup]_symbolVars PROVE Inv'
    OBVIOUS
  <2>1. CASE Lookup
    <3>1. name' \in BoundedSeq(Letters, MaxNameLen) /\ id' = symbol_id(name')
      BY <2>1 DEF Lookup
    <3>2. name' \in Seq(Letters)
      BY <3>1, NameAssumption DEF BoundedSeq, SeqOf
    <3> QED
      BY <3>1, <3>2, SymbolId
  <2>2. CASE UNCHANGED symbolVars
    BY <2>2 DEF symbolVars
  <2> QED
    BY <2>1, <2>2
<1>4. Inv => SymbolIdExact
  BY <1>1, Zenon DEF SymbolIdExact, Known
<1> QED
  BY <1>2, <1>3, <1>4, PTL DEF SymbolSpec

-----------------------------------------------------------------------------
(* The statistics of namespace bench.                                      *)

(* The element at place k of the sorted vector has at most k - 1 samples   *)
(* below it and at least k up to it.                                       *)
LEMMA PlaceCounts ==
  ASSUME samples \in Seq(Int), NEW k \in 1..Len(samples)
  PROVE  LET v == std_sort(samples)[k]
         IN  /\ Below(v) \in Nat /\ Below(v) <= k - 1
             /\ UpTo(v) \in Nat /\ k <= UpTo(v)
<1>1. PICK s, n, v : s = std_sort(samples) /\ n = Len(samples) /\ v = s[k]
  OBVIOUS
<1>2. PICK p : Sorts(samples, s, p)
  BY <1>1, StdSort
<1>3. /\ n \in Nat
      /\ p \in [1..n -> 1..n]
      /\ IsInjective(p)
      /\ \A j \in 1..n : s[j] = samples[p[j]]
      /\ \A i, j \in 1..n : i < j => s[i] <= s[j]
  BY <1>1, <1>2 DEF Sorts
<1>4. k \in 1..n /\ DOMAIN samples = 1..n /\ \A j \in 1..n : samples[j] \in Int
  BY <1>1
<1>5. \A j \in 1..n : s[j] \in Int
  BY <1>3, <1>4
<1>6. IsFiniteSet(1..n) /\ Cardinality(1..n) = n
  BY <1>3, InitialSegment
<1>7. \A x \in 1..n : \E i \in 1..n : p[i] = x
  <2>1. PICK S : S = 1..n
    OBVIOUS
  <2>2. IsFiniteSet(S) /\ Cardinality(S) = n /\ p \in [1..n -> S]
    BY <1>3, <1>6, <2>1
  <2>3. n \in Nat /\ IsInjective(p)
    BY <1>3
  <2>4. \A x \in S : \E i \in 1..n : p[i] = x
    BY <2>2, <2>3, PermutationOnto
  <2> QED
    BY <2>1, <2>4
<1>8. Below(v) \in Nat /\ Below(v) <= k - 1
  <2> DEFINE A == {j \in 1..n : samples[j] < v}
             B == {p[i] : i \in 1..(k - 1)}
             g == [i \in 1..(k - 1) |-> p[i]]
  <2>1. A \in SUBSET B
    <3>1. ASSUME NEW j \in A PROVE j \in B
      <4>1. j \in 1..n /\ samples[j] < v
        BY <3>1
      <4>2. PICK i \in 1..n : p[i] = j
        BY <1>7, <4>1
      <4>3. s[i] < s[k]
        BY <1>1, <1>3, <4>1, <4>2
      <4>4. i < k
        <5>1. i \in Int /\ k \in Int /\ s[i] \in Int /\ s[k] \in Int
          BY <1>4, <1>5
        <5>2. k < i => s[k] <= s[i]
          BY <1>3, <1>4
        <5>3. i # k
          BY <4>3, <5>1
        <5> QED
          BY <4>3, <5>1, <5>2, <5>3
      <4>5. i \in 1..(k - 1)
        BY <1>4, <4>4
      <4> QED
        BY <4>2, <4>5
    <3> QED
      BY <3>1
  <2>2. IsFiniteSet(1..(k - 1)) /\ Cardinality(1..(k - 1)) = k - 1
    <3>1. PICK m \in Nat : m = k - 1
      BY <1>4
    <3>2. IsFiniteSet(1..m) /\ Cardinality(1..m) = m
      BY InitialSegment
    <3> QED
      BY <3>1, <3>2
  <2>3. g \in Surjection(1..(k - 1), B)
    BY DEF Surjection
  <2> HIDE DEF A, B, g
  <2>4. IsFiniteSet(B) /\ Cardinality(B) <= k - 1
    BY <2>2, <2>3, FS_Surjection
  <2>5. IsFiniteSet(A) /\ Cardinality(A) <= Cardinality(B)
    BY <2>1, <2>4, FS_Subset
  <2>6. Cardinality(A) \in Nat /\ Cardinality(B) \in Nat
    BY <2>4, <2>5, FS_CardinalityType
  <2>7. Cardinality(A) <= k - 1
    BY <1>4, <2>4, <2>5, <2>6
  <2>8. Below(v) = Cardinality(A)
    BY <1>4 DEF Below, A
  <2> QED
    BY <2>6, <2>7, <2>8
<1>9. UpTo(v) \in Nat /\ k <= UpTo(v)
  <2> DEFINE A == {j \in 1..n : samples[j] <= v}
             g == [i \in 1..k |-> p[i]]
  <2>1. \A i \in 1..k : i \in 1..n /\ p[i] \in A
    <3>1. ASSUME NEW i \in 1..k PROVE i \in 1..n /\ p[i] \in A
      <4>1. i \in 1..n /\ i <= k
        <5>1. k \in Int /\ n \in Int /\ k <= n
          BY <1>3, <1>4
        <5>2. i \in Int /\ 1 <= i /\ i <= k
          BY <5>1
        <5> QED
          BY <5>1, <5>2
      <4>2. s[i] <= s[k]
        BY <1>3, <1>4, <1>5, <4>1
      <4> QED
        BY <1>1, <1>3, <4>1, <4>2
    <3> QED
      BY <3>1
  <2>2. g \in [1..k -> A]
    BY <2>1
  <2>3. IsInjective(g)
    BY <1>3, <2>1 DEF IsInjective
  <2> HIDE DEF g
  <2>4. g \in Injection(1..k, A)
    BY <2>2, <2>3 DEF Injection
  <2>5. IsFiniteSet(A)
    <3>1. A \in SUBSET (1..n)
      OBVIOUS
    <3> HIDE DEF A
    <3> QED
      BY <1>6, <3>1, FS_Subset
  <2> HIDE DEF A
  <2>6. Cardinality(1..k) <= Cardinality(A)
    BY <2>4, <2>5, FS_Injection
  <2>7. k \in Nat /\ Cardinality(1..k) = k
    <3>1. k \in Nat
      BY <1>4
    <3> QED
      BY <3>1, InitialSegment
  <2>8. Cardinality(A) \in Nat
    BY <2>5, FS_CardinalityType
  <2>9. UpTo(v) = Cardinality(A)
    BY <1>4 DEF UpTo, A
  <2> QED
    BY <2>6, <2>7, <2>8, <2>9
<1> QED
  BY <1>1, <1>8, <1>9

(* Index c is the one to read of n elements for q per mille.               *)
Brackets(c, q, n) == c \in 0..(n - 1) /\ 1000 * c <= q * n /\ q * n <= 1000 * (c + 1)

(* So the element at place k has every rank between k - 1 and k.           *)
LEMMA PlaceHasRank ==
  ASSUME samples \in Seq(Int), NEW c, NEW q \in Nat, Brackets(c, q, Len(samples))
  PROVE  HasRank(std_sort(samples)[c + 1], q)
<1>b. /\ c \in 0..(Len(samples) - 1)
      /\ 1000 * c <= q * Len(samples) /\ q * Len(samples) <= 1000 * (c + 1)
  BY DEF Brackets
<1>1. PICK v : v = std_sort(samples)[c + 1]
  OBVIOUS
<1>2. PICK k \in 1..Len(samples) : k = c + 1
  BY <1>b
<1>3. /\ Below(v) \in Nat /\ Below(v) <= k - 1
      /\ UpTo(v) \in Nat /\ k <= UpTo(v)
  BY <1>1, <1>2, PlaceCounts
<1>4. PICK y \in Nat : y = q * Len(samples)
  OBVIOUS
<1>5. PICK b \in Nat, u \in Nat : b = Below(v) /\ u = UpTo(v)
  BY <1>3
<1>6. 1000 * b <= y /\ y <= 1000 * u
  <2>1. c \in Int /\ b <= c /\ c + 1 <= u
    BY <1>b, <1>2, <1>3, <1>5
  <2>2. 1000 * c <= y /\ y <= 1000 * (c + 1)
    BY <1>b, <1>4
  <2> QED
    BY <2>1, <2>2
<1> QED
  BY <1>1, <1>4, <1>5, <1>6 DEF HasRank

(* The index that percentile reads is inside the vector and has the rank   *)
(* that is asked for, whichever way p / 100.0 * size is rounded.           *)
LEMMA IndexHasRank ==
  ASSUME NEW n \in Nat \ {0}, NEW q \in 0..1000, NEW k \in Index(q, n)
  PROVE  Brackets(Clamped(k, n), q, n)
<1>1. PICK y \in Nat : y = q * n
  OBVIOUS
<1>2. y <= 1000 * n
  BY <1>1
<1>3. k = y \div 1000 \/ (k \in 0..n /\ 1000 * (k + 1) = y)
  BY <1>1 DEF Index
<1>4. k \in Nat /\ 1000 * k <= y /\ y <= 1000 * (k + 1)
  BY <1>3
<1>5. PICK c : c = Clamped(k, n)
  OBVIOUS
<1>6. c \in 0..(n - 1) /\ 1000 * c <= y /\ y <= 1000 * (c + 1)
  BY <1>2, <1>4, <1>5 DEF Clamped
<1> QED
  BY <1>1, <1>5, <1>6 DEF Brackets

(* The property is a consequence of the samples being integers.            *)
LEMMA RanksFollow == samples \in Seq(Int) => PercentileRanks
<1> SUFFICES ASSUME samples \in Seq(Int), samples # <<>> PROVE PercentileRanks
  BY DEF PercentileRanks
<1>1. PICK s : s = Sorted(samples)
  OBVIOUS
<1>2. PICK n \in Nat \ {0} : n = Len(samples)
  OBVIOUS
<1>3. s = std_sort(samples)
  BY <1>1 DEF Sorted
<1>4. Len(s) = n
  <2>1. PICK p : Sorts(samples, s, p)
    BY <1>3, StdSort
  <2>2. s = [j \in 1..n |-> samples[p[j]]]
    BY <1>2, <2>1 DEF Sorts
  <2> QED
    BY <2>2
<1>5. ASSUME NEW q \in Permilles, NEW v \in percentile(s, q) PROVE HasRank(v, q)
  <2>1. q \in 0..1000 /\ q \in Nat
    BY PermillesAssumption
  <2>2. PICK k \in Index(q, n) : v = s[Clamped(k, n) + 1]
    BY <1>4, <1>5 DEF percentile
  <2>3. PICK c : c = Clamped(k, n)
    OBVIOUS
  <2>4. Brackets(c, q, Len(samples))
    <3>1. Brackets(Clamped(k, n), q, n)
      <4>1. q \in 0..1000
        BY <2>1
      <4>2. k \in Index(q, n)
        BY <2>2
      <4> QED
        BY <1>2, <4>1, <4>2, IndexHasRank, ZenonT(60)
    <3> QED
      BY <1>2, <2>3, <3>1
  <2>5. HasRank(s[c + 1], q)
    BY <1>3, <2>1, <2>4, PlaceHasRank
  <2> QED
    BY <2>2, <2>3, <2>5
<1>6. HasRank(s[Middle(Len(s)) + 1], 500)
  <2>1. PICK c : c = Middle(n)
    OBVIOUS
  <2>2. PICK q \in Nat : q = 500
    OBVIOUS
  <2>3. c \in 0..(n - 1) /\ 1000 * c <= q * n /\ q * n <= 1000 * (c + 1)
    BY <2>1, <2>2 DEF Middle
  <2>4. Brackets(c, q, Len(samples))
    BY <1>2, <2>3 DEF Brackets
  <2>5. HasRank(s[c + 1], q)
    BY <1>3, <2>4, PlaceHasRank
  <2> QED
    BY <1>4, <2>1, <2>2, <2>5
<1> QED
  BY <1>1, <1>5, <1>6 DEF PercentileRanks

(***************************************************************************)
(* percentile and median_ns of namespace bench, for every set of elapsed   *)
(* times and any number of samples: the value printed is an element of the *)
(* vector and has the rank asked for.                                      *)
(***************************************************************************)
THEOREM AllPercentileRanks == StatSpec => []PercentileRanks
<1> DEFINE Inv == samples \in Seq(Elapsed)
<1>1. StatInit => Inv
  BY DEF StatInit
<1>2. Inv /\ [StatNext]_statVars => Inv'
  <2> SUFFICES ASSUME Inv, [StatNext]_statVars PROVE Inv'
    OBVIOUS
  <2>1. CASE Measure
    BY <2>1 DEF Measure
  <2>2. CASE median_ns
    <3>1. samples' = <<>>
      BY <2>2 DEF median_ns
    <3> QED
      BY <3>1
  <2>3. CASE print_latency_dist
    <3>1. samples' = samples
      BY <2>3, ZenonT(60) DEF print_latency_dist
    <3> QED
      BY <3>1
  <2>4. CASE UNCHANGED statVars
    BY <2>4 DEF statVars
  <2> QED
    BY <2>1, <2>2, <2>3, <2>4 DEF StatNext
<1>3. Inv => PercentileRanks
  <2>1. ASSUME Inv PROVE samples \in Seq(Int)
    <3>1. \A j \in 1..Len(samples) : samples[j] \in Int
      <4>1. PICK E : E = Elapsed
        OBVIOUS
      <4>2. samples \in Seq(E) /\ E \subseteq Nat
        BY <2>1, <4>1, ElapsedAssumption
      <4>3. \A j \in 1..Len(samples) : samples[j] \in E
        BY <4>2
      <4>4. \A x \in E : x \in Int
        BY <4>2
      <4> QED
        BY <4>3, <4>4, Zenon
    <3>2. Len(samples) \in Nat /\ samples = [j \in 1..Len(samples) |-> samples[j]]
      BY <2>1
    <3> QED
      BY <3>1, <3>2
  <2> QED
    BY <2>1, RanksFollow
<1> QED
  BY <1>1, <1>2, <1>3, PTL DEF StatSpec

-----------------------------------------------------------------------------
(* The container benchmark.                                                *)

(* A vector of the N keys in some order.                                   *)
IsShuffle(s) == s \in [1..N -> 0..(N - 1)] /\ IsInjective(s)

FirstOf(s, n) == {s[j] : j \in 1..n}

(* A container while it is filled: it holds the first n of ks.             *)
Filling(c, h, ks, n) ==
  IF c.keyed
  THEN DOMAIN h = FirstOf(ks, n) /\ \A k \in DOMAIN h : h[k] = k
  ELSE h \in Seq(Int) /\ Len(h) = n /\ \A j \in 1..n : h[j] = ks[j]

(* A container that has been filled: it holds every key once.              *)
Complete(c, h) ==
  /\ c.keyed => DOMAIN h = 0..(N - 1) /\ \A k \in DOMAIN h : h[k] = k
  /\ ~c.keyed => IsShuffle(h)
  /\ c.sorted => \A j, k \in 1..N : j < k => h[j] <= h[k]

IsContainer(c) ==
  /\ c.keyed \in BOOLEAN /\ c.replaces \in BOOLEAN /\ c.sorted \in BOOLEAN
  /\ c.scanned \in BOOLEAN
  /\ ~(c.sorted /\ c.keyed)
  /\ c.max \in Nat

(* The containers of main(): a sorted one has no keys.                     *)
LEMMA Containers == Len(Order) = 9 /\ \A s \in 1..9 : IsContainer(Order[s])
<1>1. IntMax \in Nat /\ LongMax \in Nat
  BY WidthsAssumption
<1>2. /\ IsContainer(vector_) /\ IsContainer(map_) /\ IsContainer(umap_)
      /\ IsContainer(list_) /\ IsContainer(deque_) /\ IsContainer(uflat_)
      /\ IsContainer(flatmap_) /\ IsContainer(uflat_ptr_) /\ IsContainer(node_map_)
  BY <1>1 DEF IsContainer, Container, vector_, map_, umap_, list_, deque_, uflat_, flatmap_,
              uflat_ptr_, node_map_
<1>3. Len(Order) = 9
  BY DEF Order
<1>4. ASSUME NEW s \in 1..9 PROVE IsContainer(Order[s])
  <2>1. s = 1 \/ s = 2 \/ s = 3 \/ s = 4 \/ s = 5 \/ s = 6 \/ s = 7 \/ s = 8 \/ s = 9
    OBVIOUS
  <2> QED
    BY <1>2, <2>1 DEF Order
<1> QED
  BY <1>3, <1>4

(* A shuffle has every key.                                                *)
LEMMA ShuffleOnto ==
  ASSUME NEW s, IsShuffle(s)
  PROVE  FirstOf(s, N) = 0..(N - 1)
<1>1. N \in Nat /\ N # 0
  BY BenchAssumption
<1>2. PICK S : S = 0..(N - 1)
  OBVIOUS
<1>3. IsFiniteSet(S) /\ Cardinality(S) = N
  <2>1. PICK z \in Int : z = 0
    OBVIOUS
  <2>2. PICK m \in Int : m = N - 1
    BY <1>1
  <2>3. /\ IsFiniteSet(z..m)
        /\ Cardinality(z..m) = IF z > m THEN 0 ELSE m - z + 1
    BY FS_Interval
  <2> QED
    BY <1>1, <1>2, <2>1, <2>2, <2>3
<1>4. s \in [1..N -> S] /\ IsInjective(s)
  BY <1>2 DEF IsShuffle
<1>5. \A v \in S : \E j \in 1..N : s[j] = v
  BY <1>1, <1>3, <1>4, PermutationOnto
<1> QED
  BY <1>2, <1>4, <1>5 DEF FirstOf

(* Putting the next key.                                                   *)
LEMMA PutFills ==
  ASSUME NEW c, IsContainer(c), NEW ks, IsShuffle(ks), NEW h, NEW n \in 0..(N - 1),
         Filling(c, h, ks, n)
  PROVE  Filling(c, Put(c, h, ks[n + 1]), ks, n + 1)
<1>1. N \in Nat
  BY BenchAssumption
<1>2. ks[n + 1] \in Int /\ n + 1 \in 1..N /\ n \in Nat
  BY <1>1 DEF IsShuffle
<1>3. FirstOf(ks, n + 1) = FirstOf(ks, n) \cup {ks[n + 1]}
  BY <1>2 DEF FirstOf
<1>4. CASE c.keyed
  <2>1. PICK k : k = ks[n + 1]
    OBVIOUS
  <2>2. DOMAIN h = FirstOf(ks, n) /\ \A x \in DOMAIN h : h[x] = x
    BY <1>4 DEF Filling
  <2>3. PICK g : g = Put(c, h, k)
    OBVIOUS
  <2>4. g = [x \in DOMAIN h \cup {k} |->
               IF x \in DOMAIN h /\ (x # k \/ ~c.replaces) THEN h[x] ELSE k]
    BY <1>4, <2>3 DEF Put
  <2>5. DOMAIN g = DOMAIN h \cup {k}
    BY <2>4
  <2>6. \A x \in DOMAIN g : g[x] = x
    BY <2>2, <2>4, <2>5
  <2>7. DOMAIN g = FirstOf(ks, n + 1)
    BY <1>3, <2>1, <2>2, <2>5
  <2> QED
    BY <1>4, <2>1, <2>3, <2>6, <2>7 DEF Filling
<1>5. CASE ~c.keyed
  <2>1. h \in Seq(Int) /\ Len(h) = n /\ \A j \in 1..n : h[j] = ks[j]
    BY <1>5 DEF Filling
  <2>2. Put(c, h, ks[n + 1]) = Append(h, ks[n + 1])
    BY <1>5 DEF Put
  <2>3. /\ Append(h, ks[n + 1]) \in Seq(Int)
        /\ Len(Append(h, ks[n + 1])) = n + 1
        /\ \A j \in 1..(n + 1) : Append(h, ks[n + 1])[j] = ks[j]
    BY <1>2, <2>1
  <2> QED
    BY <1>5, <2>2, <2>3 DEF Filling
<1> QED
  BY <1>4, <1>5 DEF IsContainer

(* An empty container holds no key.                                        *)
LEMMA EmptyFills ==
  ASSUME NEW c, IsContainer(c), NEW ks
  PROVE  Filling(c, <<>>, ks, 0)
<1>1. DOMAIN <<>> = {} /\ FirstOf(ks, 0) = {}
  BY DEF FirstOf
<1> QED
  BY <1>1 DEF Filling, IsContainer

(* The end of the loop.                                                    *)
LEMMA FilledCompletes ==
  ASSUME NEW c, IsContainer(c), NEW ks, NEW h, IsShuffle(ks), Filling(c, h, ks, N)
  PROVE  Complete(c, Filled(c, h))
<1>1. N \in Nat
  BY BenchAssumption
<1>2. CASE c.keyed
  <2>1. Filled(c, h) = h
    BY <1>2 DEF Filled, IsContainer
  <2>2. DOMAIN h = 0..(N - 1) /\ \A k \in DOMAIN h : h[k] = k
    BY <1>2, ShuffleOnto DEF Filling
  <2> QED
    BY <1>2, <2>1, <2>2 DEF Complete, IsContainer
<1>3. CASE ~c.keyed
  <2>1. h \in Seq(Int) /\ Len(h) = N /\ \A j \in 1..N : h[j] = ks[j]
    BY <1>3 DEF Filling
  <2>2. IsShuffle(h)
    BY <2>1 DEF IsShuffle, IsInjective
  <2>3. CASE ~c.sorted
    BY <1>3, <2>2, <2>3 DEF Complete, Filled
  <2>4. CASE c.sorted
    <3>1. PICK t : t = std_sort(h)
      OBVIOUS
    <3>2. PICK p : Sorts(h, t, p)
      BY <2>1, <3>1, StdSort
    <3>3. /\ p \in [1..N -> 1..N]
          /\ IsInjective(p)
          /\ t = [j \in 1..N |-> h[p[j]]]
          /\ \A j, k \in 1..N : j < k => t[j] <= t[k]
      BY <2>1, <3>2 DEF Sorts
    <3>4. h \in [1..N -> 0..(N - 1)] /\ \A j, k \in 1..N : h[j] = h[k] => j = k
      BY <2>2 DEF IsShuffle, IsInjective
    <3>5. t \in [1..N -> 0..(N - 1)]
      BY <3>3, <3>4
    <3>6. \A j, k \in 1..N : t[j] = t[k] => j = k
      BY <3>3, <3>4 DEF IsInjective
    <3>7. IsShuffle(t)
      BY <3>5, <3>6 DEF IsShuffle, IsInjective
    <3>8. Filled(c, h) = t
      BY <2>4, <3>1 DEF Filled
    <3> QED
      BY <1>3, <3>3, <3>7, <3>8 DEF Complete
  <2> QED
    BY <2>3, <2>4
<1> QED
  BY <1>2, <1>3

(* A lookup finds what is asked for, with lower_bound as with find.        *)
LEMMA LookupFinds ==
  ASSUME NEW c, IsContainer(c), NEW h, Complete(c, h), NEW q \in 0..(N - 1)
  PROVE  Found(c, h, q) = {q}
<1>1. N \in Nat
  BY BenchAssumption
<1>2. CASE c.keyed
  <2>1. DOMAIN h = 0..(N - 1) /\ h[q] = q /\ ~c.sorted
    BY <1>2 DEF Complete, IsContainer
  <2> QED
    BY <1>2, <2>1 DEF Found
<1>3. CASE ~c.keyed
  <2>1. IsShuffle(h)
    BY <1>3 DEF Complete
  <2>2. h \in [1..N -> 0..(N - 1)] /\ DOMAIN h = 1..N
    BY <2>1 DEF IsShuffle
  <2>3. PICK j0 \in 1..N : h[j0] = q
    BY <2>1, ShuffleOnto DEF FirstOf
  <2>4. CASE ~c.sorted
    <3>1. Found(c, h, q) = ToSet(h) \cap {q}
      BY <1>3, <2>4 DEF Found
    <3>2. q \in ToSet(h)
      BY <2>2, <2>3 DEF ToSet
    <3> QED
      BY <3>1, <3>2
  <2>5. CASE c.sorted
    <3>1. PICK js : js = {j \in DOMAIN h : h[j] >= q}
      OBVIOUS
    <3>2. js \in SUBSET Nat /\ j0 \in js
      BY <2>2, <2>3, <3>1
    <3>3. Found(c, h, q) = IF js = {} THEN {} ELSE {h[Min(js)]}
      BY <1>3, <2>5, <3>1, Zenon DEF Found
    <3>4. PICK m \in Nat : m = Min(js) /\ m \in js /\ m <= j0
      BY <3>2, MinIsLeast
    <3>5. m \in 1..N /\ h[m] >= q
      BY <2>2, <3>1, <3>4
    <3>6. \A j, k \in 1..N : j < k => h[j] <= h[k]
      BY <2>5 DEF Complete
    <3>7. h[m] \in Int /\ q \in Int /\ j0 \in Int
      BY <2>2, <3>5
    <3>8. h[m] = q
      BY <2>3, <3>4, <3>5, <3>6, <3>7
    <3> QED
      BY <3>2, <3>3, <3>4, <3>8
  <2> QED
    BY <2>4, <2>5 DEF IsContainer
<1> QED
  BY <1>2, <1>3

(* The iteration meets every key once.                                     *)
LEMMA ElementsAreKeys ==
  ASSUME NEW c, IsContainer(c), NEW h, Complete(c, h)
  PROVE  IsShuffle(Elements(c, h)) /\ Len(Elements(c, h)) = N
<1>1. N \in Nat /\ N # 0
  BY BenchAssumption
<1>2. ASSUME NEW s, IsShuffle(s) PROVE Len(s) = N
  BY <1>1, <1>2 DEF IsShuffle
<1>3. CASE ~c.keyed
  BY <1>2, <1>3 DEF Elements, Complete
<1>4. CASE c.keyed
  <2>1. PICK S : S = 0..(N - 1)
    OBVIOUS
  <2>2. IsFiniteSet(S) /\ Cardinality(S) = N
    <3>1. PICK z \in Int : z = 0
      OBVIOUS
    <3>2. PICK m \in Int : m = N - 1
      BY <1>1
    <3>3. /\ IsFiniteSet(z..m)
          /\ Cardinality(z..m) = IF z > m THEN 0 ELSE m - z + 1
      BY FS_Interval
    <3> QED
      BY <1>1, <2>1, <3>1, <3>2, <3>3
  <2>3. DOMAIN h = S /\ \A k \in S : h[k] = k
    BY <1>4, <2>1 DEF Complete
  <2>4. ExistsBijection(1..N, S)
    BY <2>2, FS_CardinalityType
  <2>5. \E b \in [1..N -> S] : IsInjective(b)
    BY <2>4 DEF ExistsBijection, Bijection, Injection
  <2>6. PICK b : b = SetToSeq(S)
    OBVIOUS
  <2>7. b = CHOOSE g \in [1..N -> S] : IsInjective(g)
    BY <2>2, <2>6 DEF SetToSeq
  <2>8. b \in [1..N -> S] /\ IsInjective(b)
    BY <2>5, <2>7, Zenon
  <2>9. Elements(c, h) = [j \in 1..N |-> h[b[j]]]
    BY <1>4, <2>2, <2>3, <2>6 DEF Elements
  <2>10. \A j \in 1..N : h[b[j]] = b[j]
    BY <2>3, <2>8
  <2>11. [j \in 1..N |-> h[b[j]]] = b
    BY <2>8, <2>10
  <2>12. IsShuffle(b)
    BY <2>1, <2>8 DEF IsShuffle
  <2> QED
    BY <1>2, <2>9, <2>11, <2>12
<1> QED
  BY <1>3, <1>4 DEF IsContainer

(* The sum of a set of natural numbers, as the number of pairs of one of   *)
(* them and a smaller number: the order of summation does not matter.      *)
Under(S) == {q \in S \X Nat : q[2] < q[1]}

Total(S) == Cardinality(Under(S))

(* The set S has a sum.                                                    *)
Summable(S) == S \in SUBSET Nat /\ IsFiniteSet(Under(S))

(* Adding a number to a set that does not have it.                         *)
LEMMA TotalAdds ==
  ASSUME NEW S, Summable(S), NEW v \in Nat, v \notin S
  PROVE  Summable(S \cup {v}) /\ Total(S \cup {v}) = Total(S) + v
<1> DEFINE row == {v} \X (0..(v - 1))
<1>1. S \in SUBSET Nat /\ IsFiniteSet(Under(S))
  BY DEF Summable
<1>2. IsFiniteSet(row) /\ Cardinality(row) = v
  <2>1. IsFiniteSet({v}) /\ Cardinality({v}) = 1
    BY FS_Singleton
  <2>2. PICK z \in Int : z = 0
    OBVIOUS
  <2>3. PICK m \in Int : m = v - 1
    OBVIOUS
  <2>4. /\ IsFiniteSet(z..m)
        /\ Cardinality(z..m) = IF z > m THEN 0 ELSE m - z + 1
    BY FS_Interval
  <2>5. IsFiniteSet(0..(v - 1)) /\ Cardinality(0..(v - 1)) = v
    BY <2>2, <2>3, <2>4
  <2>6. IsFiniteSet(row) /\ Cardinality(row) = Cardinality({v}) * Cardinality(0..(v - 1))
    BY <2>1, <2>5, FS_Product
  <2> HIDE DEF row
  <2> QED
    BY <2>1, <2>5, <2>6
<1>3. Under(S \cup {v}) = Under(S) \cup row
  BY <1>1 DEF Under
<1>4. Under(S) \cap row = {}
  BY DEF Under
<1> HIDE DEF row
<1>5. Cardinality(Under(S) \cap row) = 0
  BY <1>4, FS_EmptySet
<1>6. /\ IsFiniteSet(Under(S) \cup row)
      /\ Cardinality(Under(S) \cup row)
         = Cardinality(Under(S)) + Cardinality(row) - Cardinality(Under(S) \cap row)
  BY <1>1, <1>2, FS_Union
<1>7. Cardinality(Under(S)) \in Nat
  BY <1>1, FS_CardinalityType
<1>8. Total(S \cup {v}) = Total(S) + v
  <2>1. PICK a \in Nat : a = Cardinality(Under(S))
    BY <1>7
  <2>2. Cardinality(Under(S) \cup row) = a + v - 0
    BY <1>2, <1>5, <1>6, <2>1
  <2>3. a + v - 0 = a + v
    OBVIOUS
  <2> QED
    BY <1>3, <2>1, <2>2, <2>3, Zenon DEF Total
<1>9. Summable(S \cup {v})
  BY <1>1, <1>3, <1>6 DEF Summable
<1> QED
  BY <1>8, <1>9

(* The empty set has the sum 0.                                            *)
LEMMA TotalNothing == Summable({}) /\ Total({}) = 0
<1>1. Under({}) = {}
  BY DEF Under
<1> QED
  BY <1>1, FS_EmptySet DEF Summable, Total

(* The sum of the numbers below n.                                         *)
LEMMA TotalBelow ==
  ASSUME NEW n \in Nat
  PROVE  Summable(0..(n - 1)) /\ Total(0..(n - 1)) = (n * (n - 1)) \div 2
<1> DEFINE T == {m \in 0..n : Summable(0..(m - 1)) /\ Total(0..(m - 1)) \in Int
                               /\ 2 * Total(0..(m - 1)) = m * (m - 1)}
<1>1. 0 \in T
  <2>1. 0..(0 - 1) = {}
    OBVIOUS
  <2>2. Summable(0..(0 - 1)) /\ Total(0..(0 - 1)) = 0
    BY <2>1, TotalNothing
  <2> QED
    BY <2>2
<1>2. ASSUME NEW m \in 1..n, m - 1 \in T PROVE m \in T
  <2>1. PICK S : S = 0..(m - 2)
    OBVIOUS
  <2>2. Summable(S) /\ Total(S) \in Int /\ 2 * Total(S) = (m - 1) * (m - 2)
    BY <1>2, <2>1
  <2>3. PICK v \in Nat : v = m - 1
    BY <1>2
  <2>4. v \notin S
    BY <2>1, <2>3
  <2>5. Summable(S \cup {v}) /\ Total(S \cup {v}) = Total(S) + v
    BY <2>2, <2>4, TotalAdds
  <2>6. S \cup {v} = 0..(m - 1)
    BY <2>1, <2>3
  <2>7. PICK x \in Int : x = Total(S)
    BY <2>2
  <2>8. 2 * (x + v) = m * (m - 1)
    <3>1. m \in Int
      OBVIOUS
    <3>2. (m - 1) * (m - 2) + 2 * (m - 1) = m * (m - 1)
      BY <3>1
    <3>3. 2 * x = (m - 1) * (m - 2)
      BY <2>2, <2>7
    <3>4. PICK y \in Int : y = (m - 1) * (m - 2)
      BY <3>1
    <3>5. 2 * (x + v) = y + 2 * (m - 1)
      BY <2>3, <3>1, <3>3, <3>4
    <3> QED
      BY <3>2, <3>4, <3>5
  <2>9. Summable(0..(m - 1)) /\ Total(0..(m - 1)) = x + v
    BY <2>5, <2>6, <2>7
  <2> QED
    BY <2>3, <2>8, <2>9
<1> HIDE DEF T
<1>3. \A m \in 0..n : m \in T
  BY <1>1, <1>2, Reached
<1>4. n \in T
  BY <1>3
<1>5. Summable(0..(n - 1)) /\ Total(0..(n - 1)) \in Int /\ 2 * Total(0..(n - 1)) = n * (n - 1)
  BY <1>4 DEF T
<1>6. PICK x \in Int : x = Total(0..(n - 1))
  BY <1>5
<1>7. PICK y \in Int : y = n * (n - 1)
  OBVIOUS
<1>8. 2 * x = y
  BY <1>5, <1>6, <1>7
<1>9. x = y \div 2
  BY <1>8
<1> QED
  BY <1>5, <1>6, <1>7, <1>9

(* The first numbers of a shuffle are different, so each adds to the sum.  *)
LEMMA ShuffleAdds ==
  ASSUME NEW s, IsShuffle(s), NEW n \in 0..(N - 1), Summable(FirstOf(s, n))
  PROVE  /\ Summable(FirstOf(s, n + 1))
         /\ Total(FirstOf(s, n + 1)) = Total(FirstOf(s, n)) + s[n + 1]
<1>1. N \in Nat
  BY BenchAssumption
<1>2. s[n + 1] \in Nat /\ n + 1 \in 1..N
  BY <1>1 DEF IsShuffle
<1>3. s[n + 1] \notin FirstOf(s, n)
  <2>1. ASSUME NEW j \in 1..n, s[j] = s[n + 1] PROVE FALSE
    <3>1. j \in 1..N /\ j # n + 1
      BY <1>1
    <3> QED
      BY <1>2, <2>1, <3>1 DEF IsShuffle, IsInjective
  <2> QED
    BY <2>1 DEF FirstOf
<1>4. FirstOf(s, n + 1) = FirstOf(s, n) \cup {s[n + 1]}
  BY <1>2 DEF FirstOf
<1>5. PICK V, v : V = FirstOf(s, n) /\ v = s[n + 1]
  OBVIOUS
<1>6. Summable(V \cup {v}) /\ Total(V \cup {v}) = Total(V) + v
  BY <1>2, <1>3, <1>5, TotalAdds
<1> QED
  BY <1>4, <1>5, <1>6

(* What a variable whose largest value is max holds of a sum.              *)
Held(total, max) == IF total > max THEN Undefined ELSE total

(* Adding to what the variable holds: once undefined, always undefined.    *)
LEMMA HeldAdds ==
  ASSUME NEW a \in Nat, NEW v \in Nat, NEW max \in Nat
  PROVE  Added(Held(a, max), v, max) = Held(a + v, max)
  BY DEF Added, Held, Undefined

(* total is the sum of the first n numbers of s.                           *)
Summed(total, s, n, max) ==
  /\ Summable(FirstOf(s, n))
  /\ total = Held(Total(FirstOf(s, n)), max)

(* One more number.                                                        *)
LEMMA SumStep ==
  ASSUME NEW s, IsShuffle(s), NEW n \in 0..(N - 1), NEW max \in Nat, NEW total,
         Summed(total, s, n, max)
  PROVE  Summed(Added(total, s[n + 1], max), s, n + 1, max)
<1>1. Summable(FirstOf(s, n)) /\ total = Held(Total(FirstOf(s, n)), max)
  BY DEF Summed
<1>2. /\ Summable(FirstOf(s, n + 1))
      /\ Total(FirstOf(s, n + 1)) = Total(FirstOf(s, n)) + s[n + 1]
  BY <1>1, ShuffleAdds
<1>3. PICK a \in Nat : a = Total(FirstOf(s, n))
  BY <1>1, FS_CardinalityType DEF Summable, Total
<1>4. PICK v \in Nat : v = s[n + 1]
  <2>1. N \in Nat
    BY BenchAssumption
  <2> QED
    BY <2>1 DEF IsShuffle
<1>5. Added(Held(a, max), v, max) = Held(a + v, max)
  BY HeldAdds
<1> QED
  BY <1>1, <1>2, <1>3, <1>4, <1>5 DEF Summed

(* All of them.                                                            *)
LEMMA SumComplete ==
  ASSUME NEW total, NEW s, IsShuffle(s), NEW max \in Nat, Summed(total, s, N, max)
  PROVE  total = Held((N * (N - 1)) \div 2, max)
<1>1. N \in Nat
  BY BenchAssumption
<1>2. Total(0..(N - 1)) = (N * (N - 1)) \div 2
  BY <1>1, TotalBelow
<1>3. FirstOf(s, N) = 0..(N - 1)
  BY ShuffleOnto
<1> QED
  BY <1>2, <1>3 DEF Summed

(* Before the first, the sum is 0.                                         *)
LEMMA SumStarts ==
  ASSUME NEW s, NEW max \in Nat
  PROVE  Summed(0, s, 0, max)
<1>1. FirstOf(s, 0) = {}
  BY DEF FirstOf
<1>2. Summable(FirstOf(s, 0)) /\ Total(FirstOf(s, 0)) = 0
  BY <1>1, TotalNothing
<1>3. Held(0, max) = 0
  BY DEF Held
<1> QED
  BY <1>2, <1>3 DEF Summed

(* The sum of a shuffle is a number.                                       *)
LEMMA SumIsInt ==
  ASSUME NEW s, NEW n, NEW max \in Nat, NEW total, Summed(total, s, n, max)
  PROVE  total \in Int
<1>1. PICK a \in Nat : a = Total(FirstOf(s, n))
  BY FS_CardinalityType DEF Summed, Summable, Total
<1>2. Held(a, max) \in Int
  BY DEF Held, Undefined
<1> QED
  BY <1>1, <1>2 DEF Summed

(* Limit and ExactSum do not depend on the order of the keys.              *)
LimitOf(c) == IF c.scanned THEN Min({N, LINEAR_SCAN_CAP}) ELSE N

ExactSum(c) == Held((N * (N - 1)) \div 2, c.max)

(* The lookups that the time returned for a container stands for.          *)
LookupOf(c) == IF c.scanned THEN LimitOf(c) * (N \div LimitOf(c)) ELSE N

(* The row of a container.                                                 *)
RowOf(c) == [insert |-> N, sorts |-> SortsTimed(c), lookup |-> LookupOf(c), iter |-> N]

RowSet == [insert : Nat, sorts : Nat, lookup : Nat, iter : Nat]

(* The whole multiples of m in n are at most n, and short of it by less
   than m.                                                                 *)
LEMMA WholeMultiples ==
  ASSUME NEW n \in Nat, NEW m \in Nat \ {0}
  PROVE  /\ m * (n \div m) \in Nat
         /\ m * (n \div m) <= n
         /\ n - m * (n \div m) < m
         /\ n % m = 0 => m * (n \div m) = n
<1>1. PICK q \in Int, r \in Int : q = n \div m /\ r = n % m
  OBVIOUS
<1>2. 0 <= r /\ r < m
  BY <1>1
<1>3. n = m * (n \div m) + (n % m)
  OBVIOUS
<1>4. 0 <= n \div m
  OBVIOUS
<1>5. PICK p \in Int : p = m * q
  OBVIOUS
<1>6. 0 <= p
  BY <1>1, <1>4, <1>5
<1>7. n = p + r
  BY <1>1, <1>3, <1>5
<1> QED
  BY <1>1, <1>2, <1>5, <1>6, <1>7

(* The capped scan makes at most N queries, and its time stands for N of
   them except for a remainder below the cap.                              *)
LEMMA LimitScales ==
  ASSUME NEW c, IsContainer(c), IsShuffle(queries)
  PROVE  /\ Limit(c) = LimitOf(c)
         /\ LimitOf(c) \in 1..N
         /\ ~c.scanned => LimitOf(c) = N
         /\ Scaled(c, LimitOf(c)) = LookupOf(c)
<1>1. N \in Nat \ {0} /\ LINEAR_SCAN_CAP \in Nat \ {0}
  BY BenchAssumption
<1>2. Len(queries) = N
  BY <1>1 DEF IsShuffle
<1>3. Limit(c) = LimitOf(c)
  BY <1>2 DEF Limit, LimitOf
<1>4. CASE ~c.scanned
  <2>1. LimitOf(c) = N
    BY <1>4 DEF LimitOf
  <2>2. Scaled(c, N) = N /\ LookupOf(c) = N
    BY <1>4 DEF Scaled, LookupOf
  <2> QED
    BY <1>1, <1>3, <1>4, <2>1, <2>2
<1>5. CASE c.scanned
  <2>1. PICK S : S = {N, LINEAR_SCAN_CAP}
    OBVIOUS
  <2>2. S \in SUBSET Nat /\ S # {}
    BY <1>1, <2>1
  <2>3. PICK m \in Nat : m = Min(S) /\ m \in S /\ \A k \in S : m <= k
    BY <2>2, MinIsLeast
  <2>4. m <= N /\ m <= LINEAR_SCAN_CAP /\ (m = N \/ m = LINEAR_SCAN_CAP)
    BY <2>1, <2>3
  <2>5. LimitOf(c) = m
    BY <1>5, <2>1, <2>3 DEF LimitOf
  <2>6. m \in 1..N /\ m # 0
    BY <1>1, <2>4
  <2>7. Scaled(c, m) = m * (N \div m)
    BY <1>2, <1>3, <1>5, <2>5 DEF Scaled
  <2>8. LookupOf(c) = m * (N \div m)
    BY <1>5, <2>5 DEF LookupOf
  <2> QED
    BY <1>3, <1>5, <2>5, <2>6, <2>7, <2>8
<1> QED
  BY <1>4, <1>5 DEF IsContainer

(* What the row of a container says.                                       *)
LEMMA LookupsStandFor ==
  ASSUME NEW c, IsContainer(c)
  PROVE  /\ LookupOf(c) \in Nat
         /\ LookupOf(c) <= N /\ N - LookupOf(c) < LINEAR_SCAN_CAP
         /\ ~c.scanned \/ N % LINEAR_SCAN_CAP = 0 \/ N < LINEAR_SCAN_CAP => LookupOf(c) = N
<1>1. N \in Nat \ {0} /\ LINEAR_SCAN_CAP \in Nat \ {0}
  BY BenchAssumption
<1>2. CASE ~c.scanned
  BY <1>1, <1>2 DEF LookupOf
<1>3. CASE c.scanned
  <2>1. PICK S : S = {N, LINEAR_SCAN_CAP}
    OBVIOUS
  <2>2. S \in SUBSET Nat /\ S # {}
    BY <1>1, <2>1
  <2>3. PICK m \in Nat : m = Min(S) /\ m \in S /\ \A k \in S : m <= k
    BY <2>2, MinIsLeast
  <2>4. m <= N /\ m <= LINEAR_SCAN_CAP /\ (m = N \/ m = LINEAR_SCAN_CAP) /\ m # 0
    BY <1>1, <2>1, <2>3
  <2>5. LookupOf(c) = m * (N \div m)
    BY <1>3, <2>1, <2>3 DEF LimitOf, LookupOf
  <2>6. /\ LookupOf(c) \in Nat /\ LookupOf(c) <= N /\ N - LookupOf(c) < m
        /\ N % m = 0 => LookupOf(c) = N
    <3>1. m \in Nat \ {0} /\ N \in Nat
      BY <1>1, <2>4
    <3> QED
      BY <2>5, <3>1, WholeMultiples
  <2>7. N % LINEAR_SCAN_CAP = 0 \/ N < LINEAR_SCAN_CAP => N % m = 0
    <3>1. CASE m = LINEAR_SCAN_CAP /\ ~(N < LINEAR_SCAN_CAP)
      BY <3>1
    <3>2. CASE m = N
      BY <1>1, <3>2
    <3> QED
      BY <1>1, <2>4, <3>1, <3>2
  <2> QED
    BY <1>1, <1>3, <2>4, <2>6, <2>7
<1> QED
  BY <1>2, <1>3 DEF IsContainer

(* Calls of std::sort are counted.                                         *)
LEMMA SortsAreCounted == ASSUME NEW c PROVE SortsTimed(c) \in Nat
BY DEF SortsTimed

(* A row is appended.                                                      *)
LEMMA RowAppended ==
  ASSUME NEW S, NEW s \in Seq(S), NEW r \in S, NEW n \in 1..9, Len(s) = n - 1
  PROVE  /\ Append(s, r) \in Seq(S)
         /\ Len(Append(s, r)) = n
         /\ Append(s, r)[n] = r
         /\ \A k \in 1..(n - 1) : Append(s, r)[k] = s[k]
<1>1. Append(s, r) \in Seq(S)
  OBVIOUS
<1>2. Len(Append(s, r)) = n
  OBVIOUS
<1>3. Append(s, r)[n] = r
  OBVIOUS
<1>4. \A k \in 1..(n - 1) : Append(s, r)[k] = s[k]
  OBVIOUS
<1> QED
  BY <1>1, <1>2, <1>3, <1>4

(* The last row is changed.                                                *)
LEMMA RowChanged ==
  ASSUME NEW S, NEW s \in Seq(S), NEW r \in S, NEW n \in 1..9, Len(s) = n
  PROVE  LET t == [s EXCEPT ![n] = r]
         IN  /\ t \in Seq(S)
             /\ Len(t) = n
             /\ t[n] = r
             /\ DOMAIN t = DOMAIN s
             /\ \A k \in DOMAIN s : k # n => t[k] = s[k]
<1> DEFINE t == [s EXCEPT ![n] = r]
<1>1. DOMAIN s = 1..n /\ DOMAIN t = 1..n /\ n \in Nat
  OBVIOUS
<1>2. t[n] = r
  BY <1>1
<1>3. \A k \in DOMAIN s : k # n => t[k] = s[k]
  BY <1>1
<1>4. \A k \in 1..n : t[k] \in S
  BY <1>1
<1>5. t \in Seq(S) /\ Len(t) = n
  BY <1>1, <1>4
<1> QED
  BY <1>1, <1>2, <1>3, <1>5

(* The last element of a sequence, as rows and sums are extended.          *)
LEMMA ElementType ==
  ASSUME NEW S, NEW s \in Seq(S), NEW n \in 1..9, Len(s) = n
  PROVE  s[n] \in S
<1>1. n \in DOMAIN s
  OBVIOUS
<1> QED
  BY <1>1

(* Where main() is.                                                        *)
BenchControl ==
  /\ phase \in {"generate", "insert", "build", "lookup", "iter", "table"}
  /\ pos \in 0..N /\ ops = pos
  /\ phase = "generate" => stage = 0 /\ held = <<>>
  /\ phase = "table" => stage = 10
  /\ phase \notin {"generate", "table"} => stage \in 1..9
  /\ phase # "generate" => IsShuffle(keys) /\ IsShuffle(queries)
  /\ phase = "lookup" => pos <= LimitOf(Here)

(* What the container holds.                                               *)
BenchHeld ==
  /\ phase \in {"insert", "build"} => Filling(Here, held, keys, pos)
  /\ phase \in {"lookup", "iter"} => Complete(Here, held)

(* What has been added up.                                                 *)
BenchSum ==
  /\ phase = "lookup" => Summed(sum, queries, pos, Here.max)
  /\ phase = "iter" => Summed(sum, Elements(Here, held), pos, Here.max)

(* What has been returned.                                                 *)
BenchRows ==
  /\ rows \in Seq(RowSet)
  /\ Len(rows) = IF phase \in {"build", "lookup", "iter"} THEN stage
                 ELSE IF phase = "generate" THEN 0 ELSE stage - 1
  /\ \A s \in DOMAIN rows : s < stage => rows[s] = RowOf(Order[s])
  /\ phase \in {"build", "lookup", "iter"} =>
       rows[stage].insert = N /\ rows[stage].sorts = SortsTimed(Here)
  /\ phase = "iter" => rows[stage].lookup = LookupOf(Here)

BenchSums ==
  /\ sums \in Seq([lookup : Int, iter : Int])
  /\ Len(sums) = IF phase = "iter" THEN stage
                 ELSE IF phase = "generate" THEN 0 ELSE stage - 1
  /\ \A s \in DOMAIN sums : s < stage => /\ sums[s].iter = ExactSum(Order[s])
                                         /\ ~Order[s].scanned => sums[s].lookup = ExactSum(Order[s])
  /\ phase = "iter" /\ ~Here.scanned => sums[stage].lookup = ExactSum(Here)

BenchIInv == BenchControl /\ BenchHeld /\ BenchSum /\ BenchRows /\ BenchSums

(* The invariant at the start.                                             *)
LEMMA BenchStarts == BenchInit => BenchIInv
<1> SUFFICES ASSUME BenchInit PROVE BenchIInv
  OBVIOUS
<1>1. N \in Nat
  BY BenchAssumption
<1>2. BenchControl
  BY <1>1 DEF BenchInit, BenchControl
<1>3. BenchHeld /\ BenchSum
  BY DEF BenchInit, BenchHeld, BenchSum
<1>4. BenchRows
  BY DEF BenchInit, BenchRows
<1>5. BenchSums
  BY DEF BenchInit, BenchSums
<1> QED
  BY <1>2, <1>3, <1>4, <1>5 DEF BenchIInv

(* generate_keys and generate_shuffled give shuffles.                      *)
LEMMA BenchGenerate == BenchIInv /\ Generate => BenchIInv'
<1> SUFFICES ASSUME BenchIInv, Generate PROVE BenchIInv'
  OBVIOUS
<1>1. N \in Nat
  BY BenchAssumption
<1>2. PICK shuffle \in [1..N -> 1..N] :
        /\ IsInjective(shuffle)
        /\ keys' = [j \in 1..N |-> shuffle[j] - 1]
        /\ queries' = [j \in 1..N |-> shuffle[shuffle[j]] - 1]
  BY DEF Generate
<1>3. \A j, k \in 1..N : shuffle[j] = shuffle[k] => j = k
  BY <1>2 DEF IsInjective
<1>4. IsShuffle(keys')
  <2>1. keys' \in [1..N -> 0..(N - 1)]
    BY <1>1, <1>2
  <2>2. \A j \in 1..N : shuffle[j] \in Int /\ keys'[j] = shuffle[j] - 1
    BY <1>1, <1>2
  <2>3. \A j, k \in 1..N : keys'[j] = keys'[k] => j = k
    BY <1>3, <2>2
  <2> QED
    BY <2>1, <2>3 DEF IsShuffle, IsInjective
<1>5. IsShuffle(queries')
  <2>1. queries' \in [1..N -> 0..(N - 1)]
    BY <1>1, <1>2
  <2>2. \A j \in 1..N : /\ shuffle[j] \in 1..N
                        /\ shuffle[shuffle[j]] \in Int
                        /\ queries'[j] = shuffle[shuffle[j]] - 1
    BY <1>1, <1>2
  <2>3. \A j, k \in 1..N : queries'[j] = queries'[k] => shuffle[shuffle[j]] = shuffle[shuffle[k]]
    BY <2>2
  <2>4. \A j, k \in 1..N : queries'[j] = queries'[k] => j = k
    BY <1>3, <2>2, <2>3
  <2> QED
    BY <2>1, <2>4 DEF IsShuffle, IsInjective
<1>6. /\ phase = "generate" /\ phase' = "insert" /\ stage' = 1 /\ pos' = 0 /\ ops' = 0
      /\ held' = held /\ rows' = rows /\ sums' = sums
  BY DEF Generate, Enter
<1>7. stage = 0 /\ held = <<>>
  BY <1>6 DEF BenchIInv, BenchControl
<1>8. BenchControl'
  BY <1>1, <1>4, <1>5, <1>6 DEF BenchControl
<1>9. BenchHeld'
  <2>1. IsContainer(Order[1])
    BY Containers
  <2>2. Filling(Order[1], <<>>, keys', 0)
    BY <2>1, EmptyFills
  <2> QED
    BY <1>6, <1>7, <2>2 DEF BenchHeld, Here
<1>10. BenchSum'
  BY <1>6 DEF BenchSum
<1>11. BenchRows'
  BY <1>6, <1>7 DEF BenchIInv, BenchRows
<1>12. BenchSums'
  BY <1>6, <1>7 DEF BenchIInv, BenchSums
<1> QED
  BY <1>8, <1>9, <1>10, <1>11, <1>12 DEF BenchIInv

(* A key is put into a container that is not full.                         *)
LEMMA BenchFill == BenchIInv /\ FillStep => BenchIInv'
<1> SUFFICES ASSUME BenchIInv, FillStep PROVE BenchIInv'
  OBVIOUS
<1>1. N \in Nat
  BY BenchAssumption
<1>2. /\ phase \in {"insert", "build"} /\ pos < Len(keys)
      /\ held' = Put(Here, held, keys[pos + 1]) /\ pos' = pos + 1 /\ ops' = ops + 1
      /\ keys' = keys /\ queries' = queries /\ stage' = stage /\ phase' = phase
      /\ sum' = sum /\ rows' = rows /\ sums' = sums
  BY DEF FillStep
<1>3. stage \in 1..9 /\ IsShuffle(keys) /\ IsShuffle(queries) /\ pos \in 0..N /\ ops = pos
  BY <1>2 DEF BenchIInv, BenchControl
<1>4. Len(keys) = N
  BY <1>1, <1>3 DEF IsShuffle
<1>5. pos \in 0..(N - 1)
  BY <1>1, <1>2, <1>3, <1>4
<1>6. IsContainer(Here)
  BY <1>3, Containers DEF Here
<1>7. Filling(Here, held, keys, pos)
  BY <1>2 DEF BenchIInv, BenchHeld
<1>8. Filling(Here, held', keys, pos + 1)
  BY <1>2, <1>3, <1>5, <1>6, <1>7, PutFills
<1>9. BenchControl'
  BY <1>1, <1>2, <1>3, <1>5 DEF BenchControl
<1>10. BenchHeld'
  BY <1>2, <1>8 DEF BenchHeld, Here
<1>11. BenchSum'
  BY <1>2 DEF BenchSum
<1>12. BenchRows'
  BY <1>2 DEF BenchIInv, BenchRows, Here
<1>13. BenchSums'
  BY <1>2 DEF BenchIInv, BenchSums, Here
<1> QED
  BY <1>9, <1>10, <1>11, <1>12, <1>13 DEF BenchIInv

(* bench_insert_* has made N insertions.                                   *)
LEMMA BenchInserted == BenchIInv /\ InsertReturns => BenchIInv'
<1> SUFFICES ASSUME BenchIInv, InsertReturns PROVE BenchIInv'
  OBVIOUS
<1>1. N \in Nat
  BY BenchAssumption
<1>2. /\ phase = "insert" /\ pos = Len(keys)
      /\ rows' = Append(rows, [insert |-> ops, sorts |-> SortsTimed(Here), lookup |-> 0, iter |-> 0])
      /\ held' = <<>> /\ phase' = "build" /\ pos' = 0 /\ ops' = 0
      /\ keys' = keys /\ queries' = queries /\ stage' = stage /\ sums' = sums
  BY DEF InsertReturns, Enter
<1>3. stage \in 1..9 /\ IsShuffle(keys) /\ IsShuffle(queries) /\ pos \in 0..N /\ ops = pos
  BY <1>2 DEF BenchIInv, BenchControl
<1>4. ops = N
  BY <1>1, <1>2, <1>3 DEF IsShuffle
<1>5. IsContainer(Here)
  BY <1>3, Containers DEF Here
<1>6. BenchControl'
  BY <1>1, <1>2, <1>3 DEF BenchControl
<1>7. BenchHeld'
  <2>1. Filling(Here, <<>>, keys, 0)
    BY <1>5, EmptyFills
  <2> QED
    BY <1>2, <2>1 DEF BenchHeld, Here
<1>8. BenchSum'
  BY <1>2 DEF BenchSum
<1>9. BenchRows'
  <2>1. /\ rows \in Seq(RowSet)
        /\ Len(rows) = stage - 1
        /\ \A s \in DOMAIN rows : s < stage => rows[s] = RowOf(Order[s])
    BY <1>2 DEF BenchIInv, BenchRows
  <2>2. PICK r : r = [insert |-> ops, sorts |-> SortsTimed(Here), lookup |-> 0, iter |-> 0]
    OBVIOUS
  <2>3. r \in RowSet /\ r.insert = N /\ r.sorts = SortsTimed(Here)
    BY <1>1, <1>4, <2>2, SortsAreCounted DEF RowSet
  <2>4. /\ rows' \in Seq(RowSet)
        /\ Len(rows') = stage
        /\ rows'[stage] = r
        /\ \A s \in 1..(stage - 1) : rows'[s] = rows[s]
    <3>1. PICK S : S = RowSet
      OBVIOUS
    <3>2. rows \in Seq(S) /\ r \in S /\ Len(rows) = stage - 1
      BY <2>1, <2>3, <3>1
    <3>3. /\ Append(rows, r) \in Seq(S)
          /\ Len(Append(rows, r)) = stage
          /\ Append(rows, r)[stage] = r
          /\ \A s \in 1..(stage - 1) : Append(rows, r)[s] = rows[s]
      BY <1>3, <3>2, RowAppended
    <3>4. rows' = Append(rows, r)
      BY <1>2, <2>2
    <3> QED
      BY <3>1, <3>3, <3>4
  <2>5. \A s \in DOMAIN rows' : s < stage => s \in DOMAIN rows /\ s \in 1..(stage - 1)
    <3>1. DOMAIN rows' = 1..stage
      BY <2>4
    <3>2. DOMAIN rows = 1..(stage - 1)
      BY <2>1
    <3> QED
      BY <1>3, <3>1, <3>2
  <2>6. \A s \in DOMAIN rows' : s < stage => rows'[s] = RowOf(Order[s])
    BY <2>1, <2>4, <2>5
  <2> QED
    BY <1>2, <2>3, <2>4, <2>6 DEF BenchRows, Here
<1>10. BenchSums'
  BY <1>2 DEF BenchIInv, BenchSums
<1> QED
  BY <1>6, <1>7, <1>8, <1>9, <1>10 DEF BenchIInv

(* The container of main() is filled.                                      *)
LEMMA BenchBuilt == BenchIInv /\ BuildEnds => BenchIInv'
<1> SUFFICES ASSUME BenchIInv, BuildEnds PROVE BenchIInv'
  OBVIOUS
<1>1. N \in Nat
  BY BenchAssumption
<1>2. /\ phase = "build" /\ pos = Len(keys)
      /\ held' = Filled(Here, held) /\ phase' = "lookup" /\ pos' = 0 /\ ops' = 0 /\ sum' = 0
      /\ keys' = keys /\ queries' = queries /\ stage' = stage /\ rows' = rows /\ sums' = sums
  BY DEF BuildEnds, Enter
<1>3. stage \in 1..9 /\ IsShuffle(keys) /\ IsShuffle(queries) /\ pos \in 0..N
  BY <1>2 DEF BenchIInv, BenchControl
<1>4. pos = N
  BY <1>1, <1>2, <1>3 DEF IsShuffle
<1>5. IsContainer(Here)
  BY <1>3, Containers DEF Here
<1>6. LimitOf(Here) \in 1..N
  BY <1>3, <1>5, LimitScales
<1>7. BenchControl'
  BY <1>1, <1>2, <1>3, <1>6 DEF BenchControl, Here
<1>8. BenchHeld'
  <2>1. Filling(Here, held, keys, N)
    BY <1>2, <1>4 DEF BenchIInv, BenchHeld
  <2>2. Complete(Here, Filled(Here, held))
    BY <1>3, <1>5, <2>1, FilledCompletes
  <2> QED
    BY <1>2, <2>2 DEF BenchHeld, Here
<1>9. BenchSum'
  <2>1. Here.max \in Nat
    BY <1>5 DEF IsContainer
  <2>2. Summed(0, queries, 0, Here.max)
    BY <2>1, SumStarts
  <2> QED
    BY <1>2, <2>2 DEF BenchSum, Here
<1>10. BenchRows'
  BY <1>2 DEF BenchIInv, BenchRows, Here
<1>11. BenchSums'
  BY <1>2 DEF BenchIInv, BenchSums
<1> QED
  BY <1>7, <1>8, <1>9, <1>10, <1>11 DEF BenchIInv

(* A lookup adds the key it was asked for.                                 *)
LEMMA BenchLookup == BenchIInv /\ LookupStep => BenchIInv'
<1> SUFFICES ASSUME BenchIInv, LookupStep PROVE BenchIInv'
  OBVIOUS
<1>1. N \in Nat
  BY BenchAssumption
<1>2. /\ phase = "lookup" /\ pos < Limit(Here)
      /\ pos' = pos + 1 /\ ops' = ops + 1
      /\ keys' = keys /\ queries' = queries /\ stage' = stage /\ phase' = phase
      /\ held' = held /\ rows' = rows /\ sums' = sums
  BY DEF LookupStep
<1>3. stage \in 1..9 /\ IsShuffle(keys) /\ IsShuffle(queries) /\ pos \in 0..N /\ ops = pos
  BY <1>2 DEF BenchIInv, BenchControl
<1>4. IsContainer(Here)
  BY <1>3, Containers DEF Here
<1>5. Limit(Here) = LimitOf(Here) /\ LimitOf(Here) \in 1..N
  BY <1>3, <1>4, LimitScales
<1>6. pos \in 0..(N - 1) /\ pos + 1 <= LimitOf(Here)
  BY <1>1, <1>2, <1>3, <1>5
<1>7. Complete(Here, held)
  BY <1>2 DEF BenchIInv, BenchHeld
<1>8. PICK q \in 0..(N - 1) : q = queries[pos + 1]
  BY <1>1, <1>3, <1>6 DEF IsShuffle
<1>9. Found(Here, held, q) = {q}
  BY <1>4, <1>7, LookupFinds
<1>10. sum' = Added(sum, q, Here.max)
  <2> DEFINE found == Found(Here, held, queries[pos + 1])
  <2>2. sum' = IF found = {} THEN sum ELSE Added(sum, CHOOSE v \in found : TRUE, Here.max)
    BY DEF LookupStep
  <2>3. found = {q}
    BY <1>8, <1>9
  <2> HIDE DEF found
  <2>4. (CHOOSE v \in found : TRUE) = q
    BY <2>3
  <2>5. found # {}
    BY <2>3
  <2> QED
    BY <2>2, <2>4, <2>5
<1>11. Summed(sum', queries, pos + 1, Here.max)
  <2>1. Here.max \in Nat
    BY <1>4 DEF IsContainer
  <2>2. Summed(sum, queries, pos, Here.max)
    BY <1>2 DEF BenchIInv, BenchSum
  <2>3. Summed(Added(sum, queries[pos + 1], Here.max), queries, pos + 1, Here.max)
    BY <1>3, <1>6, <2>1, <2>2, SumStep
  <2> QED
    BY <1>8, <1>10, <2>3
<1>12. BenchControl'
  BY <1>1, <1>2, <1>3, <1>6 DEF BenchControl, Here
<1>13. BenchHeld'
  BY <1>2, <1>7 DEF BenchHeld, Here
<1>14. BenchSum'
  BY <1>2, <1>11 DEF BenchSum, Here
<1>15. BenchRows'
  BY <1>2 DEF BenchIInv, BenchRows, Here
<1>16. BenchSums'
  BY <1>2 DEF BenchIInv, BenchSums
<1> QED
  BY <1>12, <1>13, <1>14, <1>15, <1>16 DEF BenchIInv

(* bench_lookup_* has made its queries, and the capped one scales.         *)
LEMMA BenchLookedUp == BenchIInv /\ LookupReturns => BenchIInv'
<1> SUFFICES ASSUME BenchIInv, LookupReturns PROVE BenchIInv'
  OBVIOUS
<1>1. N \in Nat
  BY BenchAssumption
<1>2. /\ phase = "lookup" /\ pos = Limit(Here)
      /\ rows' = [rows EXCEPT ![stage].lookup = Scaled(Here, ops)]
      /\ sums' = Append(sums, [lookup |-> sum, iter |-> Undefined])
      /\ phase' = "iter" /\ pos' = 0 /\ ops' = 0 /\ sum' = 0
      /\ keys' = keys /\ queries' = queries /\ stage' = stage /\ held' = held
  BY DEF LookupReturns, Enter
<1>3. stage \in 1..9 /\ IsShuffle(keys) /\ IsShuffle(queries) /\ pos \in 0..N /\ ops = pos
  BY <1>2 DEF BenchIInv, BenchControl
<1>4. IsContainer(Here)
  BY <1>3, Containers DEF Here
<1>5. /\ Limit(Here) = LimitOf(Here)
      /\ ~Here.scanned => LimitOf(Here) = N
      /\ Scaled(Here, LimitOf(Here)) = LookupOf(Here)
  BY <1>3, <1>4, LimitScales
<1>6. Scaled(Here, ops) = LookupOf(Here) /\ LookupOf(Here) \in Nat
  BY <1>2, <1>3, <1>4, <1>5, LookupsStandFor
<1>7. Here.max \in Nat /\ Summed(sum, queries, pos, Here.max)
  BY <1>2, <1>4 DEF BenchIInv, BenchSum, IsContainer
<1>8. ~Here.scanned => sum = ExactSum(Here)
  <2>1. ASSUME ~Here.scanned PROVE sum = ExactSum(Here)
    <3>1. Summed(sum, queries, N, Here.max)
      BY <1>2, <1>5, <1>7, <2>1
    <3> QED
      BY <1>3, <1>7, <3>1, SumComplete DEF ExactSum
  <2> QED
    BY <2>1
<1>9. BenchControl'
  BY <1>1, <1>2, <1>3 DEF BenchControl
<1>10. BenchHeld'
  BY <1>2 DEF BenchIInv, BenchHeld, Here
<1>11. BenchSum'
  <2>1. Summed(0, Elements(Here, held), 0, Here.max)
    BY <1>7, SumStarts
  <2> QED
    BY <1>2, <2>1 DEF BenchSum, Here
<1>12. BenchRows'
  <2>1. /\ rows \in Seq(RowSet)
        /\ Len(rows) = stage
        /\ \A s \in DOMAIN rows : s < stage => rows[s] = RowOf(Order[s])
        /\ rows[stage].insert = N /\ rows[stage].sorts = SortsTimed(Here)
    BY <1>2 DEF BenchIInv, BenchRows
  <2>2. PICK r : r = [rows[stage] EXCEPT !.lookup = LookupOf(Here)]
    OBVIOUS
  <2>3. rows' = [rows EXCEPT ![stage] = r]
    BY <1>2, <1>6, <2>2
  <2>4. rows[stage] \in RowSet
    BY <1>3, <2>1, ElementType
  <2>5. /\ r \in RowSet
        /\ r.insert = N /\ r.sorts = SortsTimed(Here) /\ r.lookup = LookupOf(Here)
    BY <1>6, <2>1, <2>2, <2>4 DEF RowSet
  <2>6. /\ rows' \in Seq(RowSet)
        /\ Len(rows') = stage
        /\ rows'[stage] = r
        /\ \A s \in DOMAIN rows : s < stage => rows'[s] = rows[s]
        /\ DOMAIN rows' = DOMAIN rows
    <3>1. PICK S : S = RowSet
      OBVIOUS
    <3>2. rows \in Seq(S) /\ r \in S /\ Len(rows) = stage
      BY <2>1, <2>5, <3>1
    <3>3. /\ rows' \in Seq(S)
          /\ Len(rows') = stage
          /\ rows'[stage] = r
          /\ DOMAIN rows' = DOMAIN rows
          /\ \A s \in DOMAIN rows : s # stage => rows'[s] = rows[s]
      BY <1>3, <2>3, <3>2, RowChanged
    <3>4. \A s \in DOMAIN rows : s < stage => s # stage
      BY <1>3
    <3> QED
      BY <3>1, <3>3, <3>4
  <2>7. \A s \in DOMAIN rows' : s < stage => rows'[s] = RowOf(Order[s])
    BY <2>1, <2>6
  <2> QED
    BY <1>2, <2>5, <2>6, <2>7 DEF BenchRows, Here
<1>13. BenchSums'
  <2>1. /\ sums \in Seq([lookup : Int, iter : Int])
        /\ Len(sums) = stage - 1
        /\ \A s \in DOMAIN sums : s < stage =>
             /\ sums[s].iter = ExactSum(Order[s])
             /\ ~Order[s].scanned => sums[s].lookup = ExactSum(Order[s])
    BY <1>2 DEF BenchIInv, BenchSums
  <2>2. PICK r : r = [lookup |-> sum, iter |-> Undefined]
    OBVIOUS
  <2>3. r \in [lookup : Int, iter : Int] /\ r.lookup = sum
    BY <1>7, <2>2, SumIsInt DEF Undefined
  <2>4. /\ sums' \in Seq([lookup : Int, iter : Int])
        /\ Len(sums') = stage
        /\ sums'[stage] = r
        /\ \A s \in 1..(stage - 1) : sums'[s] = sums[s]
    <3>1. PICK S : S = [lookup : Int, iter : Int]
      OBVIOUS
    <3>2. sums \in Seq(S) /\ r \in S /\ Len(sums) = stage - 1
      BY <2>1, <2>3, <3>1
    <3>3. /\ Append(sums, r) \in Seq(S)
          /\ Len(Append(sums, r)) = stage
          /\ Append(sums, r)[stage] = r
          /\ \A s \in 1..(stage - 1) : Append(sums, r)[s] = sums[s]
      BY <1>3, <3>2, RowAppended
    <3>4. sums' = Append(sums, r)
      BY <1>2, <2>2
    <3> QED
      BY <3>1, <3>3, <3>4
  <2>5. \A s \in DOMAIN sums' : s < stage => s \in DOMAIN sums /\ s \in 1..(stage - 1)
    <3>1. DOMAIN sums' = 1..stage
      BY <2>4
    <3>2. DOMAIN sums = 1..(stage - 1)
      BY <2>1
    <3> QED
      BY <1>3, <3>1, <3>2
  <2>6. \A s \in DOMAIN sums' : s < stage =>
          /\ sums'[s].iter = ExactSum(Order[s])
          /\ ~Order[s].scanned => sums'[s].lookup = ExactSum(Order[s])
    BY <2>1, <2>4, <2>5
  <2>7. ~Here.scanned => sums'[stage].lookup = ExactSum(Here)
    BY <1>8, <2>3, <2>4
  <2> QED
    BY <1>2, <2>4, <2>6, <2>7 DEF BenchSums, Here
<1> QED
  BY <1>9, <1>10, <1>11, <1>12, <1>13 DEF BenchIInv

(* The iteration adds the next element.                                    *)
LEMMA BenchIter == BenchIInv /\ IterStep => BenchIInv'
<1> SUFFICES ASSUME BenchIInv, IterStep PROVE BenchIInv'
  OBVIOUS
<1>1. N \in Nat
  BY BenchAssumption
<1>2. /\ phase = "iter" /\ pos < Len(Elements(Here, held))
      /\ sum' = Added(sum, Elements(Here, held)[pos + 1], Here.max)
      /\ pos' = pos + 1 /\ ops' = ops + 1
      /\ keys' = keys /\ queries' = queries /\ stage' = stage /\ phase' = phase
      /\ held' = held /\ rows' = rows /\ sums' = sums
  BY DEF IterStep
<1>3. stage \in 1..9 /\ IsShuffle(keys) /\ IsShuffle(queries) /\ pos \in 0..N /\ ops = pos
  BY <1>2 DEF BenchIInv, BenchControl
<1>4. IsContainer(Here)
  BY <1>3, Containers DEF Here
<1>5. Complete(Here, held)
  BY <1>2 DEF BenchIInv, BenchHeld
<1>6. IsShuffle(Elements(Here, held)) /\ Len(Elements(Here, held)) = N
  BY <1>4, <1>5, ElementsAreKeys
<1>7. pos \in 0..(N - 1)
  BY <1>1, <1>2, <1>3, <1>6
<1>8. Summed(sum', Elements(Here, held), pos + 1, Here.max)
  <2>1. Here.max \in Nat
    BY <1>4 DEF IsContainer
  <2>2. PICK s : s = Elements(Here, held)
    OBVIOUS
  <2>3. Summed(sum, s, pos, Here.max)
    BY <1>2, <2>2 DEF BenchIInv, BenchSum
  <2>4. Summed(Added(sum, s[pos + 1], Here.max), s, pos + 1, Here.max)
    BY <1>6, <1>7, <2>1, <2>2, <2>3, SumStep
  <2> QED
    BY <1>2, <2>2, <2>4
<1>9. BenchControl'
  BY <1>1, <1>2, <1>3, <1>7 DEF BenchControl
<1>10. BenchHeld'
  BY <1>2, <1>5 DEF BenchHeld, Here
<1>11. BenchSum'
  BY <1>2, <1>8 DEF BenchSum, Here
<1>12. BenchRows'
  BY <1>2 DEF BenchIInv, BenchRows, Here
<1>13. BenchSums'
  BY <1>2 DEF BenchIInv, BenchSums, Here
<1> QED
  BY <1>9, <1>10, <1>11, <1>12, <1>13 DEF BenchIInv

(* bench_iter_* has seen N elements: the row of the container is full.     *)
LEMMA BenchIterated == BenchIInv /\ IterReturns => BenchIInv'
<1> SUFFICES ASSUME BenchIInv, IterReturns PROVE BenchIInv'
  OBVIOUS
<1>1. N \in Nat
  BY BenchAssumption
<1>2. /\ phase = "iter" /\ pos = Len(Elements(Here, held))
      /\ rows' = [rows EXCEPT ![stage].iter = ops]
      /\ sums' = [sums EXCEPT ![stage].iter = sum]
      /\ held' = <<>> /\ pos' = 0 /\ ops' = 0
      /\ keys' = keys /\ queries' = queries /\ stage' = stage + 1
      /\ phase' = IF stage < Len(Order) THEN "insert" ELSE "table"
  BY DEF IterReturns, Enter
<1>3. stage \in 1..9 /\ IsShuffle(keys) /\ IsShuffle(queries) /\ pos \in 0..N /\ ops = pos
  BY <1>2 DEF BenchIInv, BenchControl
<1>4. IsContainer(Here)
  BY <1>3, Containers DEF Here
<1>5. IsShuffle(Elements(Here, held)) /\ Len(Elements(Here, held)) = N
  BY <1>2, <1>4, ElementsAreKeys DEF BenchIInv, BenchHeld
<1>6. pos = N
  BY <1>2, <1>5
<1>7. Here.max \in Nat /\ Summed(sum, Elements(Here, held), N, Here.max)
  BY <1>2, <1>4, <1>6 DEF BenchIInv, BenchSum, IsContainer
<1>8. sum = ExactSum(Here) /\ sum \in Int
  BY <1>5, <1>7, SumComplete, SumIsInt DEF ExactSum
<1>9. /\ phase' \in {"insert", "table"}
      /\ phase' = "insert" => stage' \in 1..9
      /\ phase' = "table" => stage' = 10
  BY <1>2, <1>3, Containers
<1>10. BenchControl'
  BY <1>1, <1>2, <1>3, <1>9 DEF BenchControl
<1>11. BenchHeld'
  <2>1. ASSUME phase' = "insert" PROVE Filling(Order[stage'], <<>>, keys, 0)
    <3>1. IsContainer(Order[stage'])
      BY <1>9, <2>1, Containers
    <3> QED
      BY <3>1, EmptyFills
  <2> QED
    BY <1>2, <1>9, <2>1 DEF BenchHeld, Here
<1>12. BenchSum'
  BY <1>9 DEF BenchSum
<1>13. BenchRows'
  <2>1. /\ rows \in Seq(RowSet)
        /\ Len(rows) = stage
        /\ \A s \in DOMAIN rows : s < stage => rows[s] = RowOf(Order[s])
        /\ rows[stage].insert = N /\ rows[stage].sorts = SortsTimed(Here)
        /\ rows[stage].lookup = LookupOf(Here)
    BY <1>2 DEF BenchIInv, BenchRows
  <2>2. PICK r : r = [rows[stage] EXCEPT !.iter = N]
    OBVIOUS
  <2>3. rows' = [rows EXCEPT ![stage] = r]
    BY <1>2, <1>3, <1>6, <2>2
  <2>4. rows[stage] \in RowSet
    BY <1>3, <2>1, ElementType
  <2>5. /\ r \in RowSet
        /\ r = RowOf(Order[stage])
    BY <1>1, <2>1, <2>2, <2>4 DEF RowSet, RowOf, Here
  <2>6. /\ rows' \in Seq(RowSet)
        /\ Len(rows') = stage
        /\ rows'[stage] = r
        /\ \A s \in DOMAIN rows : s # stage => rows'[s] = rows[s]
        /\ DOMAIN rows' = DOMAIN rows
    <3>1. PICK S : S = RowSet
      OBVIOUS
    <3>2. rows \in Seq(S) /\ r \in S /\ Len(rows) = stage
      BY <2>1, <2>5, <3>1
    <3>3. /\ rows' \in Seq(S)
          /\ Len(rows') = stage
          /\ rows'[stage] = r
          /\ DOMAIN rows' = DOMAIN rows
          /\ \A s \in DOMAIN rows : s # stage => rows'[s] = rows[s]
      BY <1>3, <2>3, <3>2, RowChanged
    <3> QED
      BY <3>1, <3>3
  <2>7. \A s \in DOMAIN rows : s \in Int /\ (s < stage \/ s = stage)
    BY <1>3, <2>1
  <2>8. \A s \in DOMAIN rows' : rows'[s] = RowOf(Order[s])
    BY <2>1, <2>5, <2>6, <2>7
  <2>9. Len(rows') = stage' - 1
    <3>1. Len(rows') = stage
      BY <2>6
    <3>2. stage' - 1 = stage
      BY <1>2, <1>3
    <3> QED
      BY <3>1, <3>2
  <2> QED
    BY <1>9, <2>6, <2>8, <2>9 DEF BenchRows
<1>14. BenchSums'
  <2>1. /\ sums \in Seq([lookup : Int, iter : Int])
        /\ Len(sums) = stage
        /\ \A s \in DOMAIN sums : s < stage =>
             /\ sums[s].iter = ExactSum(Order[s])
             /\ ~Order[s].scanned => sums[s].lookup = ExactSum(Order[s])
        /\ ~Order[stage].scanned => sums[stage].lookup = ExactSum(Order[stage])
    BY <1>2 DEF BenchIInv, BenchSums, Here
  <2>2. PICK r : r = [sums[stage] EXCEPT !.iter = sum]
    OBVIOUS
  <2>3. sums' = [sums EXCEPT ![stage] = r]
    BY <1>2, <2>2
  <2>4. sums[stage] \in [lookup : Int, iter : Int]
    BY <1>3, <2>1, ElementType
  <2>5. /\ r \in [lookup : Int, iter : Int]
        /\ r.iter = ExactSum(Order[stage])
        /\ r.lookup = sums[stage].lookup
    BY <1>8, <2>2, <2>4 DEF Here
  <2>6. /\ sums' \in Seq([lookup : Int, iter : Int])
        /\ Len(sums') = stage
        /\ sums'[stage] = r
        /\ \A s \in DOMAIN sums : s # stage => sums'[s] = sums[s]
        /\ DOMAIN sums' = DOMAIN sums
    <3>1. PICK S : S = [lookup : Int, iter : Int]
      OBVIOUS
    <3>2. sums \in Seq(S) /\ r \in S /\ Len(sums) = stage
      BY <2>1, <2>5, <3>1
    <3>3. /\ sums' \in Seq(S)
          /\ Len(sums') = stage
          /\ sums'[stage] = r
          /\ DOMAIN sums' = DOMAIN sums
          /\ \A s \in DOMAIN sums : s # stage => sums'[s] = sums[s]
      BY <1>3, <2>3, <3>2, RowChanged
    <3> QED
      BY <3>1, <3>3
  <2>7. \A s \in DOMAIN sums : s \in Int /\ (s < stage \/ s = stage)
    BY <1>3, <2>1
  <2>8. \A s \in DOMAIN sums' : /\ sums'[s].iter = ExactSum(Order[s])
                                /\ ~Order[s].scanned => sums'[s].lookup = ExactSum(Order[s])
    BY <2>1, <2>5, <2>6, <2>7
  <2>9. Len(sums') = stage' - 1
    <3>1. Len(sums') = stage
      BY <2>6
    <3>2. stage' - 1 = stage
      BY <1>2, <1>3
    <3> QED
      BY <3>1, <3>2
  <2> QED
    BY <1>9, <2>6, <2>8, <2>9 DEF BenchSums
<1> QED
  BY <1>10, <1>11, <1>12, <1>13, <1>14 DEF BenchIInv

(* Every step keeps the invariant.                                         *)
LEMMA BenchStep == BenchIInv /\ [BenchNext]_benchVars => BenchIInv'
<1> SUFFICES ASSUME BenchIInv, [BenchNext]_benchVars PROVE BenchIInv'
  OBVIOUS
<1>1. ASSUME UNCHANGED benchVars PROVE BenchIInv'
  <2>1. /\ keys' = keys /\ queries' = queries /\ stage' = stage /\ phase' = phase /\ pos' = pos
        /\ held' = held /\ ops' = ops /\ sum' = sum /\ rows' = rows /\ sums' = sums
    BY <1>1 DEF benchVars
  <2>2. BenchControl' /\ BenchHeld' /\ BenchSum'
    BY <2>1 DEF BenchIInv, BenchControl, BenchHeld, BenchSum, Here
  <2>3. BenchRows'
    BY <2>1 DEF BenchIInv, BenchRows, Here
  <2>4. BenchSums'
    BY <2>1 DEF BenchIInv, BenchSums, Here
  <2> QED
    BY <2>2, <2>3, <2>4 DEF BenchIInv
<1> QED
  BY <1>1, BenchGenerate, BenchFill, BenchInserted, BenchBuilt, BenchLookup, BenchLookedUp,
     BenchIter, BenchIterated DEF BenchNext, BenchDone

(* The two properties follow.                                              *)
LEMMA BenchFollows == BenchIInv => SameData /\ RowsComparable
<1> SUFFICES ASSUME BenchIInv PROVE SameData /\ RowsComparable
  OBVIOUS
<1>1. LookupsAgree
  <2>1. SUFFICES ASSUME phase = "lookup", NEW j \in DOMAIN queries
                 PROVE  Found(Here, held, queries[j]) = {queries[j]}
    BY DEF LookupsAgree
  <2>2. stage \in 1..9 /\ IsShuffle(queries) /\ Complete(Here, held)
    BY <2>1 DEF BenchIInv, BenchControl, BenchHeld
  <2>3. queries[j] \in 0..(N - 1)
    BY <2>1, <2>2 DEF IsShuffle
  <2>4. IsContainer(Here)
    BY <2>2, Containers DEF Here
  <2> QED
    BY <2>2, <2>3, <2>4, LookupFinds
<1>2. SumsExact
  BY DEF BenchIInv, BenchSums, SumsExact, ExactSum, Held
<1>3. RowsComparable
  <2>1. SUFFICES ASSUME NEW s \in DOMAIN rows, s < stage
                 PROVE  /\ rows[s].insert = N /\ rows[s].iter = N
                        /\ rows[s].sorts = IF Order[s].sorted THEN 1 ELSE 0
                        /\ rows[s].lookup <= N /\ N - rows[s].lookup < LINEAR_SCAN_CAP
                        /\ \/ ~Order[s].scanned
                           \/ N % LINEAR_SCAN_CAP = 0
                           \/ N < LINEAR_SCAN_CAP
                           => rows[s].lookup = N
    BY DEF RowsComparable
  <2>2. rows[s] = RowOf(Order[s]) /\ Len(rows) <= 9 /\ rows \in Seq(RowSet)
    BY <2>1 DEF BenchIInv, BenchRows, BenchControl
  <2>3. s \in 1..9
    BY <2>2
  <2>4. IsContainer(Order[s])
    BY <2>3, Containers
  <2>5. /\ rows[s].insert = N /\ rows[s].iter = N
        /\ rows[s].sorts = SortsTimed(Order[s])
        /\ rows[s].lookup = LookupOf(Order[s])
    BY <2>2 DEF RowOf
  <2> QED
    BY <2>4, <2>5, LookupsStandFor DEF SortsTimed
<1> QED
  BY <1>1, <1>2, <1>3 DEF SameData

(***************************************************************************)
(* For every number of keys and every cap that divides it or exceeds it,   *)
(* whatever the shuffle: each lookup of each container finds the key asked *)
(* for, and the sums that bench_lookup_* and bench_iter_* come to are the  *)
(* sum of the keys, or overflow exactly when it does not fit.              *)
(***************************************************************************)
THEOREM AllContainersSameData == BenchSpec => []SameData
<1>1. BenchIInv /\ [BenchNext]_benchVars => BenchIInv'
  BY BenchStep
<1> QED
  BY <1>1, BenchStarts, BenchFollows, PTL DEF BenchSpec

(***************************************************************************)
(* And the rows of the table of main() are comparable, for any number of   *)
(* keys and any cap: N insertions with the one timed sort of the vector,   *)
(* and lookups that stand for N or for the multiples of the cap in N.      *)
(***************************************************************************)
THEOREM AllRowsComparable == BenchSpec => []RowsComparable
<1>1. BenchIInv /\ [BenchNext]_benchVars => BenchIInv'
  BY BenchStep
<1> QED
  BY <1>1, BenchStarts, BenchFollows, PTL DEF BenchSpec
=============================================================================
