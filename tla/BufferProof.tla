----------------------------- MODULE BufferProof -----------------------------
(***************************************************************************)
(* Theorems about Buffer for any number of objects, blocks and sizes.      *)
(*                                                                         *)
(* OwnedOnce is inductive together with Dead: a constructor must find no   *)
(* pointer in the storage it is given, or the copy constructor would be    *)
(* taken to read through it.                                               *)
(***************************************************************************)
EXTENDS Buffer, TLAPS

(* Storage without an object has no pointer.                               *)
Dead == \A o \in Objects \ live : data_[o] = NULL

IInv == OwnedOnce /\ Dead

(* The contents a block may have.                                          *)
Arrays == UNION {[1..n -> Bytes] : n \in Sizes \cup {0}}

(* The sizes of the buffers are natural numbers.                           *)
LEMMA SizesAreNats == \A n \in Sizes \cup {0} : n \in Nat /\ (n # 0 => n > 0)
BY SizesAssumption

(***************************************************************************)
(* An array of n bytes has length n, and indices below n keep it one.      *)
(***************************************************************************)
LEMMA ArrayFacts ==
  ASSUME NEW n \in Sizes \cup {0}, NEW c \in [1..n -> Bytes]
  PROVE  /\ c \in Arrays
         /\ c \in Seq(Bytes)
         /\ DOMAIN c = 1..n
         /\ Len(c) = n
<1>1. n \in Nat
  BY SizesAssumption
<1>2. QED
  BY <1>1 DEF Arrays

(* The length of an array is one of the sizes, and its elements are bytes. *)
LEMMA ArrayHasSize ==
  ASSUME NEW c \in Arrays
  PROVE  /\ Len(c) \in Sizes \cup {0}
         /\ c \in [1..Len(c) -> Bytes]
<1>1. PICK n \in Sizes \cup {0} : c \in [1..n -> Bytes]
  BY DEF Arrays
<1>2. QED
  BY <1>1, ArrayFacts

(* What value initialisation makes is an array.                            *)
LEMMA ZerosArray ==
  ASSUME NEW n \in Sizes \cup {0}
  PROVE  Zeros(n) \in Arrays /\ Len(Zeros(n)) = n
<1>1. Zeros(n) \in [1..n -> Bytes]
  BY BytesAssumption DEF Zeros
<1>2. QED
  BY <1>1, ArrayFacts

(* The contents of an empty buffer are an array.                           *)
LEMMA EmptyArray == <<>> \in Arrays
<1>1. <<>> \in [1..0 -> Bytes]
  OBVIOUS
<1>2. QED
  BY <1>1, ArrayFacts

(* A prefix of an array consists of bytes.                                 *)
LEMMA PrefixArray ==
  ASSUME NEW n \in Nat, NEW c \in [1..n -> Bytes], NEW k \in Nat, k <= n
  PROVE  SubSeq(c, 1, k) \in [1..k -> Bytes]
<1>1. c \in Seq(Bytes) /\ Len(c) = n
  OBVIOUS
<1>2. SubSeq(c, 1, k) = [i \in 1..k |-> c[i]]
  BY <1>1
<1>3. \A i \in 1..k : c[i] \in Bytes
  OBVIOUS
<1>4. [i \in 1..k |-> c[i]] \in [1..k -> Bytes]
  BY <1>3
<1>5. QED
  BY <1>2, <1>4

(* Writing one element leaves an array of the same length.                 *)
LEMMA OverwrittenArray ==
  ASSUME NEW c \in Arrays, NEW i \in DOMAIN c, NEW v \in Bytes
  PROVE  [c EXCEPT ![i] = v] \in Arrays /\ Len([c EXCEPT ![i] = v]) = Len(c)
<1>1. PICK n \in Sizes \cup {0} : c \in [1..n -> Bytes]
  BY DEF Arrays
<1>2. [c EXCEPT ![i] = v] \in [1..n -> Bytes]
  BY <1>1
<1>3. QED
  BY <1>1, <1>2, ArrayFacts

(***************************************************************************)
(* What the copying loop leaves in the new block is an array of the size   *)
(* of the source, unless it read through a dangling pointer.               *)
(***************************************************************************)
LEMMA CopiedArray ==
  ASSUME TypeOK, NEW o \in Objects, NEW p \in Objects, ~ReadsFreed(o, p)
  PROVE  CopiedBytes(o, p) \in Arrays /\ Len(CopiedBytes(o, p)) = size_[p]
<1>1. size_[p] \in Sizes \cup {0}
  BY DEF TypeOK
<1>2. CASE o = p \/ size_[p] = 0
  BY <1>1, <1>2, ZerosArray DEF CopiedBytes
<1>3. CASE o # p /\ size_[p] # 0
  <2>1. size_[p] \in Nat /\ size_[p] > 0
    BY <1>1, <1>3, SizesAreNats
  <2>2. data_[p] \in alloc /\ Len(mem[data_[p]]) >= size_[p]
    <3>1. data_[p] \in alloc /\ ~(Len(mem[data_[p]]) < size_[p])
      BY <1>3, <2>1 DEF ReadsFreed
    <3>2. mem[data_[p]] \in Arrays
      BY <3>1 DEF TypeOK, Arrays
    <3>3. Len(mem[data_[p]]) \in Nat
      BY <3>2, ArrayHasSize, SizesAreNats
    <3>4. QED
      BY <3>1, <3>3, <2>1
  <2> DEFINE c == mem[data_[p]]
  <2>3. c \in Arrays
    BY <2>2 DEF TypeOK, Arrays
  <2>4. Len(c) \in Nat /\ c \in [1..Len(c) -> Bytes]
    BY <2>3, ArrayHasSize, SizesAreNats
  <2>5. CopiedBytes(o, p) = SubSeq(c, 1, size_[p])
    BY <1>3 DEF CopiedBytes
  <2>6. SubSeq(c, 1, size_[p]) \in [1..size_[p] -> Bytes]
    BY <2>1, <2>2, <2>4, PrefixArray
  <2>7. QED
    BY <1>1, <2>5, <2>6, ArrayFacts
<1>4. QED
  BY <1>2, <1>3

(***************************************************************************)
(* Every operation keeps the state well typed, after undefined behaviour   *)
(* was avoided or not.                                                     *)
(***************************************************************************)
LEMMA TypeStep == TypeOK /\ [Next]_vars => TypeOK'
<1> SUFFICES ASSUME TypeOK, [Next]_vars PROVE TypeOK'
  OBVIOUS
<1> DEFINE Heap == alloc \subseteq Blocks /\ mem \in [Blocks -> Arrays]
           Members == /\ live \subseteq Objects
                      /\ data_ \in [Objects -> Blocks \cup {NULL}]
                      /\ size_ \in [Objects -> Sizes \cup {0}]
           Counters == /\ s_copies_ \in 0..MaxCount
                       /\ s_moves_ \in 0..MaxCount
                       /\ fault \in BOOLEAN
                       /\ threw \in BOOLEAN
<1>a. Heap /\ Members /\ Counters
  BY DEF TypeOK, Arrays
<1>b. Heap' /\ Members' /\ Counters' => TypeOK'
  BY DEF TypeOK, Arrays
<1>c. ASSUME NEW q PROVE Cleared(q) \in [Blocks -> Arrays]
  BY <1>a, EmptyArray DEF Cleared
<1>d. Crash => TypeOK'
  BY <1>a, <1>b DEF Crash
<1>1. CASE reset_counters
  BY <1>1, <1>a, <1>b, BoundAssumption DEF reset_counters
<1>2. ASSUME NEW o \in Objects, Destroy(o) PROVE TypeOK'
  <2>1. CASE Defined(data_[o])
    <3>1. Heap'
      BY <1>2, <2>1, <1>a, <1>c DEF Destroy, AfterDelete
    <3>2. Members' /\ Counters'
      BY <1>2, <2>1, <1>a DEF Destroy
    <3>3. QED
      BY <3>1, <3>2, <1>b
  <2>2. QED
    BY <1>2, <2>1, <1>d DEF Destroy
<1>3. ASSUME NEW o \in Objects, NEW n \in Sizes, Construct(o, n) PROVE TypeOK'
  <2>1. PICK b \in Blocks \ alloc :
          /\ alloc' = alloc \cup {b}
          /\ mem' = [mem EXCEPT ![b] = Zeros(n)]
          /\ data_' = [data_ EXCEPT ![o] = b]
    BY <1>3 DEF Construct
  <2>2. Heap'
    BY <2>1, <1>a, ZerosArray
  <2>3. Members' /\ Counters'
    BY <1>3, <2>1, <1>a DEF Construct
  <2>4. QED
    BY <2>2, <2>3, <1>b
<1>4. ASSUME NEW o \in Objects, NEW i \in Sizes, NEW v \in Bytes, Write(o, i, v) PROVE TypeOK'
  <2>1. CASE data_[o] \in alloc /\ i \in DOMAIN mem[data_[o]]
    <3> DEFINE c == mem[data_[o]]
    <3>1. c \in Arrays
      BY <2>1, <1>a
    <3>2. [c EXCEPT ![i] = v] \in Arrays
      BY <2>1, <3>1, OverwrittenArray
    <3>3. mem' = [mem EXCEPT ![data_[o]] = [c EXCEPT ![i] = v]]
      BY <1>4, <2>1, <1>d DEF Write
    <3>4. Heap'
      BY <1>4, <2>1, <3>2, <3>3, <1>a DEF Write
    <3>5. Members' /\ Counters'
      BY <1>4, <2>1, <1>a DEF Write
    <3>6. QED
      BY <3>4, <3>5, <1>b
  <2>2. QED
    BY <1>4, <2>1, <1>d DEF Write
<1>5. ASSUME NEW o \in Objects, NEW p \in Objects, CopyConstruct(o, p) PROVE TypeOK'
  <2>1. CASE ~ReadsFreed(o, p)
    <3>1. PICK b \in Blocks \ alloc :
            /\ alloc' = alloc \cup {b}
            /\ mem' = [mem EXCEPT ![b] = CopiedBytes(o, p)]
            /\ data_' = [data_ EXCEPT ![o] = b]
      BY <1>5, <2>1 DEF CopyConstruct
    <3>2. Heap'
      BY <2>1, <3>1, <1>a, CopiedArray
    <3>3. Members' /\ Counters'
      BY <1>5, <2>1, <3>1, <1>a, BoundAssumption DEF CopyConstruct
    <3>4. QED
      BY <3>2, <3>3, <1>b
  <2>2. QED
    BY <1>5, <2>1, <1>d DEF CopyConstruct
<1>6. ASSUME NEW o \in Objects, NEW p \in Objects, CopyAssign(o, p) PROVE TypeOK'
  <2>1. CASE Defined(data_[o]) /\ ~ReadsFreed(o, p)
    <3>1. PICK b \in Blocks \ Kept(o) :
            /\ alloc' = Kept(o) \cup {b}
            /\ mem' = [Cleared(data_[o]) EXCEPT ![b] = CopiedBytes(o, p)]
            /\ data_' = [data_ EXCEPT ![o] = b]
      BY <1>6, <2>1 DEF CopyAssign
    <3>2. Heap'
      <4>1. mem' \in [Blocks -> Arrays]
        BY <2>1, <3>1, <1>c, CopiedArray
      <4>2. QED
        BY <3>1, <4>1, <1>a DEF Kept, AfterDelete
    <3>3. Members' /\ Counters'
      BY <1>6, <2>1, <3>1, <1>a, BoundAssumption DEF CopyAssign
    <3>4. QED
      BY <3>2, <3>3, <1>b
  <2>2. QED
    BY <1>6, <2>1, <1>d DEF CopyAssign
<1>7. ASSUME NEW o \in Objects, NEW p \in Objects, CopyAssignThrows(o, p) PROVE TypeOK'
  <2>1. Heap'
    BY <1>7, <1>a, <1>c DEF CopyAssignThrows, Kept, AfterDelete
  <2>2. Members' /\ Counters'
    BY <1>7, <1>a DEF CopyAssignThrows
  <2>3. QED
    BY <2>1, <2>2, <1>b
<1>8. ASSUME NEW o \in Objects, NEW p \in Objects, MoveConstruct(o, p) PROVE TypeOK'
  <2>1. Members'
    BY <1>8, <1>a DEF MoveConstruct, StealPtr, StealSize
  <2>2. Heap' /\ Counters'
    BY <1>8, <1>a, BoundAssumption DEF MoveConstruct
  <2>3. QED
    BY <2>1, <2>2, <1>b
<1>9. ASSUME NEW o \in Objects, NEW p \in Objects, MoveAssign(o, p) PROVE TypeOK'
  <2>1. CASE Defined(data_[o])
    <3>1. Heap'
      BY <1>9, <2>1, <1>a, <1>c DEF MoveAssign, Kept, AfterDelete
    <3>2. Members'
      BY <1>9, <2>1, <1>a DEF MoveAssign, StealPtr, StealSize
    <3>3. Counters'
      BY <1>9, <2>1, <1>a, BoundAssumption DEF MoveAssign
    <3>4. QED
      BY <3>1, <3>2, <3>3, <1>b
  <2>2. QED
    BY <1>9, <2>1, <1>d DEF MoveAssign
<1>10. CASE UNCHANGED vars
  BY <1>10 DEF vars, TypeOK
<1>11. QED
  BY <1>1, <1>2, <1>3, <1>4, <1>5, <1>6, <1>7, <1>8, <1>9, <1>10 DEF Next

(***************************************************************************)
(* Until an exception leaves a copy assignment, every operation keeps the  *)
(* pointers of different objects apart and their sizes right, and none     *)
(* runs into undefined behaviour.                                          *)
(***************************************************************************)
LEMMA ExclusiveStep == TypeOK /\ Exclusive /\ Dead /\ [Next]_vars => Exclusive' /\ Dead'
<1> SUFFICES ASSUME TypeOK, Exclusive, Dead, [Next]_vars PROVE Exclusive' /\ Dead'
  OBVIOUS
<1> DEFINE Good(o) == /\ data_[o] = NULL => size_[o] = 0
                      /\ data_[o] # NULL => data_[o] \in alloc /\ Len(mem[data_[o]]) = size_[o]
           Apart(o, p) == data_[o] = data_[p] /\ data_[o] # NULL => o = p
<1>a. /\ alloc \subseteq Blocks
      /\ live \subseteq Objects
      /\ mem \in [Blocks -> Arrays]
      /\ data_ \in [Objects -> Blocks \cup {NULL}]
      /\ size_ \in [Objects -> Sizes \cup {0}]
  BY DEF TypeOK, Arrays
<1>b. ~threw => /\ ~fault
                /\ \A o \in live : Good(o)
                /\ \A o, p \in live : Apart(o, p)
  BY DEF Exclusive
<1>c. \A o \in Objects \ live : data_[o] = NULL
  BY DEF Dead
<1>d. (~threw' => /\ ~fault'
                  /\ \A o \in live' : Good(o)'
                  /\ \A o, p \in live' : Apart(o, p)') => Exclusive'
  BY DEF Exclusive
<1>e. ~threw => \A o \in live : Defined(data_[o])
  BY <1>b DEF Defined
<1>f. ~threw => \A o \in Objects, p \in live : ~ReadsFreed(o, p)
  <2> SUFFICES ASSUME ~threw, NEW o \in Objects, NEW p \in live, o # p, size_[p] > 0
               PROVE  data_[p] \in alloc \ {data_[o]} /\ ~(Len(mem[data_[p]]) < size_[p])
    BY DEF ReadsFreed
  <2>1. Good(p)
    BY <1>b
  <2>2. size_[p] \in Nat
    BY <1>a, SizesAreNats
  <2>3. data_[p] # NULL
    BY <2>1, <2>2
  <2>4. data_[p] # data_[o]
    BY <1>b, <1>c, <2>3
  <2>5. QED
    BY <2>1, <2>2, <2>3, <2>4
<1>g. ASSUME NEW o \in Objects, NEW b \in Blocks \ Kept(o), NEW c, NEW k, Len(c) = k,
             alloc' = Kept(o) \cup {b},
             mem' = [Cleared(data_[o]) EXCEPT ![b] = c],
             data_' = [data_ EXCEPT ![o] = b],
             size_' = [size_ EXCEPT ![o] = k],
             live' = live \cup {o},
             fault' = fault, threw' = threw
      PROVE  Exclusive' /\ Dead'
  <2>1. Dead'
    BY <1>g, <1>a, <1>c DEF Dead
  <2>2. alloc' = (alloc \ {data_[o]}) \cup {b} /\ b \notin alloc \ {data_[o]}
    BY <1>g DEF Kept, AfterDelete
  <2>3. mem'[b] = c /\ \A x \in Blocks \ {b, data_[o]} : mem'[x] = mem[x]
    BY <1>g DEF Cleared
  <2>4. b # NULL
    BY NullAssumption
  <2>5. \A x \in live' : x # o => /\ x \in live
                                  /\ data_'[x] = data_[x]
                                  /\ size_'[x] = size_[x]
    BY <1>g, <1>a
  <2>6. data_'[o] = b /\ size_'[o] = k
    BY <1>g, <1>a
  <2>7. ASSUME ~threw, NEW x \in live', x # o
        PROVE  /\ Good(x)
               /\ data_[x] # NULL => data_[x] # data_[o] /\ data_[x] # b
    BY <2>2, <2>5, <2>7, <1>a, <1>b, <1>c
  <2>8. ASSUME ~threw, NEW x \in live' PROVE Good(x)'
    <3>1. CASE x = o
      BY <1>g, <2>2, <2>3, <2>4, <2>6, <3>1
    <3>2. CASE x # o
      <4>1. data_[x] # NULL => data_[x] \in alloc' /\ mem'[data_[x]] = mem[data_[x]]
        BY <2>2, <2>3, <2>7, <2>8, <3>2, <1>a
      <4>2. QED
        BY <2>5, <2>7, <2>8, <3>2, <4>1
    <3>3. QED
      BY <3>1, <3>2
  <2>9. ASSUME ~threw, NEW x \in live', NEW y \in live' PROVE Apart(x, y)'
    BY <2>5, <2>6, <2>7, <2>9, <1>b
  <2>10. QED
    BY <1>g, <2>1, <2>8, <2>9, <1>b, <1>d
<1>h. ASSUME NEW o \in Objects \ live PROVE Kept(o) = alloc /\ Cleared(data_[o]) = mem
  BY <1>a, <1>c, NullAssumption DEF Kept, AfterDelete, Cleared
<1>1. CASE reset_counters
  BY <1>1, <1>a, <1>b, <1>c, <1>d DEF reset_counters, Dead
<1>2. ASSUME NEW o \in Objects, Destroy(o) PROVE Exclusive' /\ Dead'
  <2>1. CASE Defined(data_[o])
    <3>1. /\ alloc' = alloc \ {data_[o]}
          /\ mem' = [b \in Blocks |-> IF b = data_[o] THEN <<>> ELSE mem[b]]
          /\ live' = live \ {o}
          /\ data_' = [data_ EXCEPT ![o] = NULL]
          /\ size_' = [size_ EXCEPT ![o] = 0]
          /\ fault' = fault /\ threw' = threw
          /\ o \in live
      BY <1>2, <2>1 DEF Destroy, AfterDelete, Cleared, Crash
    <3>2. Dead'
      BY <3>1, <1>a, <1>c DEF Dead
    <3>3. ASSUME ~threw, NEW x \in live' PROVE Good(x)'
      <4>1. x \in live /\ x # o /\ Good(x) /\ Apart(x, o)
        BY <3>1, <3>3, <1>b
      <4>2. data_'[x] = data_[x] /\ size_'[x] = size_[x]
        BY <3>1, <4>1, <1>a
      <4>3. data_[x] # NULL => data_[x] \in alloc' /\ mem'[data_[x]] = mem[data_[x]]
        BY <3>1, <4>1, <1>a
      <4>4. QED
        BY <4>1, <4>2, <4>3
    <3>4. ASSUME ~threw, NEW x \in live', NEW y \in live' PROVE Apart(x, y)'
      BY <3>1, <3>4, <1>a, <1>b
    <3>5. QED
      BY <3>1, <3>2, <3>3, <3>4, <1>b, <1>d
  <2>2. CASE ~Defined(data_[o])
    BY <1>2, <2>2, <1>d, <1>e, <1>c DEF Destroy, Crash, Dead
  <2>3. QED
    BY <2>1, <2>2
<1>3. ASSUME NEW o \in Objects, NEW n \in Sizes, Construct(o, n) PROVE Exclusive' /\ Dead'
  <2>1. PICK b \in Blocks \ alloc :
          /\ alloc' = alloc \cup {b}
          /\ mem' = [mem EXCEPT ![b] = Zeros(n)]
          /\ data_' = [data_ EXCEPT ![o] = b]
    BY <1>3 DEF Construct
  <2>2. /\ size_' = [size_ EXCEPT ![o] = n]
        /\ live' = live \cup {o}
        /\ fault' = fault /\ threw' = threw
        /\ o \notin live
    BY <1>3 DEF Construct
  <2>3. Len(Zeros(n)) = n
    BY ZerosArray
  <2>4. QED
    BY <2>1, <2>2, <2>3, <1>g, <1>h
<1>4. ASSUME NEW o \in Objects, NEW i \in Sizes, NEW v \in Bytes, Write(o, i, v)
      PROVE  Exclusive' /\ Dead'
  <2>1. CASE data_[o] \in alloc /\ i \in DOMAIN mem[data_[o]]
    <3>1. /\ mem' = [mem EXCEPT ![data_[o]][i] = v]
          /\ alloc' = alloc /\ live' = live /\ data_' = data_ /\ size_' = size_
          /\ fault' = fault /\ threw' = threw
      BY <1>4, <2>1 DEF Write
    <3>2. \A b \in Blocks : Len(mem'[b]) = Len(mem[b])
      BY <2>1, <3>1, <1>a, OverwrittenArray
    <3>3. QED
      BY <3>1, <3>2, <1>a, <1>b, <1>c, <1>d DEF Dead
  <2>2. CASE ~(data_[o] \in alloc /\ i \in DOMAIN mem[data_[o]])
    <3>1. Crash /\ o \in live /\ i \in 1..size_[o]
      BY <1>4, <2>2 DEF Write
    <3>2. threw
      <4> SUFFICES ASSUME ~threw PROVE FALSE
        OBVIOUS
      <4>1. Good(o) /\ size_[o] \in Nat /\ i \in 1..size_[o]
        BY <3>1, <1>a, <1>b, SizesAreNats
      <4>2. data_[o] # NULL
        BY <4>1
      <4>3. mem[data_[o]] \in Arrays /\ Len(mem[data_[o]]) = size_[o]
        BY <4>1, <4>2, <1>a
      <4>4. DOMAIN mem[data_[o]] = 1..size_[o]
        BY <4>3, ArrayHasSize
      <4>5. QED
        BY <2>2, <4>1, <4>2, <4>4
    <3>3. QED
      BY <3>1, <3>2, <1>c, <1>d DEF Crash, Dead
  <2>3. QED
    BY <2>1, <2>2
<1>5. ASSUME NEW o \in Objects, NEW p \in Objects, CopyConstruct(o, p)
      PROVE  Exclusive' /\ Dead'
  <2>1. CASE ~ReadsFreed(o, p)
    <3>1. PICK b \in Blocks \ alloc :
            /\ alloc' = alloc \cup {b}
            /\ mem' = [mem EXCEPT ![b] = CopiedBytes(o, p)]
            /\ data_' = [data_ EXCEPT ![o] = b]
      BY <1>5, <2>1 DEF CopyConstruct
    <3>2. /\ size_' = [size_ EXCEPT ![o] = size_[p]]
          /\ live' = live \cup {o}
          /\ fault' = fault /\ threw' = threw
          /\ o \notin live
      BY <1>5, <2>1 DEF CopyConstruct
    <3>3. Len(CopiedBytes(o, p)) = size_[p]
      BY <2>1, CopiedArray
    <3>4. QED
      BY <3>1, <3>2, <3>3, <1>g, <1>h
  <2>2. CASE ReadsFreed(o, p)
    BY <1>5, <2>2, <1>c, <1>d, <1>f DEF CopyConstruct, Crash, Dead
  <2>3. QED
    BY <2>1, <2>2
<1>6. ASSUME NEW o \in Objects, NEW p \in Objects, CopyAssign(o, p)
      PROVE  Exclusive' /\ Dead'
  <2>1. CASE Defined(data_[o]) /\ ~ReadsFreed(o, p)
    <3>1. PICK b \in Blocks \ Kept(o) :
            /\ alloc' = Kept(o) \cup {b}
            /\ mem' = [Cleared(data_[o]) EXCEPT ![b] = CopiedBytes(o, p)]
            /\ data_' = [data_ EXCEPT ![o] = b]
      BY <1>6, <2>1 DEF CopyAssign
    <3>2. /\ size_' = [size_ EXCEPT ![o] = size_[p]]
          /\ live' = live /\ o \in live
          /\ fault' = fault /\ threw' = threw
      BY <1>6, <2>1 DEF CopyAssign
    <3>3. Len(CopiedBytes(o, p)) = size_[p] /\ live' = live \cup {o}
      BY <2>1, <3>2, CopiedArray
    <3>4. QED
      BY <3>1, <3>2, <3>3, <1>g
  <2>2. CASE ~(Defined(data_[o]) /\ ~ReadsFreed(o, p))
    BY <1>6, <2>2, <1>c, <1>d, <1>e, <1>f DEF CopyAssign, Crash, Dead
  <2>3. QED
    BY <2>1, <2>2
<1>7. ASSUME NEW o \in Objects, NEW p \in Objects, CopyAssignThrows(o, p)
      PROVE  Exclusive' /\ Dead'
  BY <1>7, <1>c, <1>d DEF CopyAssignThrows, Dead
<1>8. ASSUME NEW o \in Objects, NEW p \in Objects, MoveConstruct(o, p)
      PROVE  Exclusive' /\ Dead'
  <2>1. /\ data_' = [data_ EXCEPT ![o] = data_[p], ![p] = NULL]
        /\ size_' = [size_ EXCEPT ![o] = size_[p], ![p] = 0]
        /\ live' = live \cup {o}
        /\ alloc' = alloc /\ mem' = mem /\ fault' = fault /\ threw' = threw
        /\ o \notin live /\ p \in live
    BY <1>8 DEF MoveConstruct, StealPtr, StealSize
  <2>2. Dead'
    BY <2>1, <1>a, <1>c DEF Dead
  <2>3. ASSUME ~threw, NEW x \in live' PROVE Good(x)'
    BY <2>1, <2>3, <1>a, <1>b
  <2>4. ASSUME ~threw, NEW x \in live', NEW y \in live' PROVE Apart(x, y)'
    BY <2>1, <2>4, <1>a, <1>b
  <2>5. QED
    BY <2>1, <2>2, <2>3, <2>4, <1>b, <1>d
<1>9. ASSUME NEW o \in Objects, NEW p \in Objects, MoveAssign(o, p)
      PROVE  Exclusive' /\ Dead'
  <2>1. CASE Defined(data_[o])
    <3>1. /\ data_' = [data_ EXCEPT ![o] = data_[p], ![p] = NULL]
          /\ size_' = [size_ EXCEPT ![o] = size_[p], ![p] = 0]
          /\ alloc' = alloc \ {data_[o]}
          /\ mem' = [b \in Blocks |-> IF b = data_[o] THEN <<>> ELSE mem[b]]
          /\ live' = live /\ fault' = fault /\ threw' = threw
          /\ o \in live /\ p \in live
      BY <1>9, <2>1 DEF MoveAssign, StealPtr, StealSize, Kept, AfterDelete, Cleared, Crash
    <3>2. Dead'
      BY <3>1, <1>a, <1>c DEF Dead
    <3>3. ASSUME ~threw, NEW x \in live' PROVE Good(x)'
      <4>1. CASE x = p
        BY <3>1, <4>1, <1>a
      <4>2. CASE x # p
        <5> DEFINE y == IF x = o THEN p ELSE x
        <5>1. data_'[x] = data_[y] /\ size_'[x] = size_[y] /\ y \in live /\ y # o
          BY <3>1, <4>2, <1>a
        <5>2. Good(y) /\ Apart(y, o)
          BY <3>3, <5>1, <3>1, <1>b
        <5> HIDE DEF y
        <5>3. data_[y] # NULL => data_[y] \in alloc' /\ mem'[data_[y]] = mem[data_[y]]
          BY <3>1, <5>1, <5>2, <1>a
        <5>4. QED
          BY <5>1, <5>2, <5>3
      <4>3. QED
        BY <4>1, <4>2
    <3>4. ASSUME ~threw, NEW x \in live', NEW y \in live' PROVE Apart(x, y)'
      BY <3>1, <3>4, <1>a, <1>b
    <3>5. QED
      BY <3>1, <3>2, <3>3, <3>4, <1>b, <1>d
  <2>2. CASE ~Defined(data_[o])
    BY <1>9, <2>2, <1>c, <1>d, <1>e DEF MoveAssign, Crash, Dead
  <2>3. QED
    BY <2>1, <2>2
<1>10. CASE UNCHANGED vars
  BY <1>10 DEF vars, Exclusive, Dead
<1>11. QED
  BY <1>1, <1>2, <1>3, <1>4, <1>5, <1>6, <1>7, <1>8, <1>9, <1>10 DEF Next

(***************************************************************************)
(* No operation loses the last pointer to an allocated block, dangling     *)
(* pointers to it notwithstanding.                                         *)
(***************************************************************************)
LEMMA NoLeakStep == TypeOK /\ NoLeak /\ [Next]_vars => NoLeak'
<1> SUFFICES ASSUME TypeOK, NoLeak, [Next]_vars PROVE NoLeak'
  OBVIOUS
<1>a. live \subseteq Objects /\ data_ \in [Objects -> Blocks \cup {NULL}] /\ alloc \subseteq Blocks
  BY DEF TypeOK
<1>b. \A b \in alloc : \E x \in live : data_[x] = b
  BY DEF NoLeak
<1>c. (\A b \in alloc' : \E x \in live' : data_'[x] = b) => NoLeak'
  BY DEF NoLeak
<1>d. Crash => NoLeak'
  BY DEF Crash, NoLeak
<1>1. CASE reset_counters
  BY <1>1 DEF reset_counters, NoLeak
<1>2. ASSUME NEW o \in Objects, Destroy(o) PROVE NoLeak'
  <2>1. CASE ~Defined(data_[o])
    BY <1>2, <2>1, <1>d DEF Destroy
  <2>2. CASE Defined(data_[o])
    <3>1. /\ alloc' = alloc \ {data_[o]}
          /\ live' = live \ {o}
          /\ data_' = [data_ EXCEPT ![o] = NULL]
      BY <1>2, <2>2 DEF Destroy, AfterDelete
    <3>2. QED
      BY <3>1, <1>a, <1>b, <1>c
  <2>3. QED
    BY <2>1, <2>2
<1>3. ASSUME NEW o \in Objects, NEW b \in Blocks,
             alloc' \subseteq (alloc \ {data_[o]}) \cup {b}
               \/ (o \notin live /\ alloc' \subseteq alloc \cup {b}),
             data_' = [data_ EXCEPT ![o] = b],
             live' = live \cup {o}
      PROVE  NoLeak'
  BY <1>3, <1>a, <1>b, <1>c
<1>4. ASSUME NEW o \in Objects, NEW n \in Sizes, Construct(o, n) PROVE NoLeak'
  BY <1>3, <1>4 DEF Construct
<1>5. ASSUME NEW o \in Objects, NEW i \in Sizes, NEW v \in Bytes, Write(o, i, v) PROVE NoLeak'
  BY <1>5, <1>d DEF Write, NoLeak
<1>6. ASSUME NEW o \in Objects, NEW p \in Objects, CopyConstruct(o, p) PROVE NoLeak'
  BY <1>3, <1>6, <1>d DEF CopyConstruct
<1>7. ASSUME NEW o \in Objects, NEW p \in Objects, CopyAssign(o, p) PROVE NoLeak'
  <2>1. CASE Crash
    BY <2>1, <1>d
  <2>2. CASE ~Crash
    <3>1. PICK b \in Blocks \ Kept(o) :
            /\ alloc' = Kept(o) \cup {b}
            /\ data_' = [data_ EXCEPT ![o] = b]
      BY <1>7, <2>2 DEF CopyAssign
    <3>2. live' = live \cup {o}
      BY <1>7, <2>2 DEF CopyAssign
    <3>3. QED
      BY <1>3, <3>1, <3>2 DEF Kept, AfterDelete
  <2>3. QED
    BY <2>1, <2>2
<1>8. ASSUME NEW o \in Objects, NEW p \in Objects, CopyAssignThrows(o, p) PROVE NoLeak'
  BY <1>8, <1>b, <1>c DEF CopyAssignThrows, Kept, AfterDelete
<1>9. ASSUME NEW o \in Objects, NEW p \in Objects, MoveConstruct(o, p) PROVE NoLeak'
  <2>1. /\ data_' = [data_ EXCEPT ![o] = data_[p], ![p] = NULL]
        /\ live' = live \cup {o} /\ o \notin live /\ p \in live
        /\ alloc' = alloc
    BY <1>9 DEF MoveConstruct, StealPtr
  <2>2. ASSUME NEW b \in alloc PROVE \E x \in live' : data_'[x] = b
    <3>1. PICK x \in live : data_[x] = b
      BY <1>b
    <3>2. b # NULL
      BY <1>a, NullAssumption
    <3>3. CASE x = p
      BY <2>1, <3>1, <3>2, <3>3, <1>a
    <3>4. CASE x # p
      BY <2>1, <3>1, <3>4, <1>a
    <3>5. QED
      BY <3>3, <3>4
  <2>3. QED
    BY <2>1, <2>2, <1>c
<1>10. ASSUME NEW o \in Objects, NEW p \in Objects, MoveAssign(o, p) PROVE NoLeak'
  <2>1. CASE ~Defined(data_[o])
    BY <1>10, <2>1, <1>d DEF MoveAssign
  <2>2. CASE Defined(data_[o])
    <3>1. /\ data_' = [data_ EXCEPT ![o] = data_[p], ![p] = NULL]
          /\ live' = live /\ o \in live /\ p \in live
          /\ alloc' = alloc \ {data_[o]}
      BY <1>10, <2>2 DEF MoveAssign, StealPtr, Kept, AfterDelete, Crash
    <3>2. ASSUME NEW b \in alloc' PROVE \E x \in live' : data_'[x] = b
      <4>1. PICK x \in live : data_[x] = b /\ x # o
        BY <3>1, <3>2, <1>b
      <4>2. CASE x = p
        BY <3>1, <4>1, <4>2, <1>a
      <4>3. CASE x # p
        BY <3>1, <4>1, <4>3, <1>a
      <4>4. QED
        BY <4>2, <4>3
    <3>3. QED
      BY <3>2, <1>c
  <2>3. QED
    BY <2>1, <2>2
<1>11. CASE UNCHANGED vars
  BY <1>11 DEF vars, NoLeak
<1>12. QED
  BY <1>1, <1>2, <1>4, <1>5, <1>6, <1>7, <1>8, <1>9, <1>10, <1>11 DEF Next

(***************************************************************************)
(* The whole inductive invariant.                                          *)
(***************************************************************************)
LEMMA Invariance == Spec => []IInv
<1>1. Init => IInv
  <2>1. Init => TypeOK
    <3>1. Init => mem \in [Blocks -> Arrays]
      BY EmptyArray DEF Init
    <3>2. Init => data_ \in [Objects -> Blocks \cup {NULL}] /\ size_ \in [Objects -> Sizes \cup {0}]
      BY DEF Init
    <3>3. Init => s_copies_ \in 0..MaxCount /\ s_moves_ \in 0..MaxCount
      BY BoundAssumption DEF Init
    <3>4. Init => fault \in BOOLEAN /\ threw \in BOOLEAN
      BY DEF Init
    <3>5. Init => alloc \subseteq Blocks /\ live \subseteq Objects
      BY DEF Init
    <3>6. QED
      BY <3>1, <3>2, <3>3, <3>4, <3>5 DEF TypeOK, Arrays
  <2>2. QED
    BY <2>1 DEF Init, IInv, OwnedOnce, Exclusive, NoLeak, Dead
<1>2. IInv /\ [Next]_vars => IInv'
  BY TypeStep, ExclusiveStep, NoLeakStep DEF IInv, OwnedOnce
<1>3. QED
  BY <1>1, <1>2, PTL DEF Spec

(***************************************************************************)
(* Every allocated block has exactly one owner whose size_ is its size, so *)
(* ~Buffer and the assignments delete each block once: for every order of  *)
(* the operations of Buffer, except that nothing but the absence of leaks  *)
(* is claimed after an exception has left a copy assignment.               *)
(***************************************************************************)
THEOREM SingleOwnership == Spec => []OwnedOnce
<1>1. IInv => OwnedOnce
  BY DEF IInv
<1>2. QED
  BY <1>1, Invariance, PTL

(***************************************************************************)
(* The value of a live object is an array, never the mark of a dead one.   *)
(***************************************************************************)
LEMMA LiveValue ==
  ASSUME IInv, ~threw, NEW o \in live
  PROVE  /\ Value(o) \in Arrays
         /\ Value(o) # NULL
         /\ Len(Value(o)) = size_[o]
         /\ o \in Objects
<1>1. o \in Objects
  BY DEF IInv, OwnedOnce, TypeOK
<1>2. Value(o) = IF data_[o] = NULL THEN <<>> ELSE mem[data_[o]]
  BY DEF Value
<1>3. data_[o] = NULL => size_[o] = 0
  BY DEF IInv, OwnedOnce, Exclusive
<1>4. data_[o] # NULL => data_[o] \in Blocks /\ Len(mem[data_[o]]) = size_[o]
  BY DEF IInv, OwnedOnce, Exclusive, TypeOK
<1>5. mem \in [Blocks -> Arrays]
  BY DEF IInv, OwnedOnce, TypeOK, Arrays
<1>6. Value(o) \in Arrays
  BY <1>2, <1>4, <1>5, EmptyArray
<1>7. Len(Value(o)) = size_[o]
  BY <1>2, <1>3, <1>4
<1>8. NULL \notin Arrays
  BY NullIsNoArray DEF Arrays
<1>9. QED
  BY <1>1, <1>6, <1>7, <1>8

(***************************************************************************)
(* A step that changes the value of one object only.                       *)
(***************************************************************************)
LEMMA OneValueChanges ==
  ASSUME NEW o \in Objects, NEW c, Value(o)' = c,
         \A x \in Objects \ {o} : Value(x)' = Value(x)
  PROVE  Contents' = [Contents EXCEPT ![o] = c]
<1>1. \A x \in Objects : Value(x)' = IF x = o THEN c ELSE Value(x)
  OBVIOUS
<1>2. Contents' = [x \in Objects |-> Value(x)']
  BY DEF Contents
<1>3. Contents' = [x \in Objects |-> IF x = o THEN c ELSE Value(x)]
  BY <1>1, <1>2
<1>4. QED
  BY <1>3 DEF Contents

(***************************************************************************)
(* The loop of the copy operations reproduces the value of another object. *)
(***************************************************************************)
LEMMA CopiedValue ==
  ASSUME IInv, ~threw, NEW o \in Objects, NEW p \in live, o # p, ~ReadsFreed(o, p)
  PROVE  CopiedBytes(o, p) = Value(p)
<1>1. Value(p) \in Arrays /\ Len(Value(p)) = size_[p] /\ p \in Objects
  BY LiveValue
<1>2. Value(p) \in [1..size_[p] -> Bytes]
  BY <1>1, ArrayHasSize
<1>3. size_[p] \in Sizes \cup {0}
  BY <1>1 DEF IInv, OwnedOnce, TypeOK
<1>4. CASE size_[p] = 0
  <2>1. CopiedBytes(o, p) = Zeros(0)
    BY <1>4 DEF CopiedBytes
  <2>2. Value(p) \in [1..0 -> Bytes]
    BY <1>2, <1>4
  <2>3. Zeros(0) \in [1..0 -> Bytes]
    BY BytesAssumption DEF Zeros
  <2>4. QED
    BY <2>1, <2>2, <2>3
<1>5. CASE size_[p] # 0
  <2>1. size_[p] \in Nat
    BY <1>3, SizesAreNats
  <2>2. data_[p] # NULL
    BY <1>5 DEF IInv, OwnedOnce, Exclusive
  <2>3. CopiedBytes(o, p) = SubSeq(Value(p), 1, size_[p])
    BY <1>5, <2>2 DEF CopiedBytes, Value
  <2> DEFINE c == Value(p)
  <2> DEFINE n == size_[p]
  <2>4. c \in [1..n -> Bytes] /\ n \in Nat
    BY <1>2, <2>1
  <2> HIDE DEF c, n
  <2>5. SubSeq(c, 1, n) = c
    BY <2>4
  <2>6. QED
    BY <2>3, <2>5 DEF c, n
<1>6. QED
  BY <1>4, <1>5

(***************************************************************************)
(* A step of the program that no exception has preceded is a step on plain *)
(* values, except a copy of an object onto itself.                         *)
(***************************************************************************)
LEMMA ValueStep ==
  ASSUME IInv, Next, ~threw'
  PROVE  \/ \E o \in Objects : CopyAssign(o, o)
         \/ Abstract!Next
         \/ UNCHANGED <<Contents, s_copies_, s_moves_>>
<1>a. ~threw
  BY ZenonT(60) DEF Next, reset_counters, Destroy, Construct, Write, CopyConstruct, CopyAssign,
         CopyAssignThrows, MoveConstruct, MoveAssign, Crash
<1>b. /\ data_ \in [Objects -> Blocks \cup {NULL}]
      /\ size_ \in [Objects -> Sizes \cup {0}]
      /\ mem \in [Blocks -> Arrays]
      /\ live \subseteq Objects
      /\ alloc \subseteq Blocks
  BY DEF IInv, OwnedOnce, TypeOK, Arrays
<1>c. /\ \A x \in live : data_[x] # NULL => data_[x] \in alloc
      /\ \A x, y \in live : data_[x] = data_[y] /\ data_[x] # NULL => x = y
      /\ \A x \in Objects \ live : data_[x] = NULL
  BY <1>a DEF IInv, OwnedOnce, Exclusive, Dead
<1>d. \A x \in live : Defined(data_[x])
  BY <1>c DEF Defined
<1>e. \A x \in live : Abstract!Alive(x) /\ Contents[x] = Value(x)
  <2>1. ASSUME NEW x \in live PROVE Value(x) # NULL /\ x \in Objects
    BY <1>a, LiveValue
  <2>2. QED
    BY <2>1 DEF Abstract!Alive, Contents
<1>f. \A x \in Objects \ live : ~Abstract!Alive(x) /\ Value(x) = NULL
  BY DEF Abstract!Alive, Contents, Value
<1>1. CASE reset_counters
  <2>1. Contents' = Contents
    BY <1>1 DEF reset_counters, Contents, Value
  <2>2. QED
    BY <1>1, <2>1 DEF reset_counters, Abstract!Next, Abstract!ResetCounters
<1>2. ASSUME NEW o \in Objects, Destroy(o) PROVE Abstract!Next
  <2>1. /\ o \in live
        /\ mem' = Cleared(data_[o])
        /\ live' = live \ {o}
        /\ data_' = [data_ EXCEPT ![o] = NULL]
        /\ s_copies_' = s_copies_ /\ s_moves_' = s_moves_
    BY <1>2, <1>d DEF Destroy
  <2>2. Value(o)' = NULL
    BY <2>1 DEF Value
  <2>3. ASSUME NEW x \in Objects \ {o} PROVE Value(x)' = Value(x)
    <3>1. data_'[x] = data_[x] /\ (x \in live' <=> x \in live)
      BY <2>1, <1>b
    <3>2. x \in live /\ data_[x] # NULL => mem'[data_[x]] = mem[data_[x]]
      BY <2>1, <1>b, <1>c DEF Cleared
    <3>3. QED
      BY <3>1, <3>2 DEF Value
  <2>4. Contents' = [Contents EXCEPT ![o] = NULL]
    BY <2>2, <2>3, OneValueChanges
  <2>5. Abstract!Destroy(o)
    BY <2>1, <2>4, <1>e DEF Abstract!Destroy
  <2>6. QED
    BY <2>5 DEF Abstract!Next
(* A new block b with the bytes c becomes the value of o, whose old block,
   if it had one, is gone.                                                 *)
<1>3. ASSUME NEW o \in Objects, NEW c, NEW b \in Blocks \ Kept(o),
             data_' = [data_ EXCEPT ![o] = b],
             live' = live \cup {o},
             mem' = [mem EXCEPT ![b] = c] \/ mem' = [Cleared(data_[o]) EXCEPT ![b] = c]
      PROVE  Contents' = [Contents EXCEPT ![o] = c]
  <2>1. mem'[b] = c
    BY <1>3, <1>b DEF Cleared
  <2>2. b # NULL
    BY NullAssumption
  <2>3. Value(o)' = c
    BY <1>3, <1>b, <2>1, <2>2 DEF Value
  <2>4. ASSUME NEW x \in Objects \ {o} PROVE Value(x)' = Value(x)
    <3>1. data_'[x] = data_[x] /\ (x \in live' <=> x \in live)
      BY <1>3, <1>b
    <3>2. ASSUME x \in live, data_[x] # NULL PROVE mem'[data_[x]] = mem[data_[x]]
      <4>1. data_[x] \in alloc /\ data_[x] # data_[o]
        BY <3>2, <1>b, <1>c
      <4>2. data_[x] # b /\ data_[x] \in Blocks
        BY <4>1, <1>b DEF Kept, AfterDelete
      <4>3. QED
        BY <1>3, <1>b, <4>1, <4>2 DEF Cleared
    <3>3. QED
      BY <3>1, <3>2 DEF Value
  <2>5. QED
    BY <2>3, <2>4, OneValueChanges
<1>4. ASSUME NEW o \in Objects, NEW n \in Sizes, Construct(o, n) PROVE Abstract!Next
  <2>1. o \notin live /\ live' = live \cup {o} /\ s_copies_' = s_copies_ /\ s_moves_' = s_moves_
    BY <1>4 DEF Construct
  <2>2. PICK b \in Blocks \ alloc : /\ mem' = [mem EXCEPT ![b] = Zeros(n)]
                                    /\ data_' = [data_ EXCEPT ![o] = b]
    BY <1>4 DEF Construct
  <2>3. Contents' = [Contents EXCEPT ![o] = Zeros(n)]
    BY <1>3, <2>1, <2>2 DEF Kept, AfterDelete
  <2>4. Abstract!Create(o, n)
    BY <1>f, <2>1, <2>3 DEF Abstract!Create, Zeros
  <2>5. QED
    BY <2>4 DEF Abstract!Next
<1>5. ASSUME NEW o \in Objects, NEW i \in Sizes, NEW v \in Bytes, Write(o, i, v)
      PROVE  Abstract!Next
  <2>1. o \in live /\ i \in 1..size_[o] /\ data_[o] # NULL
    <3>1. o \in live /\ i \in 1..size_[o]
      BY <1>5 DEF Write
    <3>2. size_[o] # 0
      BY <3>1
    <3>3. QED
      BY <3>1, <3>2, <1>a DEF IInv, OwnedOnce, Exclusive
  <2>2. Value(o) = mem[data_[o]] /\ Value(o) \in Arrays /\ Len(Value(o)) = size_[o]
    BY <2>1, <1>a, LiveValue DEF Value
  <2>3. DOMAIN Value(o) = 1..size_[o]
    BY <2>2, ArrayHasSize
  <2>4. /\ mem' = [mem EXCEPT ![data_[o]][i] = v]
        /\ UNCHANGED <<alloc, live, data_, s_copies_, s_moves_>>
    BY <1>5, <1>c, <2>1, <2>2, <2>3 DEF Write
  <2>5. Value(o)' = [Value(o) EXCEPT ![i] = v]
    BY <2>1, <2>2, <2>4, <1>b DEF Value
  <2>6. ASSUME NEW x \in Objects \ {o} PROVE Value(x)' = Value(x)
    BY <2>1, <2>4, <1>b, <1>c DEF Value
  <2>7. Contents' = [Contents EXCEPT ![o] = [Value(o) EXCEPT ![i] = v]]
    BY <2>5, <2>6, OneValueChanges
  <2>8. Contents' = [Contents EXCEPT ![o][i] = v]
    BY <2>7 DEF Contents
  <2>9. Abstract!Write(o, i, v)
    BY <1>e, <2>1, <2>3, <2>4, <2>8 DEF Abstract!Write
  <2>10. QED
    BY <2>9 DEF Abstract!Next
<1>6. ASSUME NEW o \in Objects, NEW p \in Objects, CopyConstruct(o, p)
      PROVE  Abstract!Next \/ UNCHANGED <<Contents, s_copies_, s_moves_>>
  <2>1. CASE ReadsFreed(o, p)
    BY <1>6, <2>1 DEF CopyConstruct, Crash, Contents, Value
  <2>2. CASE ~ReadsFreed(o, p)
    <3>1. /\ o \notin live /\ p \in live /\ live' = live \cup {o}
          /\ s_copies_' = s_copies_ + 1 /\ s_moves_' = s_moves_
      BY <1>6, <2>2 DEF CopyConstruct
    <3>2. PICK b \in Blocks \ alloc : /\ mem' = [mem EXCEPT ![b] = CopiedBytes(o, p)]
                                      /\ data_' = [data_ EXCEPT ![o] = b]
      BY <1>6, <2>2 DEF CopyConstruct
    <3>3. CopiedBytes(o, p) = Value(p)
      BY <1>a, <2>2, <3>1, CopiedValue
    <3>4. Contents' = [Contents EXCEPT ![o] = Value(p)]
      BY <1>3, <3>1, <3>2, <3>3 DEF Kept, AfterDelete
    <3>5. Abstract!Copy(o, p)
      BY <1>e, <3>1, <3>4 DEF Abstract!Copy
    <3>6. QED
      BY <3>5 DEF Abstract!Next
  <2>3. QED
    BY <2>1, <2>2
<1>7. ASSUME NEW o \in Objects, NEW p \in Objects, CopyAssign(o, p), o # p
      PROVE  Abstract!Next \/ UNCHANGED <<Contents, s_copies_, s_moves_>>
  <2>1. o \in live /\ p \in live /\ Defined(data_[o])
    BY <1>7, <1>d DEF CopyAssign
  <2>2. CASE ReadsFreed(o, p)
    BY <1>7, <2>1, <2>2 DEF CopyAssign, Crash, Contents, Value
  <2>3. CASE ~ReadsFreed(o, p)
    <3>1. /\ live' = live \cup {o}
          /\ s_copies_' = s_copies_ + 1 /\ s_moves_' = s_moves_
      BY <1>7, <2>1, <2>3 DEF CopyAssign
    <3>2. PICK b \in Blocks \ Kept(o) :
            /\ mem' = [Cleared(data_[o]) EXCEPT ![b] = CopiedBytes(o, p)]
            /\ data_' = [data_ EXCEPT ![o] = b]
      BY <1>7, <2>1, <2>3 DEF CopyAssign
    <3>3. CopiedBytes(o, p) = Value(p)
      BY <1>7, <1>a, <2>1, <2>3, CopiedValue
    <3>4. Contents' = [Contents EXCEPT ![o] = Value(p)]
      BY <1>3, <3>1, <3>2, <3>3
    <3>5. Abstract!Copy(o, p)
      BY <1>e, <2>1, <3>1, <3>4 DEF Abstract!Copy
    <3>6. QED
      BY <3>5 DEF Abstract!Next
  <2>4. QED
    BY <2>2, <2>3
(* Both moves: the block changes hands, and what o had is gone.            *)
<1>8. ASSUME NEW o \in Objects, NEW p \in live, live' = live \cup {o},
             data_' = StealPtr(o, p),
             \A b \in Blocks : b # data_[o] => mem'[b] = mem[b]
      PROVE  Contents' = [Contents EXCEPT ![o] = Contents[p], ![p] = <<>>]
  <2>1. Value(p)' = <<>>
    BY <1>8, <1>b DEF Value, StealPtr
  <2>2. o # p => Value(o)' = Value(p)
    <3>1. SUFFICES ASSUME o # p PROVE Value(o)' = Value(p)
      OBVIOUS
    <3>2. data_'[o] = data_[p] /\ o \in live'
      BY <1>8, <1>b, <3>1 DEF StealPtr
    <3>3. data_[p] # NULL => data_[p] \in Blocks /\ data_[p] # data_[o]
      BY <1>b, <1>c, <3>1
    <3>4. QED
      BY <1>8, <3>2, <3>3 DEF Value
  <2>3. ASSUME NEW x \in Objects, x # o, x # p PROVE Value(x)' = Value(x)
    <3>1. data_'[x] = data_[x] /\ (x \in live' <=> x \in live)
      BY <1>8, <1>b, <2>3 DEF StealPtr
    <3>2. x \in live /\ data_[x] # NULL => data_[x] \in Blocks /\ data_[x] # data_[o]
      BY <1>b, <1>c, <2>3
    <3>3. QED
      BY <1>8, <3>1, <3>2 DEF Value
  <2>4. \A x \in Objects : Value(x)' = IF x = p THEN <<>> ELSE IF x = o THEN Value(p) ELSE Value(x)
    BY <2>1, <2>2, <2>3
  <2>5. Contents' = [x \in Objects |-> Value(x)']
    BY DEF Contents
  <2>6. Contents' = [x \in Objects |-> IF x = p THEN <<>> ELSE IF x = o THEN Value(p) ELSE Value(x)]
    BY <2>4, <2>5
  <2>7. Contents[p] = Value(p)
    BY <1>e
  <2>8. QED
    BY <2>6, <2>7 DEF Contents
<1>9. ASSUME NEW o \in Objects, NEW p \in Objects, MoveConstruct(o, p) PROVE Abstract!Next
  <2>1. /\ p \in live /\ live' = live \cup {o}
        /\ data_' = StealPtr(o, p) /\ mem' = mem
        /\ s_moves_' = s_moves_ + 1 /\ s_copies_' = s_copies_
    BY <1>9 DEF MoveConstruct
  <2>2. Contents' = [Contents EXCEPT ![o] = Contents[p], ![p] = <<>>]
    BY <1>8, <2>1
  <2>3. Abstract!Move(o, p)
    BY <1>e, <2>1, <2>2 DEF Abstract!Move
  <2>4. QED
    BY <2>3 DEF Abstract!Next
<1>10. ASSUME NEW o \in Objects, NEW p \in Objects, MoveAssign(o, p) PROVE Abstract!Next
  <2>1. /\ p \in live /\ o \in live /\ live' = live
        /\ data_' = StealPtr(o, p) /\ mem' = Cleared(data_[o])
        /\ s_moves_' = s_moves_ + 1 /\ s_copies_' = s_copies_
    BY <1>10, <1>d DEF MoveAssign
  <2>2. \A b \in Blocks : b # data_[o] => mem'[b] = mem[b]
    BY <2>1 DEF Cleared
  <2>3. Contents' = [Contents EXCEPT ![o] = Contents[p], ![p] = <<>>]
    BY <1>8, <2>1, <2>2
  <2>4. Abstract!Move(o, p)
    BY <1>e, <2>1, <2>3 DEF Abstract!Move
  <2>5. QED
    BY <2>4 DEF Abstract!Next
<1>11. ASSUME NEW o \in Objects, NEW p \in Objects, CopyAssignThrows(o, p) PROVE FALSE
  BY <1>11 DEF CopyAssignThrows
<1>12. QED
  BY <1>1, <1>2, <1>4, <1>5, <1>6, <1>7, <1>9, <1>10, <1>11 DEF Next

(***************************************************************************)
(* Buffers behave as values: every step is one of plain arrays that are    *)
(* copied, moved and written one at a time, whichever blocks new[] hands   *)
(* out again, unless an object is copied onto itself or an exception has   *)
(* left a copy assignment.                                                 *)
(***************************************************************************)
THEOREM BuffersAreValues == Spec => ValuesUnlessExcused
<1>1. Init => Abstract!Init
  BY DEF Init, Abstract!Init, Contents, Value
<1>2. IInv /\ [Next]_vars =>
        [\/ threw'
         \/ \E o \in Objects : CopyAssign(o, o)
         \/ [Abstract!Next]_<<Contents, s_copies_, s_moves_>>]_vars
  BY ValueStep
<1>3. QED
  BY <1>1, <1>2, Invariance, PTL DEF Spec, ValuesUnlessExcused
=============================================================================
