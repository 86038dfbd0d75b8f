----------------------------- MODULE IntVecProof -----------------------------
(***************************************************************************)
(* Theorems about int_vec_t for any heap, any lengths and initial          *)
(* capacities, any widths of int and size_t, with and without failing      *)
(* allocations.                                                            *)
(*                                                                         *)
(* Shape, Amortised and FaultOnlyIfNoCell are inductive together with      *)
(* Quiet: a vector whose malloc has failed is still empty and owns         *)
(* nothing, and the length never exceeds its recorded peak.                *)
(***************************************************************************)
EXTENDS IntVec, TLAPS

Quiet ==
  ready /\ ~fault => /\ length <= peak
                     /\ data = NULL => alloc = {} /\ length = 0

IInv == Shape /\ Amortised /\ FaultOnlyIfNoCell /\ Quiet

Ints == Values \cup {Garbage}

(***************************************************************************)
(* Facts about the cells of a block: fresh ones, a store, realloc.         *)
(***************************************************************************)
LEMMA FreshCells ==
  ASSUME NEW k \in Nat
  PROVE  Cells(k) \in Seq(Ints) /\ Len(Cells(k)) = k
BY DEF Cells, Ints

(* A store changes one cell and no length.                                 *)
LEMMA StoredCells ==
  ASSUME NEW s \in Seq(Ints), NEW k \in Nat, k < Len(s), NEW v \in Ints
  PROVE  /\ [s EXCEPT ![k + 1] = v] \in Seq(Ints)
         /\ Len([s EXCEPT ![k + 1] = v]) = Len(s)
         /\ \A j \in 1..k : [s EXCEPT ![k + 1] = v][j] = s[j]
         /\ [s EXCEPT ![k + 1] = v][k + 1] = v
<1>1. k + 1 \in 1..Len(s)
  OBVIOUS
<1>2. QED
  BY <1>1

(* A block cut by realloc.                                                 *)
LEMMA CutCells ==
  ASSUME NEW s \in Seq(Ints), NEW k \in Nat, k <= Len(s)
  PROVE  SubSeq(s, 1, k) \in Seq(Ints) /\ Len(SubSeq(s, 1, k)) = k
<1>1. \A j \in 1..k : s[j] \in Ints
  OBVIOUS
<1>2. SubSeq(s, 1, k) = [j \in 1..k |-> s[j]]
  OBVIOUS
<1>3. QED
  BY <1>1, <1>2

(* realloc to as many cells or more keeps the cells and adds new ones behind
   them.                                                                   *)
LEMMA GrownCells ==
  ASSUME NEW s \in Seq(Ints), NEW k \in Nat, Len(s) < k
  PROVE  /\ Resized(s, k) \in Seq(Ints)
         /\ Len(Resized(s, k)) = k
         /\ \A j \in 1..Len(s) : Resized(s, k)[j] = s[j]
<1>1. k - Len(s) \in Nat /\ ~(k <= Len(s))
  OBVIOUS
<1> DEFINE c == Cells(k - Len(s))
<1>2. c \in Seq(Ints) /\ Len(c) = k - Len(s)
  BY <1>1, FreshCells
<1>3. Resized(s, k) = s \o c
  BY <1>1 DEF Resized
<1> HIDE DEF c
<1>4. s \o c \in Seq(Ints) /\ Len(s \o c) = Len(s) + Len(c) /\ \A j \in 1..Len(s) : (s \o c)[j] = s[j]
  BY <1>2
<1>5. QED
  BY <1>2, <1>3, <1>4

(* realloc gives the cells asked for, and keeps those that fit.            *)
LEMMA ResizedCells ==
  ASSUME NEW s \in Seq(Ints), NEW k \in Nat
  PROVE  /\ Resized(s, k) \in Seq(Ints)
         /\ Len(Resized(s, k)) = k
         /\ Len(s) <= k => \A j \in 1..Len(s) : Resized(s, k)[j] = s[j]
<1>1. CASE k <= Len(s)
  <2>1. Resized(s, k) = SubSeq(s, 1, k)
    BY <1>1 DEF Resized
  <2>2. Len(s) <= k => \A j \in 1..Len(s) : SubSeq(s, 1, k)[j] = s[j]
    BY <1>1
  <2>3. QED
    BY <1>1, <2>1, <2>2, CutCells
<1>2. CASE ~(k <= Len(s))
  <2>1. Len(s) < k
    BY <1>2
  <2>2. QED
    BY <2>1, GrownCells
<1>3. QED
  BY <1>1, <1>2

(* Dividing the bytes by the size of a cell.                               *)
LEMMA Divided ==
  ASSUME NEW z \in Nat, NEW s \in Nat \ {0}
  PROVE  /\ z \div s \in Nat /\ z % s \in Nat /\ z % s < s
         /\ z = s * (z \div s) + (z % s)
OBVIOUS

(* A quotient times the divisor is no more than the number.                *)
LEMMA QuotientBelow ==
  ASSUME NEW q \in Nat, NEW c \in Nat, NEW s \in Nat \ {0}, q * s < c * s
  PROVE  q < c
<1>1. SUFFICES ASSUME c <= q PROVE FALSE
  OBVIOUS
<1>2. PICK d \in Nat : q = c + d
  <2>1. q - c \in Nat /\ q = c + (q - c)
    BY <1>1
  <2>2. QED
    BY <2>1
<1>3. q * s = c * s + d * s /\ d * s \in Nat /\ c * s \in Nat
  BY <1>2
<1>4. QED
  BY <1>3

(* The cells of a block: as many as the capacity, or fewer where the bytes
   wrap.                                                                   *)
LEMMA CellsFollow ==
  ASSUME NEW c \in Nat
  PROVE  /\ CellsOf(c) \in Nat
         /\ ~Wraps(c) => CellsOf(c) = c
         /\ Wraps(c) => CellsOf(c) < c
<1>a. IntSize \in Nat \ {0} /\ Modulus \in Nat \ {0}
  BY SizeAssumption
<1>1. PICK p \in Nat : p = c * IntSize
  BY <1>a
<1>2. PICK z \in Nat : z = p % Modulus
  BY <1>a, <1>1
<1>3. z < Modulus /\ (p < Modulus => z = p)
  BY <1>a, <1>2
<1>4. PICK q \in Nat : q = z \div IntSize
  BY <1>a
<1>5. q * IntSize <= z /\ (z = c * IntSize => q = c)
  <2>1. PICK e \in Nat : e < IntSize /\ z = IntSize * q + e
    BY <1>a, <1>4, Divided
  <2>2. IntSize * q = q * IntSize /\ q * IntSize \in Nat
    BY <1>a
  <2>3. q * IntSize <= z
    BY <2>1, <2>2
  <2>4. ASSUME z = c * IntSize PROVE q = c
    BY <1>a, <1>4, <2>4
  <2>5. QED
    BY <2>3, <2>4
<1>6. CellsOf(c) = q
  BY <1>1, <1>2, <1>4 DEF CellsOf, Bytes
<1>7. Wraps(c) <=> p >= Modulus
  BY <1>1 DEF Wraps
<1>8. ASSUME p >= Modulus PROVE q < c
  <2>1. q * IntSize < p
    <3>1. q * IntSize \in Nat
      BY <1>a
    <3>2. QED
      BY <1>a, <1>3, <1>5, <1>8, <3>1
  <2>2. QED
    BY <1>a, <1>1, <2>1, QuotientBelow
<1>9. QED
  BY <1>a, <1>1, <1>3, <1>5, <1>6, <1>7, <1>8

(* The doubling of a capacity that did not wrap is exact, and if its bytes
   wrap the block becomes shorter than it was.                             *)
LEMMA DoublingFollows ==
  ASSUME NEW c \in Nat, ~Wraps(c)
  PROVE  /\ Grown(c) = 2 * c
         /\ Wraps(2 * c) => CellsOf(2 * c) < c
<1>a. IntSize \in Nat \ {0} /\ Modulus \in Nat \ {0} /\ IntSize >= 2
  BY SizeAssumption
<1>1. PICK p \in Nat : p = c * IntSize
  BY <1>a
<1>2. p < Modulus
  BY <1>a, <1>1 DEF Wraps
<1>3. 2 * c <= p
  <2>1. PICK d \in Nat : IntSize = 2 + d
    <3>1. IntSize - 2 \in Nat /\ IntSize = 2 + (IntSize - 2)
      BY <1>a
    <3>2. QED
      BY <3>1
  <2>2. p = 2 * c + c * d /\ c * d \in Nat
    BY <1>1, <2>1
  <2>3. QED
    BY <2>2
<1>4. Grown(c) = 2 * c
  <2>1. c * 2 < Modulus /\ c * 2 \in Nat /\ c * 2 = 2 * c
    BY <1>a, <1>2, <1>3
  <2>2. (c * 2) % Modulus = c * 2
    BY <1>a, <2>1
  <2>3. QED
    BY <2>1, <2>2 DEF Grown
<1>5. ASSUME Wraps(2 * c) PROVE CellsOf(2 * c) < c
  <2>1. (2 * c) * IntSize = p + p
    BY <1>a, <1>1
  <2>2. p + p >= Modulus
    BY <1>5, <2>1 DEF Wraps
  <2>3. PICK z \in Nat : z = (p + p) % Modulus
    BY <1>a
  <2>4. z < p
    <3>1. (p + p) - Modulus \in 0..Modulus - 1
      BY <1>a, <1>2, <2>2
    <3>2. (p + p) % Modulus = (p + p) - Modulus
      BY <1>a, <3>1
    <3>3. QED
      BY <1>a, <1>2, <2>3, <3>2
  <2>5. PICK q \in Nat : q = z \div IntSize
    BY <1>a
  <2>6. CellsOf(2 * c) = q
    BY <2>1, <2>3, <2>5 DEF CellsOf, Bytes
  <2>7. q * IntSize <= z /\ q * IntSize \in Nat
    <3>1. PICK e \in Nat : z = IntSize * q + e
      BY <1>a, <2>5, Divided
    <3>2. IntSize * q = q * IntSize /\ q * IntSize \in Nat
      BY <1>a
    <3>3. QED
      BY <3>1, <3>2
  <2>8. q * IntSize < c * IntSize
    BY <1>1, <2>4, <2>7
  <2>9. q < c
    BY <1>a, <2>8, QuotientBelow
  <2>10. QED
    BY <2>6, <2>9
<1>6. QED
  BY <1>4, <1>5

(* A bound on the work holds for a larger capacity too.                    *)
LEMMA BelowTwice == \A c, k, l \in Nat : k <= l /\ c < 2 * k => c < 2 * l
OBVIOUS

(***************************************************************************)
(* The store of vec_push, for the block b, the length k, the capacity c    *)
(* and the heap m it finds: it fails only where there is no cell left.     *)
(***************************************************************************)
LEMMA StoreKeeps ==
  ASSUME NEW v \in Values, NEW b \in Blocks \cup {NULL}, NEW k \in Nat, k < MaxLen,
         NEW c \in Nat, NEW m \in [Blocks -> Seq(Ints)],
         TypeOK, ready, ~fault, k <= c,
         b # NULL => alloc' = {b},
         b # NULL => (~Wraps(c) => Len(m[b]) = c) /\ (Wraps(c) => Len(m[b]) < c),
         b # NULL /\ k < Len(m[b]) => (Wraps(c) => c = initial),
         k = c => b = NULL \/ initial = 0 \/ Wraps(c),
         alloc' \subseteq Blocks, copied' \in Nat,
         k <= peak, copied' + initial <= c, c = initial \/ c < 2 * (k + 1) \/ c < 2 * peak,
         Store(v, b, k, c, m) \/ BadStore(b, k, c, m)
  PROVE  IInv'
<1>a. /\ ready \in BOOLEAN /\ fault \in BOOLEAN
      /\ peak \in 0..MaxLen /\ initial \in InitCaps \cup {0} /\ initial \in Nat /\ MaxLen \in Nat
  BY CapsAssumption DEF TypeOK
<1>1. CASE Store(v, b, k, c, m)
  <2>1. /\ b # NULL /\ k < Len(m[b])
        /\ mem' = [m EXCEPT ![b][k + 1] = v]
        /\ data' = b /\ length' = k + 1 /\ capacity' = c
        /\ peak' = IF k + 1 > peak THEN k + 1 ELSE peak
        /\ ~fault' /\ ready' /\ initial' = initial
        /\ ready' = ready /\ fault' = fault
    BY <1>1 DEF Store
  <2>2. b \in Blocks /\ alloc' = {b} /\ Len(m[b]) \in Nat
    BY <2>1
  <2>i. (~Wraps(c) => Len(m[b]) = c) /\ (Wraps(c) => Len(m[b]) < c) /\ (Wraps(c) => c = initial)
    BY <2>1
  <2>j. k < c
    BY <2>1, <2>2, <2>i
  <2> DEFINE s == [m[b] EXCEPT ![k + 1] = v]
  <2>3. s \in Seq(Ints) /\ Len(s) = Len(m[b])
    BY <2>1, <2>2, StoredCells DEF Ints
  <2>4. mem' = [m EXCEPT ![b] = s]
    BY <2>1
  <2> HIDE DEF s
  <2>5. mem' \in [Blocks -> Seq(Ints)] /\ Len(mem'[b]) = Len(m[b])
    BY <2>2, <2>3, <2>4
  <2>6. /\ peak' \in 0..MaxLen /\ length' \in 0..MaxLen /\ length' <= peak' /\ peak <= peak' /\ k + 1 <= peak'
        /\ length' <= c /\ length' <= Len(m[b])
    BY <1>a, <2>1, <2>2, <2>j
  <2>7. TypeOK'
    BY <1>a, <2>1, <2>2, <2>5, <2>6 DEF TypeOK, Ints
  <2>8. Shape'
    <3>1. alloc' = {data'} /\ ready' /\ data' = b
      BY <2>1, <2>2
    <3>2. length' <= Len(mem'[data']) /\ length' <= capacity'
      BY <2>1, <2>5, <2>6
    <3>3. /\ ~Wraps(capacity') => Len(mem'[data']) = capacity'
          /\ Wraps(capacity') => Len(mem'[data']) < capacity' /\ capacity' = initial'
      BY <2>1, <2>5, <2>i
    <3>4. QED
      BY <2>7, <3>1, <3>2, <3>3 DEF Shape, Wraps
  <2>9. Amortised'
    <3>1. peak \in Nat /\ peak' \in Nat /\ k + 1 \in Nat
      BY <1>a, <2>6
    <3>2. c < 2 * (k + 1) => c < 2 * peak'
      BY <2>6, <3>1, BelowTwice
    <3>3. c < 2 * peak => c < 2 * peak'
      BY <2>6, <3>1, BelowTwice
    <3>4. QED
      BY <2>1, <3>2, <3>3 DEF Amortised
  <2>10. FaultOnlyIfNoCell' /\ Quiet'
    BY <2>1, <2>6 DEF FaultOnlyIfNoCell, Quiet
  <2>11. QED
    BY <2>8, <2>9, <2>10 DEF IInv
<1>2. CASE BadStore(b, k, c, m)
  <2>1. /\ b # NULL => ~(k < Len(m[b]))
        /\ fault' = TRUE /\ mem' = m /\ data' = b /\ length' = k /\ capacity' = c
        /\ ready' = ready /\ initial' = initial /\ peak' = peak
    BY <1>2 DEF BadStore
  <2>2. b = NULL \/ initial = 0 \/ Wraps(c)
    <3>1. CASE b # NULL /\ ~Wraps(c)
      <4>1. Len(m[b]) = c /\ ~(k < c)
        BY <2>1, <3>1
      <4>2. k = c
        BY <4>1
      <4>3. QED
        BY <4>2
    <3>2. QED
      BY <3>1
  <2>i. Wraps(c) => Wraps(capacity')
    BY <2>1
  <2>3. TypeOK'
    BY <1>a, <2>1 DEF TypeOK, Ints
  <2>4. FaultOnlyIfNoCell'
    BY <2>1, <2>2, <2>i DEF FaultOnlyIfNoCell, Wraps
  <2>5. QED
    BY <2>1, <2>3, <2>4 DEF IInv, Shape, Amortised, Quiet
<1>3. QED
  BY <1>1, <1>2

(***************************************************************************)
(* Every function of int_vec_t keeps the invariant.                        *)
(***************************************************************************)
LEMMA InvariantStep == IInv /\ [Next]_vars => IInv'
<1> SUFFICES ASSUME IInv, [Next]_vars PROVE IInv'
  OBVIOUS
<1>a. TypeOK /\ FaultOnlyIfNoCell
  BY DEF IInv, Shape
<1>b. /\ alloc \subseteq Blocks
      /\ mem \in [Blocks -> Seq(Ints)]
      /\ ready \in BOOLEAN /\ fault \in BOOLEAN
      /\ data \in Blocks \cup {NULL}
      /\ length \in Nat /\ length <= MaxLen /\ MaxLen \in Nat
      /\ capacity \in Nat
      /\ initial \in Nat
      /\ peak \in Nat
      /\ copied \in Nat
  BY <1>a, CapsAssumption, SizeAssumption DEF TypeOK, Ints
<1>c. ~fault /\ ~ready => alloc = {}
  BY DEF IInv, Shape
<1>d. ASSUME ready, ~fault
      PROVE  /\ data # NULL => /\ alloc = {data} /\ length <= capacity
                               /\ length <= Len(mem[data])
                               /\ ~Wraps(capacity) => Len(mem[data]) = capacity
                               /\ Wraps(capacity) => Len(mem[data]) < capacity /\ capacity = initial
             /\ data = NULL => alloc = {} /\ length = 0
             /\ length <= peak
             /\ length <= capacity
             /\ copied + initial <= capacity
             /\ capacity = initial \/ capacity < 2 * peak
  <2>1. data # NULL => /\ alloc = {data} /\ length <= capacity
                       /\ length <= Len(mem[data])
                       /\ ~Wraps(capacity) => Len(mem[data]) = capacity
                       /\ Wraps(capacity) => Len(mem[data]) < capacity /\ capacity = initial
    BY <1>d DEF IInv, Shape
  <2>2. data = NULL => alloc = {} /\ length = 0
    BY <1>d DEF IInv, Quiet
  <2>3. length <= peak /\ copied + initial <= capacity /\ (capacity = initial \/ capacity < 2 * peak)
    BY <1>d DEF IInv, Quiet, Amortised
  <2>4. length <= capacity
    BY <1>b, <2>1, <2>2
  <2>5. QED
    BY <2>1, <2>2, <2>3, <2>4
<1>1. ASSUME NEW c \in InitCaps, vec_init(c) PROVE IInv'
  <2>1. /\ ~ready /\ ~fault
        /\ length' = 0 /\ capacity' = c /\ ready' = TRUE /\ initial' = c /\ peak' = 0
        /\ copied' = 0 /\ fault' = fault /\ c \in Nat
    BY <1>1, CapsAssumption DEF vec_init
  <2>2. CASE \E b \in Blocks \ alloc :
               alloc' = alloc \cup {b} /\ mem' = [mem EXCEPT ![b] = Cells(CellsOf(c))] /\ data' = b
    <3>1. PICK b \in Blocks \ alloc :
            alloc' = alloc \cup {b} /\ mem' = [mem EXCEPT ![b] = Cells(CellsOf(c))] /\ data' = b
      BY <2>2
    <3>a. /\ CellsOf(c) \in Nat
          /\ ~Wraps(c) => CellsOf(c) = c
          /\ Wraps(c) => CellsOf(c) < c
      BY <2>1, CellsFollow
    <3>2. Cells(CellsOf(c)) \in Seq(Ints) /\ Len(Cells(CellsOf(c))) = CellsOf(c)
      BY <3>a, FreshCells
    <3>3. mem' \in [Blocks -> Seq(Ints)] /\ Len(mem'[b]) = CellsOf(c)
      BY <1>b, <3>1, <3>2
    <3>4. alloc' = {b}
      BY <1>c, <2>1, <3>1
    <3>5. TypeOK'
      BY <1>b, <2>1, <3>1, <3>3, <3>4 DEF TypeOK, Ints
    <3>6. Shape'
      <4>1. alloc' = {data'} /\ length' <= Len(mem'[data']) /\ length' <= capacity'
        BY <2>1, <3>1, <3>3, <3>4, <3>a
      <4>2. /\ ~Wraps(capacity') => Len(mem'[data']) = capacity'
            /\ Wraps(capacity') => Len(mem'[data']) < capacity' /\ capacity' = initial'
        BY <2>1, <3>1, <3>3, <3>a
      <4>3. QED
        BY <2>1, <3>5, <4>1, <4>2 DEF Shape, Wraps
    <3>7. b # NULL
      BY NullAssumption
    <3>8. QED
      BY <2>1, <3>1, <3>6, <3>7 DEF IInv, Amortised, FaultOnlyIfNoCell, Quiet
  <2>3. CASE data' = NULL /\ UNCHANGED <<alloc, mem>>
    <3>1. TypeOK'
      BY <1>b, <2>1, <2>3 DEF TypeOK, Ints
    <3>2. Shape'
      BY <2>1, <2>3, <3>1 DEF Shape
    <3>3. QED
      BY <1>c, <2>1, <2>3, <3>2 DEF IInv, Amortised, FaultOnlyIfNoCell, Quiet
  <2>4. QED
    BY <1>1, <2>2, <2>3 DEF vec_init
<1>2. ASSUME NEW v \in Values, vec_push_fits(v) PROVE IInv'
  <2>1. /\ ready /\ ~fault /\ length < MaxLen /\ length # capacity
        /\ alloc' = alloc /\ copied' = copied
        /\ Store(v, data, length, capacity, mem) \/ BadStore(data, length, capacity, mem)
    BY <1>2 DEF vec_push_fits
  <2>2. length <= capacity /\ length <= peak /\ copied' + initial <= capacity
    BY <1>d, <2>1
  <2>3. capacity = initial \/ capacity < 2 * (length + 1) \/ capacity < 2 * peak
    BY <1>d, <2>1
  <2>4. /\ data # NULL => alloc' = {data}
        /\ data # NULL => /\ ~Wraps(capacity) => Len(mem[data]) = capacity
                          /\ Wraps(capacity) => Len(mem[data]) < capacity
        /\ data # NULL /\ length < Len(mem[data]) => (Wraps(capacity) => capacity = initial)
    BY <1>d, <2>1
  <2>5. QED
    BY <1>a, <1>b, <2>1, <2>2, <2>3, <2>4, StoreKeeps
<1>3. ASSUME NEW v \in Values, vec_push_grows(v) PROVE IInv'
  <2> DEFINE n == Grown(capacity)
  <2> DEFINE old == IF data = NULL THEN <<>> ELSE mem[data]
  <2> DEFINE m(b) == [x \in Blocks |-> IF x = b THEN Resized(old, CellsOf(n))
                                       ELSE IF x = data THEN <<>> ELSE mem[x]]
  <2>1. ready /\ ~fault /\ length < MaxLen /\ length = capacity /\ copied' = copied + length
    BY <1>3 DEF vec_push_grows
  <2>2. PICK b \in (Blocks \ alloc) \cup ({data} \ {NULL}) :
          /\ alloc' = (alloc \ {data}) \cup {b}
          /\ Store(v, b, length, n, m(b)) \/ BadStore(b, length, n, m(b))
    BY <1>3 DEF vec_push_grows
  <2>3. b \in Blocks /\ b # NULL
    BY <1>b, <2>2, NullAssumption
  <2>4. alloc' = {b}
    BY <1>d, <2>1, <2>2, <2>3
  <2>i. ~Wraps(capacity)
    <3>1. CASE data = NULL
      BY <1>b, <1>d, <2>1, <3>1, SizeAssumption DEF Wraps
    <3>2. CASE data # NULL
      <4>1. length <= Len(mem[data]) /\ (Wraps(capacity) => Len(mem[data]) < capacity)
        BY <1>d, <2>1, <3>2
      <4>2. Len(mem[data]) \in Nat
        BY <1>b, <3>2
      <4>3. QED
        BY <1>b, <2>1, <4>1, <4>2
    <3>3. QED
      BY <3>1, <3>2
  <2>5. n = 2 * capacity /\ n \in Nat
    BY <1>b, <2>i, DoublingFollows
  <2>j. /\ CellsOf(n) \in Nat
        /\ ~Wraps(n) => CellsOf(n) = n
        /\ Wraps(n) => CellsOf(n) < n
        /\ Wraps(n) => CellsOf(n) < capacity
    <3>1. CellsOf(n) \in Nat /\ (~Wraps(n) => CellsOf(n) = n) /\ (Wraps(n) => CellsOf(n) < n)
      BY <2>5, CellsFollow
    <3>2. Wraps(n) => CellsOf(n) < capacity
      BY <1>b, <2>5, <2>i, DoublingFollows
    <3>3. QED
      BY <3>1, <3>2
  <2>6. old \in Seq(Ints)
    BY <1>b
  <2> HIDE DEF old, n
  <2>7. Resized(old, CellsOf(n)) \in Seq(Ints) /\ Len(Resized(old, CellsOf(n))) = CellsOf(n)
    BY <2>j, <2>6, ResizedCells
  <2>8. m(b) \in [Blocks -> Seq(Ints)] /\ Len(m(b)[b]) = CellsOf(n)
    BY <1>b, <2>3, <2>7
  <2> HIDE DEF m
  <2>9. capacity = 0 => initial = 0
    BY <1>b, <1>d, <2>1
  <2>10. length <= n /\ (length = n => initial = 0)
    BY <1>b, <2>1, <2>5, <2>9
  <2>11. copied' \in Nat /\ copied' + initial <= n /\ n < 2 * (length + 1)
    BY <1>b, <1>d, <2>1, <2>5
  <2>12. /\ ~Wraps(n) => Len(m(b)[b]) = n
         /\ Wraps(n) => Len(m(b)[b]) < n
         /\ length < Len(m(b)[b]) => ~Wraps(n)
    BY <1>b, <2>1, <2>j, <2>8
  <2>13. length <= peak
    BY <1>d, <2>1
  <2>14. QED
    BY <1>a, <1>b, <2>1, <2>2, <2>3, <2>4, <2>5, <2>8, <2>10, <2>11, <2>12, <2>13, StoreKeeps
<1>4. ASSUME NEW v \in Values, vec_push_fails(v) PROVE IInv'
  <2> DEFINE freed == IF Bytes(Grown(capacity)) = 0 THEN {data} ELSE {}
  <2> DEFINE m == [x \in Blocks |-> IF x \in freed THEN <<>> ELSE mem[x]]
  <2>1. BadStore(NULL, 0, 0, m) /\ alloc' = alloc \ freed /\ copied' = copied
    BY <1>4 DEF vec_push_fails
  <2>2. m \in [Blocks -> Seq(Ints)]
    BY <1>b
  <2> HIDE DEF m
  <2>3. /\ fault' = TRUE /\ mem' = m /\ data' = NULL /\ length' = 0 /\ capacity' = 0
        /\ ready' = ready /\ initial' = initial /\ peak' = peak
    BY <2>1 DEF BadStore
  <2>4. TypeOK'
    BY <1>a, <1>b, <2>1, <2>2, <2>3 DEF TypeOK, Ints
  <2>5. QED
    BY <2>3, <2>4 DEF IInv, Shape, Amortised, FaultOnlyIfNoCell, Quiet
<1>5. CASE vec_pop
  <2>1. /\ ready /\ ~fault /\ length > 0 /\ length' = length - 1
        /\ UNCHANGED <<alloc, mem, ready, data, capacity, fault, initial, peak, copied>>
    BY <1>5 DEF vec_pop, Popped
  <2>2. length' \in 0..MaxLen /\ length' <= length
    BY <1>b, <2>1
  <2>3. TypeOK'
    BY <1>a, <2>1, <2>2 DEF TypeOK
  <2>4. data # NULL
    BY <1>d, <2>1
  <2>5. Shape'
    <3>1. alloc' = {data'} /\ length' <= Len(mem'[data']) /\ length' <= capacity'
      <4>1. alloc = {data} /\ length <= Len(mem[data]) /\ length <= capacity /\ Len(mem[data]) \in Nat
        BY <1>b, <1>d, <2>1, <2>4
      <4>2. QED
        BY <1>b, <2>1, <2>2, <4>1
    <3>2. /\ ~Wraps(capacity') => Len(mem'[data']) = capacity'
          /\ Wraps(capacity') => Len(mem'[data']) < capacity' /\ capacity' = initial'
      BY <1>d, <2>1, <2>4
    <3>3. QED
      BY <2>1, <2>3, <3>1, <3>2 DEF Shape, Wraps
  <2>6. Amortised' /\ FaultOnlyIfNoCell'
    BY <1>d, <2>1 DEF Amortised, FaultOnlyIfNoCell, Wraps
  <2>7. Quiet'
    BY <1>b, <1>d, <2>1, <2>2, <2>4 DEF Quiet
  <2>8. QED
    BY <2>5, <2>6, <2>7 DEF IInv
<1>6. ASSUME NEW i \in 0..MaxLen - 1, vec_get(i) PROVE IInv'
  BY <1>6 DEF vec_get, vec, IInv, Shape, TypeOK, Amortised, FaultOnlyIfNoCell, Quiet, Wraps
<1>7. CASE vec_free
  <2>1. /\ ready /\ ~fault /\ alloc' = alloc \ {data}
        /\ mem' = [b \in Blocks |-> IF b = data THEN <<>> ELSE mem[b]]
        /\ length' = 0 /\ capacity' = 0 /\ ready' = FALSE
        /\ UNCHANGED <<data, fault, initial, peak, copied>>
    BY <1>7 DEF vec_free, AfterFree
  <2>2. mem' \in [Blocks -> Seq(Ints)]
    BY <1>b, <2>1
  <2>3. alloc' = {}
    BY <1>d, <2>1
  <2>4. TypeOK'
    <3>1. length' \in 0..MaxLen /\ capacity' \in Nat
      BY <1>b, <2>1
    <3>2. ready' \in BOOLEAN
      BY <2>1
    <3>3. QED
      BY <1>a, <2>1, <2>2, <2>3, <3>1, <3>2 DEF TypeOK, Ints
  <2>5. QED
    BY <2>1, <2>3, <2>4 DEF IInv, Shape, Amortised, FaultOnlyIfNoCell, Quiet
<1>8. CASE UNCHANGED vars
  BY <1>8 DEF vars, vec, history, IInv, Shape, TypeOK, Amortised, FaultOnlyIfNoCell, Quiet, Wraps
<1>9. QED
  BY <1>1, <1>2, <1>3, <1>4, <1>5, <1>6, <1>7, <1>8 DEF Next

(* The inductive invariant holds in every reachable state.                 *)
LEMMA Invariance == Spec => []IInv
<1>1. Init => IInv
  <2>1. Init => TypeOK
    <3>1. Init => mem \in [Blocks -> Seq(Values \cup {Garbage})]
      BY DEF Init
    <3>2. Init => length \in 0..MaxLen /\ peak \in 0..MaxLen /\ capacity \in Nat /\ copied \in Nat
      BY CapsAssumption DEF Init
    <3>3. Init => ready \in BOOLEAN /\ fault \in BOOLEAN
      BY DEF Init
    <3>4. Init => alloc \subseteq Blocks /\ data \in Blocks \cup {NULL} /\ initial \in InitCaps \cup {0}
      BY DEF Init
    <3>5. QED
      BY <3>1, <3>2, <3>3, <3>4 DEF TypeOK
  <2>2. QED
    BY <2>1 DEF Init, IInv, Shape, Amortised, FaultOnlyIfNoCell, Quiet
<1>2. QED
  BY <1>1, InvariantStep, PTL DEF Spec

(***************************************************************************)
(* Between vec_init and vec_free the vector owns the one allocated block,  *)
(* into which its elements fit, and vec_free leaves nothing allocated.     *)
(* The block has exactly capacity cells, unless vec_init was asked for     *)
(* more than size_t counts in bytes and took fewer.                        *)
(***************************************************************************)
THEOREM OneBlock == Spec => []Shape
<1>1. IInv => Shape
  BY DEF IInv
<1>2. QED
  BY <1>1, Invariance, PTL

(***************************************************************************)
(* The doubling of vec_push is amortised: realloc never copies more cells  *)
(* in total than the vector has, which is below twice the peak length.     *)
(***************************************************************************)
THEOREM DoublingPays == Spec => []Amortised
<1>1. IInv => Amortised
  BY DEF IInv
<1>2. QED
  BY <1>1, Invariance, PTL

(***************************************************************************)
(* vec_push leaves its block only when an allocation has failed, when      *)
(* vec_init was asked for no cell at all, which doubling never changes, or *)
(* when the bytes of the capacity are more than size_t can count.          *)
(***************************************************************************)
THEOREM StoresInside == Spec => []FaultOnlyIfNoCell
<1>1. IInv => FaultOnlyIfNoCell
  BY DEF IInv
<1>2. QED
  BY <1>1, Invariance, PTL

-----------------------------------------------------------------------------
(* The first k cells of s.                                                 *)
First(s, k) == [j \in 1..k |-> s[j]]

(* The first cells of a block, as a sequence.                              *)
LEMMA FirstFacts ==
  ASSUME NEW s \in Seq(Ints), NEW k \in Nat, k <= Len(s)
  PROVE  /\ First(s, k) \in Seq(Ints)
         /\ Len(First(s, k)) = k
         /\ \A j \in 1..k : First(s, k)[j] = s[j]
         /\ SubSeq(s, 1, k) = First(s, k)
         /\ First(s, 0) = <<>>
<1>1. \A j \in 1..k : s[j] \in Ints
  OBVIOUS
<1>2. First(s, k) \in Seq(Ints) /\ Len(First(s, k)) = k
  BY <1>1 DEF First
<1>3. SubSeq(s, 1, k) = First(s, k)
  BY DEF First
<1>4. First(s, 0) = <<>>
  BY DEF First
<1>5. QED
  BY <1>2, <1>3, <1>4 DEF First

(* Storing behind the last element in use appends to the sequence.         *)
LEMMA FirstAppend ==
  ASSUME NEW s \in Seq(Ints), NEW t \in Seq(Ints), NEW k \in Nat, NEW v \in Ints,
         k <= Len(s), k + 1 <= Len(t), \A j \in 1..k : t[j] = s[j], t[k + 1] = v
  PROVE  First(t, k + 1) = Append(First(s, k), v)
<1>1. First(s, k) \in Seq(Ints) /\ Len(First(s, k)) = k /\ \A j \in 1..k : First(s, k)[j] = s[j]
  BY FirstFacts
<1> DEFINE f == First(s, k)
<1> HIDE DEF f
<1>2. f \in Seq(Ints) /\ Len(f) = k /\ \A j \in 1..k : f[j] = t[j]
  BY <1>1 DEF f
<1>3. Append(f, v) = [j \in 1..(k + 1) |-> t[j]]
  <2> DEFINE g == Append(f, v)
  <2>1. g \in Seq(Ints) /\ Len(g) = k + 1 /\ (\A j \in 1..k : g[j] = f[j]) /\ g[k + 1] = v
    BY <1>2
  <2> HIDE DEF g
  <2>2. \A j \in 1..(k + 1) : g[j] = t[j]
    BY <1>2, <2>1
  <2>3. g = [j \in 1..(k + 1) |-> g[j]]
    BY <2>1
  <2>4. g = [j \in 1..(k + 1) |-> t[j]]
    BY <2>2, <2>3
  <2>5. QED
    BY <2>4 DEF g
<1>4. QED
  BY <1>3 DEF First, f

(* Forgetting the last element in use removes it from the sequence.        *)
LEMMA FirstFront ==
  ASSUME NEW s \in Seq(Ints), NEW k \in Nat, 0 < k, k <= Len(s)
  PROVE  SubSeq(First(s, k), 1, k - 1) = First(s, k - 1)
<1>1. First(s, k) \in Seq(Ints) /\ Len(First(s, k)) = k /\ \A j \in 1..k : First(s, k)[j] = s[j]
  BY FirstFacts
<1> DEFINE f == First(s, k)
<1> HIDE DEF f
<1>2. f \in Seq(Ints) /\ Len(f) = k /\ \A j \in 1..k : f[j] = s[j]
  BY <1>1 DEF f
<1>3. SubSeq(f, 1, k - 1) = [j \in 1..(k - 1) |-> s[j]]
  BY <1>2
<1>4. QED
  BY <1>3 DEF First, f

(***************************************************************************)
(* Every function of int_vec_t that returns has the effect and the result  *)
(* of an operation on a sequence.                                          *)
(***************************************************************************)
LEMMA SequenceStep ==
  ASSUME IInv, IInv', Next, ~fault'
  PROVE  Abstract!Next
<1>a. /\ mem \in [Blocks -> Seq(Ints)] /\ mem' \in [Blocks -> Seq(Ints)]
      /\ data \in Blocks \cup {NULL} /\ data' \in Blocks \cup {NULL}
      /\ length \in Nat /\ capacity \in Nat /\ capacity' \in Nat
      /\ NULL \notin Blocks
  BY CapsAssumption, SizeAssumption, NullAssumption DEF IInv, Shape, TypeOK, Ints
<1>b. ASSUME ready, ~fault
      PROVE  /\ data # NULL => length <= Len(mem[data]) /\ length <= capacity
             /\ data # NULL => (~Wraps(capacity) => Len(mem[data]) = capacity)
             /\ data # NULL => (Wraps(capacity) => Len(mem[data]) < capacity)
             /\ data = NULL => length = 0 /\ length <= capacity
  <2>1. data # NULL => /\ length <= Len(mem[data]) /\ length <= capacity
                       /\ ~Wraps(capacity) => Len(mem[data]) = capacity
                       /\ Wraps(capacity) => Len(mem[data]) < capacity
    BY <1>b DEF IInv, Shape
  <2>2. data = NULL => length = 0
    BY <1>b DEF IInv, Quiet
  <2>3. QED
    BY <1>a, <2>1, <2>2
<1>c. length = 0 => Elements = <<>>
  BY DEF Elements
<1>d. length' = 0 => Elements' = <<>>
  BY DEF Elements
<1>e. ASSUME ready, ~fault, length > 0
      PROVE  /\ data \in Blocks /\ mem[data] \in Seq(Ints) /\ length <= Len(mem[data])
             /\ Elements = First(mem[data], length)
  <2>1. data \in Blocks /\ mem[data] \in Seq(Ints) /\ length <= Len(mem[data]) /\ length # 0
    BY <1>a, <1>b, <1>e
  <2>2. SubSeq(mem[data], 1, length) = First(mem[data], length)
    BY <1>a, <2>1, FirstFacts
  <2>3. QED
    BY <2>1, <2>2 DEF Elements
<1>1. ASSUME NEW c \in InitCaps, vec_init(c) PROVE Abstract!Next
  BY <1>1, <1>d DEF vec_init, Returns, Abstract!Next, Abstract!Restart, Abstract!Returns
(* What Store leaves when the cells of the old block, if there are any, are
   found in the heap m.                                                    *)
<1>2. ASSUME NEW v \in Values, NEW b \in Blocks, NEW c \in Nat, NEW m \in [Blocks -> Seq(Ints)],
             ready, ~fault, Store(v, b, length, c, m),
             length > 0 => \A j \in 1..length : m[b][j] = mem[data][j]
      PROVE  Abstract!Next
  <2>1. /\ length < Len(m[b]) /\ mem' = [m EXCEPT ![b][length + 1] = v]
        /\ data' = b /\ length' = length + 1 /\ last' = <<"push_back", v, Void>>
    BY <1>2 DEF Store, Returns
  <2> DEFINE s == m[b]
  <2> DEFINE t == [s EXCEPT ![length + 1] = v]
  <2>2. s \in Seq(Ints) /\ v \in Ints /\ length < Len(s)
    BY <2>1 DEF Ints
  <2>3. mem'[b] = t
    BY <2>1
  <2>4. /\ t \in Seq(Ints) /\ Len(t) = Len(s)
        /\ \A j \in 1..length : t[j] = s[j]
        /\ t[length + 1] = v
    BY <1>a, <2>2, StoredCells
  <2> HIDE DEF s, t
  <2>5. length <= Len(s) /\ length + 1 <= Len(t) /\ length + 1 \in Nat /\ length + 1 # 0
    <3>1. length \in Nat
      BY <1>a
    <3>2. PICK k \in Nat : k = Len(s)
      BY <2>2
    <3>3. length < k /\ Len(t) = k
      BY <2>2, <2>4, <3>2
    <3>4. QED
      BY <3>1, <3>2, <3>3
  <2>6. Elements' = First(t, length + 1)
    <3>1. Elements' = SubSeq(t, 1, length + 1)
      BY <2>1, <2>3, <2>5 DEF Elements
    <3>2. QED
      BY <2>4, <2>5, <3>1, FirstFacts
  <2>7. First(t, length + 1) = Append(First(s, length), v)
    <3>1. length \in Nat /\ v \in Ints /\ s \in Seq(Ints) /\ t \in Seq(Ints)
      BY <1>a, <2>2, <2>4
    <3>2. length <= Len(s) /\ length + 1 <= Len(t)
      BY <2>5
    <3>3. (\A j \in 1..length : t[j] = s[j]) /\ t[length + 1] = v
      BY <2>4
    <3>4. QED
      BY ONLY <3>1, <3>2, <3>3, FirstAppend
  <2>8. First(s, length) = Elements
    <3>1. CASE length = 0
      <4>1. First(s, 0) = <<>>
        BY <1>a, <2>2, <2>5, FirstFacts
      <4>2. QED
        BY <1>c, <3>1, <4>1
    <3>2. CASE length > 0
      <4>1. Elements = First(mem[data], length)
        BY <1>2, <1>e, <3>2
      <4>2. \A j \in 1..length : s[j] = mem[data][j]
        BY <1>2, <3>2 DEF s
      <4>3. QED
        BY <4>1, <4>2 DEF First
    <3>3. QED
      BY <1>a, <3>1, <3>2
  <2>9. Abstract!PushBack(v)
    BY <2>1, <2>6, <2>7, <2>8 DEF Abstract!PushBack, Abstract!Returns
  <2>10. QED
    BY <2>9 DEF Abstract!Next
<1>3. ASSUME NEW v \in Values, vec_push_fits(v) PROVE Abstract!Next
  <2>1. ready /\ ~fault /\ Store(v, data, length, capacity, mem)
    BY <1>3 DEF vec_push_fits, BadStore
  <2>2. data \in Blocks
    BY <1>a, <2>1 DEF Store
  <2>3. QED
    BY <1>2, <1>a, <2>1, <2>2
<1>4. ASSUME NEW v \in Values, vec_push_grows(v) PROVE Abstract!Next
  <2> DEFINE n == Grown(capacity)
  <2> DEFINE old == IF data = NULL THEN <<>> ELSE mem[data]
  <2> DEFINE m(b) == [x \in Blocks |-> IF x = b THEN Resized(old, CellsOf(n))
                                       ELSE IF x = data THEN <<>> ELSE mem[x]]
  <2>1. ready /\ ~fault /\ length = capacity
    BY <1>4 DEF vec_push_grows
  <2>2. PICK b \in (Blocks \ alloc) \cup ({data} \ {NULL}) : Store(v, b, length, n, m(b))
    BY <1>4 DEF vec_push_grows, BadStore
  <2>3. b \in Blocks
    BY <1>a, <2>2
  <2>i. ~Wraps(capacity)
    <3>1. CASE data = NULL
      BY <1>a, <1>b, <2>1, <3>1, SizeAssumption DEF Wraps
    <3>2. CASE data # NULL
      <4>1. length <= Len(mem[data]) /\ (Wraps(capacity) => Len(mem[data]) < capacity)
        BY <1>b, <2>1, <3>2
      <4>2. Len(mem[data]) \in Nat
        BY <1>a, <3>2
      <4>3. QED
        BY <1>a, <2>1, <4>1, <4>2
    <3>3. QED
      BY <3>1, <3>2
  <2>4. n = 2 * capacity /\ n \in Nat /\ CellsOf(n) \in Nat
    <3>1. n = 2 * capacity /\ n \in Nat
      BY <1>a, <2>i, DoublingFollows
    <3>2. QED
      BY <3>1, CellsFollow
  <2>5. old \in Seq(Ints)
    BY <1>a
  <2>6. length > 0 => old = mem[data] /\ length = Len(old)
    BY <1>a, <1>b, <2>1, <2>i
  <2> HIDE DEF old, n
  <2>7. /\ Resized(old, CellsOf(n)) \in Seq(Ints) /\ Len(Resized(old, CellsOf(n))) = CellsOf(n)
        /\ Len(old) <= CellsOf(n) => \A j \in 1..Len(old) : Resized(old, CellsOf(n))[j] = old[j]
    BY <2>4, <2>5, ResizedCells
  <2>8. m(b) \in [Blocks -> Seq(Ints)] /\ m(b)[b] = Resized(old, CellsOf(n))
    BY <1>a, <2>3, <2>7
  <2>9. length > 0 => \A j \in 1..length : m(b)[b][j] = mem[data][j]
    <3>1. length < Len(m(b)[b])
      BY <2>2 DEF Store
    <3>2. length < CellsOf(n)
      BY <2>7, <2>8, <3>1
    <3>3. SUFFICES ASSUME length > 0 PROVE \A j \in 1..length : m(b)[b][j] = mem[data][j]
      OBVIOUS
    <3>4. old = mem[data] /\ length = Len(old) /\ Len(old) <= CellsOf(n)
      BY <1>a, <2>4, <2>6, <3>2, <3>3
    <3>5. \A j \in 1..Len(old) : Resized(old, CellsOf(n))[j] = old[j]
      BY <2>7, <3>4
    <3> HIDE DEF m
    <3>6. QED
      BY <2>8, <3>4, <3>5
  <2> HIDE DEF m
  <2>10. QED
    BY <1>2, <2>1, <2>2, <2>3, <2>4, <2>8, <2>9
<1>5. ASSUME NEW v \in Values, vec_push_fails(v) PROVE FALSE
  BY <1>5 DEF vec_push_fails, BadStore
<1>6. CASE vec_pop
  <2>1. /\ ready /\ ~fault /\ length > 0 /\ length' = length - 1
        /\ mem' = mem /\ data' = data
        /\ last' = <<"pop_back", Void, mem[data][length]>>
    BY <1>6 DEF vec_pop, Popped, Returns
  <2> DEFINE s == mem[data]
  <2>2. s \in Seq(Ints) /\ length <= Len(s) /\ Elements = First(s, length)
    BY <1>e, <2>1
  <2>3. /\ Elements \in Seq(Ints) /\ Len(Elements) = length /\ Elements[length] = s[length]
        /\ \A k \in Nat : k <= length => SubSeq(s, 1, k) = First(s, k)
        /\ First(s, 0) = <<>>
    <3>1. \A j \in 1..length : First(s, length)[j] = s[j]
      BY <1>a, <2>2, FirstFacts
    <3>2. length \in 1..length
      BY <1>a, <2>1
    <3>3. First(s, length) \in Seq(Ints) /\ Len(First(s, length)) = length /\ First(s, 0) = <<>>
      BY <1>a, <2>2, FirstFacts
    <3>4. ASSUME NEW k \in Nat, k <= length PROVE SubSeq(s, 1, k) = First(s, k)
      <4>1. k <= Len(s)
        BY <1>a, <2>2, <3>4
      <4>2. QED
        BY <2>2, <4>1, FirstFacts
    <3>5. QED
      BY <2>2, <3>1, <3>2, <3>3, <3>4
  <2> HIDE DEF s
  <2>4. length - 1 \in Nat /\ length - 1 <= length
    BY <1>a, <2>1
  <2>5. Elements' = First(s, length - 1)
    <3>1. Elements' = IF length - 1 = 0 THEN <<>> ELSE SubSeq(s, 1, length - 1)
      BY <2>1 DEF Elements, s
    <3>2. QED
      BY <2>3, <2>4, <3>1
  <2>6. First(s, length - 1) = SubSeq(Elements, 1, Len(Elements) - 1)
    BY <1>a, <2>1, <2>2, <2>3, FirstFront
  <2>7. Elements # <<>>
    BY <2>1, <2>3
  <2>8. Abstract!PopBack
    BY <2>1, <2>3, <2>5, <2>6, <2>7 DEF Abstract!PopBack, Abstract!Returns, s
  <2>9. QED
    BY <2>8 DEF Abstract!Next
<1>7. ASSUME NEW i \in 0..MaxLen - 1, vec_get(i) PROVE Abstract!Next
  <2>1. /\ ready /\ ~fault /\ i < length
        /\ mem' = mem /\ data' = data /\ length' = length
        /\ last' = <<"get", i, mem[data][i + 1]>>
    BY <1>7 DEF vec_get, vec, Returns
  <2>2. i \in Nat /\ length > 0 /\ i + 1 \in 1..length /\ (i + 1) - 1 = i
    BY <1>a, <2>1
  <2> DEFINE s == mem[data]
  <2>3. s \in Seq(Ints) /\ length <= Len(s) /\ Elements = First(s, length)
    BY <1>e, <2>1, <2>2
  <2>4. /\ Elements \in Seq(Ints) /\ Len(Elements) = length /\ Elements[i + 1] = s[i + 1]
        /\ DOMAIN Elements = 1..length
    BY <1>a, <2>2, <2>3, FirstFacts
  <2>5. Elements' = Elements
    BY <2>1 DEF Elements
  <2>6. Abstract!Get((i + 1) - 1)
    BY <2>1, <2>2, <2>4, <2>5 DEF Abstract!Get, Abstract!Returns
  <2>7. QED
    BY <2>2, <2>4, <2>6 DEF Abstract!Next
<1>8. CASE vec_free
  BY <1>8, <1>d DEF vec_free, Returns, Abstract!Next, Abstract!Clear, Abstract!Returns
<1>9. QED
  BY <1>1, <1>3, <1>4, <1>5, <1>6, <1>7, <1>8 DEF Next

(***************************************************************************)
(* int_vec_t is a sequence to its user: vec_pop and vec_get give back what *)
(* vec_push appended, across any number of reallocations, moved or not;    *)
(* only the push that stores outside of its block is no such step.         *)
(***************************************************************************)
THEOREM VectorIsSequence == Spec => ImplementsSequence
<1>1. Init => Abstract!Init
  BY DEF Init, Abstract!Init, Elements
<1>2. IInv /\ IInv' /\ [Next]_vars => [fault' \/ [Abstract!Next]_<<Elements, last>>]_vars
  BY SequenceStep
<1>3. QED
  BY <1>1, <1>2, Invariance, PTL DEF Spec, ImplementsSequence
=============================================================================
