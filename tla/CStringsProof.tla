---------------------------- MODULE CStringsProof ----------------------------
(***************************************************************************)
(* Theorems about the string functions, for every size of the buffer,      *)
(* every set of characters, every width of int and all arguments,          *)
(* overlapping ones included.                                              *)
(***************************************************************************)
EXTENDS CStrings, WellFoundedInduction, TLAPS

ByteValues == -128..Junk

Memories == [1..Top -> ByteValues]

(* A string of n characters starts at s of m.                              *)
HasLen(m, s, n) == n \in Nat /\ m[s + n] = 0 /\ \A k \in 0..(n - 1) : m[s + k] # 0

(* It lies in the buffer or in a block of len bytes.                       *)
StringAt(m, len, s, n) ==
  /\ s \in Int /\ s >= 1 /\ HasLen(m, s, n)
  /\ s..(s + n) \subseteq Accessible(len)

-----------------------------------------------------------------------------
(* Addresses and strings.                                                  *)

(* A length is the same number as an int, or it becomes a smaller one.     *)
LEMMA ToIntIs ==
  ASSUME NEW n \in Nat
  PROVE  /\ ToInt(n) \in Int
         /\ n < IntHalf => ToInt(n) = n
         /\ ~(n < IntHalf) => ToInt(n) < n
<1>1. PICK h \in Nat \ {0} : h = IntHalf
  BY IntAssumption
<1>2. ToInt(n) = ((n + h) % (2 * h)) - h
  BY <1>1 DEF ToInt
<1>3. PICK z \in Nat : z = (n + h) % (2 * h) /\ z < 2 * h /\ (n + h < 2 * h => z = n + h)
  BY <1>1
<1>4. ToInt(n) = z - h
  BY <1>2, <1>3
<1> QED
  BY <1>1, <1>3, <1>4

(* Every set of natural numbers that is not empty has a least element.     *)
LEMMA LeastNumber ==
  ASSUME NEW S \in SUBSET Nat, S # {}
  PROVE  \E m \in S : \A k \in S : m <= k
<1>1. IsWellFoundedOn(OpToRel(<, Nat), Nat)
  BY NatLessThanWellFounded
<1>2. PICK m \in S : \A k \in S : ~(<<k, m>> \in OpToRel(<, Nat))
  BY <1>1, WFMin
<1>3. \A k \in S : ~(k < m)
  BY <1>2 DEF OpToRel
<1> QED
  BY <1>3

(* The two objects, and the gap between them.                              *)
LEMMA Layout ==
  ASSUME NEW len \in 0..(2 * Size)
  PROVE  /\ Size \in Nat /\ Size >= 1 /\ Base = Size + 2 /\ Top = 3 * Size + 2
         /\ \A p \in Int : p \in Accessible(len) <=>
              (1 <= p /\ p <= Size) \/ (Base <= p /\ p < Base + len)
         /\ \A p \in Accessible(len) : p \in Int /\ 1 <= p /\ p <= Top
         /\ Null \notin Accessible(len)
<1>1. Size \in Nat /\ Size >= 1
  BY CharsAssumption
<1>2. Base = Size + 2 /\ Top = 3 * Size + 2
  BY <1>1 DEF Base, Top
<1>3. \A p \in Int : p \in Accessible(len) <=>
        (1 <= p /\ p <= Size) \/ (Base <= p /\ p < Base + len)
  BY <1>1, <1>2 DEF Accessible
<1>4. \A p \in Accessible(len) : p \in Int
  BY <1>1, <1>2 DEF Accessible
<1>5. \A p \in Accessible(len) : 1 <= p /\ p <= Top
  BY <1>1, <1>2, <1>3, <1>4
<1>6. Null \notin Accessible(len)
  BY <1>5 DEF Null
<1> QED
  BY <1>1, <1>2, <1>3, <1>4, <1>5, <1>6

(* A string lies in one of the two objects.                                *)
LEMMA OneObject ==
  ASSUME NEW len \in 0..(2 * Size), NEW s \in Int, NEW n \in Nat,
         s..(s + n) \subseteq Accessible(len)
  PROVE  (1 <= s /\ s + n <= Size) \/ (Base <= s /\ s + n < Base + len)
<1>1. s \in Accessible(len) /\ s + n \in Accessible(len)
  OBVIOUS
<1>2. Size + 1 \notin Accessible(len) /\ Size + 1 \in Int /\ Size \in Nat /\ Base = Size + 2
  BY Layout
<1>3. Size + 1 \notin s..(s + n)
  BY <1>2
<1>4. (1 <= s /\ s <= Size) \/ (Base <= s /\ s < Base + len)
  BY <1>1, Layout
<1>5. (1 <= s + n /\ s + n <= Size) \/ (Base <= s + n /\ s + n < Base + len)
  BY <1>1, Layout
<1> QED
  BY <1>2, <1>3, <1>4, <1>5

(* A string has one length, and my_strlen returns it.                      *)
LEMMA StrlenIs ==
  ASSUME NEW m, NEW s \in Int, s >= 1, NEW n \in Nat, s + n <= Top, HasLen(m, s, n)
  PROVE  my_strlen(m, s) = n
<1> DEFINE P(k) == m[s + k] = 0 /\ \A j \in 0..(k - 1) : m[s + j] # 0
<1>1. Top \in Nat
  BY CharsAssumption DEF Top, Base
<1>2. n \in 0..Top /\ P(n)
  BY <1>1 DEF HasLen
<1>3. ASSUME NEW k \in 0..Top, P(k) PROVE k = n
  <2>1. k < n => n \in Nat /\ k \in 0..(n - 1)
    BY <1>1, <1>3
  <2>2. n < k => n \in 0..(k - 1)
    BY <1>1, <1>3
  <2> QED
    BY <1>1, <1>2, <1>3, <2>1, <2>2
<1>4. my_strlen(m, s) = CHOOSE k \in 0..Top : P(k)
  BY DEF my_strlen
<1> HIDE DEF P
<1> QED
  BY <1>2, <1>3, <1>4

(* What the caller passes as a string is one.                              *)
LEMMA StringIs ==
  ASSUME NEW m, blockLen \in 0..(2 * Size), NEW s \in Strings(m)
  PROVE  StringAt(m, blockLen, s, my_strlen(m, s))
<1> DEFINE A == Accessible(blockLen)
<1>1. s \in A /\ \E q \in A : s <= q /\ s..q \subseteq A /\ m[q] = 0
  BY DEF Strings
<1>2. PICK q \in A : s <= q /\ s..q \subseteq A /\ m[q] = 0
  BY <1>1
<1>3. s \in Int /\ s >= 1 /\ q \in Int /\ q <= Top /\ Top \in Int
  BY <1>1, <1>2, Layout
<1> DEFINE S == {k \in Nat : m[s + k] = 0}
<1>4. q - s \in S
  <2>1. q - s \in Nat /\ s + (q - s) = q
    BY <1>2, <1>3
  <2> QED
    BY <1>2, <2>1
<1>5. PICK n \in S : \A k \in S : n <= k
  BY <1>4, LeastNumber
<1>6. n \in Nat /\ n <= q - s /\ m[s + n] = 0
  BY <1>4, <1>5
<1>7. \A k \in 0..(n - 1) : m[s + k] # 0
  BY <1>5, <1>6
<1>8. HasLen(m, s, n)
  BY <1>6, <1>7 DEF HasLen
<1>9. s + n <= q /\ s + n <= Top
  BY <1>3, <1>6
<1>10. my_strlen(m, s) = n
  BY <1>3, <1>6, <1>8, <1>9, StrlenIs
<1>11. s..(s + n) \subseteq A
  BY <1>2, <1>3, <1>6, <1>9
<1> QED
  BY <1>3, <1>8, <1>10, <1>11 DEF StringAt

-----------------------------------------------------------------------------
(***************************************************************************)
(* The loop of my_strcpy, from f to t, over a string of n characters in    *)
(* the memory st: m is the memory now, s and d are src and dst.            *)
(***************************************************************************)
Overlaps(f, t, n) == f < t /\ t <= f + n

(* k characters are copied, all of them into objects of the program.       *)
Copied(m, s, d, st, f, t, k, len) ==
  /\ s = f + k /\ d = t + k
  /\ \A p \in Int : t <= p /\ p < t + k => p \in Accessible(len)
  /\ \A p \in 1..Top : m[p] = IF t <= p /\ p < t + k THEN st[f + (p - t)] ELSE st[p]

(* The terminator was, or will be, overwritten before it is read.          *)
Chasing(m, s, d) == s \in Int /\ d \in Int /\ s < d /\ \A p \in Int : s <= p /\ p < d => m[p] # 0

Loop(m, s, d, st, f, t, n, len) ==
  IF Overlaps(f, t, n) THEN Chasing(m, s, d)
  ELSE \E k \in 0..n : Copied(m, s, d, st, f, t, k, len)

(* The memory when the loop has returned.                                  *)
CopyOf(m, st, f, t, n) ==
  \A p \in 1..Top : m[p] = IF t <= p /\ p < t + n THEN st[f + (p - t)]
                           ELSE IF p = t + n THEN 0 ELSE st[p]

(* Nothing is copied yet.                                                  *)
LEMMA LoopBegins ==
  ASSUME NEW st, NEW f, NEW t \in Int, NEW n, NEW len, StringAt(st, len, f, n)
  PROVE  Loop(st, f, t, st, f, t, n, len)
<1>1. f \in Int /\ n \in Nat /\ \A k \in 0..(n - 1) : st[f + k] # 0
  BY DEF StringAt, HasLen
<1>2. ASSUME Overlaps(f, t, n) PROVE Chasing(st, f, t)
  <2>1. f < t /\ t <= f + n
    BY <1>2 DEF Overlaps
  <2>2. ASSUME NEW p \in Int, f <= p, p < t PROVE st[p] # 0
    <3>1. p - f \in 0..(n - 1) /\ f + (p - f) = p
      BY <1>1, <2>1, <2>2
    <3> QED
      BY <1>1, <3>1
  <2> QED
    BY <1>1, <2>1, <2>2 DEF Chasing
<1>3. Copied(st, f, t, st, f, t, 0, len)
  BY <1>1 DEF Copied
<1>4. 0 \in 0..n
  BY <1>1
<1> QED
  BY <1>2, <1>3, <1>4 DEF Loop

(* Where the loop reads, the source is as it was.                          *)
LEMMA SourceIntact ==
  ASSUME NEW m, NEW s, NEW d, NEW st, NEW f, NEW t \in Int, NEW n, NEW len \in 0..(2 * Size),
         StringAt(st, len, f, n), ~Overlaps(f, t, n),
         NEW k \in 0..n, Copied(m, s, d, st, f, t, k, len)
  PROVE  s \in Accessible(len) /\ m[s] = st[s] /\ (m[s] = 0 <=> k = n)
<1>1. f \in Int /\ n \in Nat /\ k \in Nat /\ k <= n /\ f..(f + n) \subseteq Accessible(len)
  BY DEF StringAt, HasLen
<1>2. s = f + k
  BY DEF Copied
<1>3. s \in Accessible(len)
  BY <1>1, <1>2
<1>4. s \in 1..Top /\ Top \in Int
  BY <1>3, Layout
<1>5. ~(t <= s /\ s < t + k)
  BY <1>1, <1>2 DEF Overlaps
<1>6. m[s] = st[s]
  BY <1>4, <1>5 DEF Copied
<1>7. st[f + n] = 0 /\ \A j \in 0..(n - 1) : st[f + j] # 0
  BY DEF StringAt, HasLen
<1>8. k # n => k \in 0..(n - 1)
  BY <1>1
<1> QED
  BY <1>2, <1>3, <1>6, <1>7, <1>8

(* An iteration.                                                           *)
LEMMA LoopGoesOn ==
  ASSUME NEW m \in Memories, NEW s, NEW d, NEW st, NEW f, NEW t \in Int, NEW n,
         NEW len \in 0..(2 * Size), StringAt(st, len, f, n),
         Loop(m, s, d, st, f, t, n, len),
         s \in Accessible(len), d \in Accessible(len), m[s] # 0
  PROVE  Loop([m EXCEPT ![d] = m[s]], s + 1, d + 1, st, f, t, n, len)
<1> DEFINE mm == [m EXCEPT ![d] = m[s]]
<1>1. s \in 1..Top /\ d \in 1..Top /\ Top \in Int
  BY Layout
<1>2. mm[d] = m[s] /\ \A p \in 1..Top : p # d => mm[p] = m[p]
  BY <1>1 DEF Memories
<1>3. f \in Int /\ n \in Nat
  BY DEF StringAt, HasLen
<1> HIDE DEF mm
<1>4. ASSUME Overlaps(f, t, n) PROVE Chasing(mm, s + 1, d + 1)
  <2>1. s \in Int /\ d \in Int /\ s < d /\ \A p \in Int : s <= p /\ p < d => m[p] # 0
    BY <1>4 DEF Loop, Chasing
  <2>2. ASSUME NEW p \in Int, s + 1 <= p, p < d + 1 PROVE mm[p] # 0
    <3>1. p \in 1..Top
      BY <1>1, <2>1, <2>2
    <3>2. CASE p = d
      BY <1>2, <3>2
    <3>3. CASE p # d
      BY <1>2, <2>1, <2>2, <3>1, <3>3
    <3> QED
      BY <3>2, <3>3
  <2> QED
    BY <2>1, <2>2 DEF Chasing
<1>5. ASSUME ~Overlaps(f, t, n) PROVE \E k \in 0..n : Copied(mm, s + 1, d + 1, st, f, t, k, len)
  <2>1. PICK k \in 0..n : Copied(m, s, d, st, f, t, k, len)
    BY <1>5 DEF Loop
  <2>2. m[s] = st[s] /\ k # n
    BY <1>5, <2>1, SourceIntact
  <2>3. k \in Int /\ 0 <= k /\ k + 1 \in 0..n
    BY <1>3, <2>1, <2>2
  <2>4. /\ s = f + k /\ d = t + k
        /\ \A p \in Int : t <= p /\ p < t + k => p \in Accessible(len)
        /\ \A p \in 1..Top : m[p] = IF t <= p /\ p < t + k THEN st[f + (p - t)] ELSE st[p]
    BY <2>1 DEF Copied
  <2>5. s + 1 = f + (k + 1) /\ d + 1 = t + (k + 1)
    BY <1>3, <2>3, <2>4
  <2>6. ASSUME NEW p \in Int, t <= p, p < t + (k + 1) PROVE p \in Accessible(len)
    <3>1. p < t + k \/ p = d
      BY <2>3, <2>4, <2>6
    <3> QED
      BY <2>4, <2>6, <3>1
  <2>7. ASSUME NEW p \in 1..Top
        PROVE  mm[p] = IF t <= p /\ p < t + (k + 1) THEN st[f + (p - t)] ELSE st[p]
    <3>1. CASE p = d
      <4>1. t <= p /\ p < t + (k + 1) /\ f + (p - t) = s
        BY <1>3, <2>3, <2>4, <3>1
      <4> QED
        BY <1>2, <2>2, <3>1, <4>1
    <3>2. CASE p # d
      <4>1. (t <= p /\ p < t + (k + 1)) <=> (t <= p /\ p < t + k)
        BY <1>1, <2>3, <2>4, <3>2
      <4>2. mm[p] = m[p]
        BY <1>2, <3>2
      <4>3. m[p] = IF t <= p /\ p < t + k THEN st[f + (p - t)] ELSE st[p]
        BY <2>4
      <4> QED
        BY <4>1, <4>2, <4>3
    <3> QED
      BY <3>1, <3>2
  <2>8. Copied(mm, s + 1, d + 1, st, f, t, k + 1, len)
    BY <2>5, <2>6, <2>7 DEF Copied
  <2> QED
    BY <2>3, <2>8
<1>6. Loop(mm, s + 1, d + 1, st, f, t, n, len)
  BY <1>4, <1>5 DEF Loop
<1> QED
  BY <1>6 DEF mm

(* The last statement of the loop, *dst = '\0'.                             *)
Terminated(m, mm, s, d) == m[s] = 0 /\ mm = [m EXCEPT ![d] = 0]

(* What the loop has done.                                                 *)
LoopDone(m, st, f, t, n, len) ==
  /\ ~Overlaps(f, t, n)
  /\ t..(t + n) \subseteq Accessible(len)
  /\ CopyOf(m, st, f, t, n)

(* The end: the terminator is stored.  A loop that had to leave its        *)
(* objects, or that chases its own terminator, does not come here.         *)
LEMMA LoopEnds ==
  ASSUME NEW m \in Memories, NEW s, NEW d, NEW st, NEW f, NEW t \in Int, NEW n,
         NEW len \in 0..(2 * Size), StringAt(st, len, f, n),
         Loop(m, s, d, st, f, t, n, len),
         s \in Accessible(len), d \in Accessible(len), NEW mm, Terminated(m, mm, s, d)
  PROVE  LoopDone(mm, st, f, t, n, len)
<1>1. s \in 1..Top /\ d \in 1..Top /\ Top \in Int
  BY Layout
<1>2. mm[d] = 0 /\ \A p \in 1..Top : p # d => mm[p] = m[p]
  BY <1>1 DEF Memories, Terminated
<1>3. f \in Int /\ n \in Nat
  BY DEF StringAt, HasLen
<1>4. ~Overlaps(f, t, n)
  <2>1. SUFFICES ASSUME Overlaps(f, t, n) PROVE FALSE
    OBVIOUS
  <2>2. s \in Int /\ d \in Int /\ s < d /\ \A p \in Int : s <= p /\ p < d => m[p] # 0
    BY <2>1 DEF Loop, Chasing
  <2>3. s <= s
    BY <2>2
  <2> QED
    BY <2>2, <2>3 DEF Terminated
<1>5. PICK k \in 0..n : Copied(m, s, d, st, f, t, k, len)
  BY <1>4 DEF Loop
<1>6. k = n
  BY <1>4, <1>5, SourceIntact DEF Terminated
<1>7. /\ d = t + n
      /\ \A p \in Int : t <= p /\ p < t + n => p \in Accessible(len)
      /\ \A p \in 1..Top : m[p] = IF t <= p /\ p < t + n THEN st[f + (p - t)] ELSE st[p]
  BY <1>5, <1>6 DEF Copied
<1>8. ASSUME NEW p \in t..(t + n) PROVE p \in Accessible(len)
  <2>1. p \in Int /\ t <= p /\ (p < t + n \/ p = d)
    BY <1>3, <1>7, <1>8
  <2> QED
    BY <1>7, <2>1
<1>9. ASSUME NEW p \in 1..Top
      PROVE  mm[p] = IF t <= p /\ p < t + n THEN st[f + (p - t)]
                     ELSE IF p = t + n THEN 0 ELSE st[p]
  <2>1. CASE p = d
    <3>1. ~(p < t + n)
      BY <1>3, <1>7, <2>1
    <3> QED
      BY <1>2, <1>7, <2>1, <3>1
  <2>2. CASE p # d
    <3>1. mm[p] = m[p]
      BY <1>2, <2>2
    <3>2. m[p] = IF t <= p /\ p < t + n THEN st[f + (p - t)] ELSE st[p]
      BY <1>7
    <3> QED
      BY <1>7, <2>2, <3>1, <3>2
  <2> QED
    BY <2>1, <2>2
<1>10. CopyOf(mm, st, f, t, n)
  BY <1>9 DEF CopyOf
<1> QED
  BY <1>4, <1>8, <1>10 DEF LoopDone

(* A loop that has room and does not overlap can always go on.             *)
LEMMA LoopIsSafe ==
  ASSUME NEW m, NEW s, NEW d, NEW st, NEW f, NEW t \in Int, NEW n,
         NEW len \in 0..(2 * Size), StringAt(st, len, f, n),
         Loop(m, s, d, st, f, t, n, len),
         ~Overlaps(f, t, n), t..(t + n) \subseteq Accessible(len)
  PROVE  s \in Accessible(len) /\ d \in Accessible(len)
<1>1. PICK k \in 0..n : Copied(m, s, d, st, f, t, k, len)
  BY DEF Loop
<1>2. n \in Nat
  BY DEF StringAt, HasLen
<1>3. d = t + k /\ d \in t..(t + n)
  BY <1>1, <1>2 DEF Copied
<1> QED
  BY <1>1, <1>3, SourceIntact

-----------------------------------------------------------------------------
(* The invariant.                                                          *)

(* No byte of an object is one that was never written.                     *)
IsChar(c) == c \in -128..127

Clean(m, len) == \A p \in Accessible(len) : IsChar(m[p])

Len2 == my_strlen(old, args[2])
Len3 == my_strlen(old, args[3])

MakesBlock == fn \in {"my_strdup", "str_join"}

Unsafe == NoRoom \/ TooLong

(* What the result needs, and what malloc can have given.                  *)
BlockBytes == IF fn = "my_strdup" THEN Len3 + 1 ELSE Len2 + Len3 + 1

Sized ==
  /\ blockLen <= BlockBytes
  /\ TooLong => blockLen < BlockBytes
  /\ ~TooLong => blockLen \in {0, BlockBytes}

(* The arguments of the copying function that runs.                        *)
CallOK ==
  /\ fn \in {"my_strcpy", "my_strcat", "my_strdup", "str_join"}
  /\ MakesBlock =>
       /\ StringAt(old, 0, args[2], Len2) /\ StringAt(old, 0, args[3], Len3)
       /\ Clean(old, 0)
       /\ fn = "my_strdup" => args[2] = args[3]
       /\ Sized
  /\ ~MakesBlock =>
       /\ args[2] \in Int
       /\ StringAt(old, blockLen, args[3], Len3)
       /\ Clean(old, blockLen)
       /\ fn = "my_strcat" => StringAt(old, blockLen, args[2], Len2)

(* Where the (last) string is copied to.                                   *)
Target ==
  IF fn = "my_strdup" THEN Base
  ELSE IF fn = "str_join" THEN Base + Len2
  ELSE IF fn = "my_strcat" THEN args[2] + ToInt(Len2)
  ELSE args[2]

(* What st, the memory before the last string is copied, consists of.      *)
Before(st) ==
  st \in Memories /\ IF fn = "str_join" THEN CopyOf(st, old, args[2], Base, Len2) ELSE st = old

(* str_join copies its first string.                                       *)
FirstLoop ==
  /\ fn = "str_join" /\ next = args[3]
  /\ Loop(mem, src, dst, old, args[2], Base, Len2, blockLen)

(* The only, or the second, string is copied.                              *)
LastLoop ==
  /\ next = Null
  /\ \E st \in Memories : Before(st) /\ Loop(mem, src, dst, st, args[3], Target, Len3, blockLen)

(* malloc has given no byte, or one of the loops is at work.                      *)
Progress ==
  IF MakesBlock /\ blockLen = 0 THEN dst \in {Null, Base} ELSE FirstLoop \/ LastLoop

(* str_reverse: the outer characters are exchanged.                        *)
Mirrored(m, st, s, n, k) ==
  \A p \in 1..Top :
    m[p] = IF s <= p /\ p < s + n /\ (p - s < k \/ p - s >= n - k)
           THEN st[s + ((n - 1) - (p - s))] ELSE st[p]

Reversing ==
  /\ fn = "str_reverse"
  /\ StringAt(old, blockLen, args[2], Len2)
  /\ Clean(old, blockLen)
  /\ i \in Nat /\ i <= Len2 \div 2
  /\ Mirrored(mem, old, args[2], Len2, i)

(***************************************************************************)
(* The inductive invariant: how far the running function has come, in      *)
(* terms of its arguments and of the memory at the call.                   *)
(***************************************************************************)
StringsInv ==
  /\ mem \in Memories /\ old \in Memories /\ blockLen \in 0..(2 * Size)
  /\ pc \in {"idle", "copy", "reverse", "fault"}
  /\ pc = "idle" => Clean(mem, blockLen)
  /\ pc = "copy" => CallOK /\ Progress
  /\ pc = "reverse" => Reversing
  /\ pc = "fault" => Unsafe

(* The state between two calls.                                            *)
LEMMA IdleInv ==
  ASSUME mem' \in Memories, old' \in Memories, blockLen' \in 0..(2 * Size),
         pc' = "idle", Clean(mem', blockLen')
  PROVE  StringsInv'
  BY DEF StringsInv

(* The memory of a buffer b and no block.                                  *)
LEMMA FreshMemory ==
  ASSUME NEW b, \A p \in 1..Size : IsChar(b[p])
  PROVE  LET m == [p \in 1..Top |-> IF p > Size THEN Junk ELSE b[p]]
         IN  m \in Memories /\ Clean(m, 0)
<1> DEFINE m == [p \in 1..Top |-> IF p > Size THEN Junk ELSE b[p]]
<1>1. 0 \in 0..(2 * Size) /\ Size \in Nat /\ Top = 3 * Size + 2
  BY CharsAssumption DEF Top, Base
<1>2. \A p \in 1..Size : p \in 1..Top /\ ~(p > Size)
  BY <1>1
<1>3. \A p \in 1..Top : p > Size \/ p \in 1..Size
  BY <1>1
<1>4. \A p \in 1..Top : (IF p > Size THEN Junk ELSE b[p]) \in ByteValues
  BY <1>3 DEF ByteValues, Junk, IsChar
<1>5. m \in Memories
  BY <1>4 DEF Memories
<1>6. \A p \in 1..Size : m[p] = b[p]
  BY <1>2
<1> HIDE DEF m
<1>7. \A p \in Accessible(0) : p \in 1..Size
  BY <1>1, Layout
<1>8. Clean(m, 0)
  BY <1>6, <1>7 DEF Clean
<1> QED
  BY <1>5, <1>8 DEF m

(* At the start the buffer holds empty strings.                            *)
LEMMA StringsInvInit == StringsInit => StringsInv
<1> SUFFICES ASSUME StringsInit PROVE StringsInv
  OBVIOUS
<1>1. /\ mem = [p \in 1..Top |-> IF p > Size THEN Junk ELSE 0]
      /\ blockLen = 0 /\ pc = "idle" /\ old = mem
  BY DEF StringsInit
<1> DEFINE b == [p \in 1..Size |-> 0]
<1>2. \A p \in 1..Size : IsChar(b[p])
  BY DEF IsChar
<1>3. mem = [p \in 1..Top |-> IF p > Size THEN Junk ELSE b[p]]
  <2>1. Size \in Nat /\ \A p \in 1..Top : p > Size \/ p \in 1..Size
    BY CharsAssumption DEF Top, Base
  <2>2. \A p \in 1..Top : (IF p > Size THEN Junk ELSE 0) = (IF p > Size THEN Junk ELSE b[p])
    BY <2>1
  <2> QED
    BY <1>1, <2>2
<1> HIDE DEF b
<1>4. mem \in Memories /\ Clean(mem, 0)
  BY <1>2, <1>3, FreshMemory
<1>5. 0 \in 0..(2 * Size)
  BY CharsAssumption
<1> QED
  BY <1>1, <1>4, <1>5 DEF StringsInv

(* The caller fills its buffer.                                            *)
LEMMA FillStep == StringsInv /\ FillBuffer => StringsInv'
<1> SUFFICES ASSUME StringsInv, FillBuffer PROVE StringsInv'
  OBVIOUS
<1>1. PICK b \in [1..Size -> Chars] : mem' = [p \in 1..Top |-> IF p > Size THEN Junk ELSE b[p]]
  BY DEF FillBuffer
<1>2. \A p \in 1..Size : IsChar(b[p])
  BY CharsAssumption DEF IsChar
<1>3. mem' \in Memories /\ Clean(mem', 0)
  BY <1>1, <1>2, FreshMemory
<1>4. pc' = "idle" /\ blockLen' = 0 /\ old' = mem'
  BY DEF FillBuffer
<1>5. 0 \in 0..(2 * Size)
  BY CharsAssumption
<1> QED
  BY <1>3, <1>4, <1>5, IdleInv

(* The caller frees its block.                                             *)
LEMMA FreeBlockStep == StringsInv /\ FreeBlock => StringsInv'
<1> SUFFICES ASSUME StringsInv, FreeBlock PROVE StringsInv'
  OBVIOUS
<1>1. mem' = [p \in 1..Top |-> IF p > Size THEN Junk ELSE mem[p]]
  BY DEF FreeBlock
<1>2. \A p \in 1..Size : IsChar(mem[p])
  <2>1. Clean(mem, blockLen) /\ blockLen \in 0..(2 * Size)
    BY DEF StringsInv, FreeBlock
  <2>2. \A p \in 1..Size : p \in Accessible(blockLen)
    BY DEF Accessible
  <2> QED
    BY <2>1, <2>2 DEF Clean
<1>3. mem' \in Memories /\ Clean(mem', 0)
  BY <1>1, <1>2, FreshMemory
<1>4. pc' = "idle" /\ blockLen' = 0 /\ old' = mem'
  BY DEF FreeBlock
<1>5. 0 \in 0..(2 * Size)
  BY CharsAssumption
<1> QED
  BY <1>3, <1>4, <1>5, IdleInv

(* A copying function has been called and nothing is copied yet.           *)
LEMMA CopyingInv ==
  ASSUME StringsInv, UNCHANGED mem, old' = mem, blockLen' \in 0..(2 * Size),
         pc' = "copy", CallOK', Progress'
  PROVE  StringsInv'
  BY DEF StringsInv

(* What is known when a function is called.                                *)
LEMMA AtCall ==
  ASSUME StringsInv, pc = "idle"
  PROVE  /\ mem \in Memories /\ blockLen \in 0..(2 * Size) /\ Clean(mem, blockLen)
         /\ \A s \in Strings(mem) : StringAt(mem, blockLen, s, my_strlen(mem, s))
<1>1. mem \in Memories /\ blockLen \in 0..(2 * Size) /\ Clean(mem, blockLen)
  BY DEF StringsInv
<1> QED
  BY <1>1, StringIs

(* The first state of a loop that copies the only string.                  *)
LEMMA LastLoopBegins ==
  ASSUME mem' \in Memories, old' = mem', fn' # "str_join",
         src' = args'[3], dst' = Target', next' = Null, Target' \in Int,
         StringAt(mem', blockLen', args'[3], Len3')
  PROVE  LastLoop'
<1>1. Before(mem)'
  BY DEF Before
<1>2. Loop(mem', args'[3], Target', mem', args'[3], Target', Len3', blockLen')
  BY LoopBegins
<1> QED
  BY <1>1, <1>2 DEF LastLoop

(* my_strcpy is called.                                                    *)
LEMMA StrcpyStep ==
  ASSUME StringsInv, pc = "idle", NEW s \in Strings(mem), NEW d \in 1..Size, my_strcpy(d, s)
  PROVE  StringsInv'
<1>1. /\ pc' = "copy" /\ dst' = d /\ src' = s /\ next' = Null
      /\ args' = <<"my_strcpy", d, s>> /\ old' = mem /\ mem' = mem /\ blockLen' = blockLen
  BY DEF my_strcpy, Copies
<1>2. args'[1] = "my_strcpy" /\ args'[2] = d /\ args'[3] = s
  BY <1>1
<1>3. /\ mem \in Memories /\ blockLen \in 0..(2 * Size) /\ Clean(mem, blockLen)
      /\ StringAt(mem, blockLen, s, my_strlen(mem, s))
  BY AtCall
<1>4. fn' = "my_strcpy" /\ Len3' = my_strlen(mem, s) /\ Target' = d /\ d \in Int /\ ~(MakesBlock')
  BY <1>1, <1>2 DEF fn, Len3, Target, MakesBlock
<1>5. CallOK'
  BY <1>1, <1>2, <1>3, <1>4 DEF CallOK
<1>6. LastLoop'
  BY <1>1, <1>2, <1>3, <1>4, LastLoopBegins
<1>7. Progress'
  BY <1>4, <1>6 DEF Progress
<1> QED
  BY <1>1, <1>3, <1>5, <1>7, CopyingInv

(* my_strcat is called.                                                    *)
LEMMA StrcatStep ==
  ASSUME StringsInv, pc = "idle", NEW s \in Strings(mem), NEW t \in Strings(mem), my_strcat(t, s)
  PROVE  StringsInv'
<1>1. /\ pc' = "copy" /\ dst' = t + ToInt(my_strlen(mem, t)) /\ src' = s /\ next' = Null
      /\ args' = <<"my_strcat", t, s>> /\ old' = mem /\ mem' = mem /\ blockLen' = blockLen
  BY DEF my_strcat, Copies
<1>2. args'[1] = "my_strcat" /\ args'[2] = t /\ args'[3] = s
  BY <1>1
<1>3. /\ mem \in Memories /\ blockLen \in 0..(2 * Size) /\ Clean(mem, blockLen)
      /\ StringAt(mem, blockLen, s, my_strlen(mem, s))
      /\ StringAt(mem, blockLen, t, my_strlen(mem, t))
  BY AtCall
<1>4. /\ fn' = "my_strcat" /\ Len3' = my_strlen(mem, s) /\ Len2' = my_strlen(mem, t)
      /\ ~(MakesBlock')
  BY <1>1, <1>2 DEF fn, Len2, Len3, MakesBlock
<1>5. Target' = t + ToInt(my_strlen(mem, t)) /\ t \in Int /\ Target' \in Int
  <2>1. t \in Int /\ my_strlen(mem, t) \in Nat
    BY <1>3 DEF StringAt, HasLen
  <2>2. ToInt(my_strlen(mem, t)) \in Int
    BY <2>1, ToIntIs
  <2>3. Target' = args'[2] + ToInt(Len2')
    BY <1>4 DEF Target
  <2> QED
    BY <1>2, <1>4, <2>1, <2>2, <2>3
<1>6. CallOK'
  BY <1>1, <1>2, <1>3, <1>4, <1>5 DEF CallOK
<1>7. LastLoop'
  BY <1>1, <1>2, <1>3, <1>4, <1>5, LastLoopBegins
<1>8. Progress'
  BY <1>4, <1>7 DEF Progress
<1> QED
  BY <1>1, <1>3, <1>6, <1>8, CopyingInv

(* A string of the buffer is still one when there is a block.              *)
LEMMA StringInBuffer ==
  ASSUME NEW m, NEW s, NEW n, StringAt(m, 0, s, n)
  PROVE  /\ s \in Int /\ 1 <= s /\ n \in Nat /\ s + n <= Size
         /\ \A len \in Nat : StringAt(m, len, s, n)
<1>1. s \in Int /\ s >= 1 /\ HasLen(m, s, n) /\ n \in Nat /\ s..(s + n) \subseteq Accessible(0)
  BY DEF StringAt, HasLen
<1>2. 0 \in 0..(2 * Size) /\ Size \in Nat /\ Base = Size + 2
  BY CharsAssumption DEF Base
<1>3. s + n <= Size
  <2>1. PICK z : z = 0
    OBVIOUS
  <2>2. z \in 0..(2 * Size) /\ s..(s + n) \subseteq Accessible(z)
    BY <1>1, <1>2, <2>1
  <2>3. (1 <= s /\ s + n <= Size) \/ (Base <= s /\ s + n < Base + z)
    BY <1>1, <2>2, OneObject
  <2> QED
    BY <1>1, <1>2, <2>1, <2>3
<1>4. \A len \in Nat : s..(s + n) \subseteq Accessible(len)
  BY <1>1, <1>2, <1>3 DEF Accessible
<1> QED
  BY <1>1, <1>3, <1>4 DEF StringAt

(* my_strdup is called.                                                    *)
LEMMA StrdupStep ==
  ASSUME StringsInv, pc = "idle", NEW s \in Strings(mem), my_strdup(s)
  PROVE  StringsInv'
<1> DEFINE n == my_strlen(mem, s)
<1>1. PICK q \in {Base, Null} : malloc(ToInt(n) + 1, q) /\ Copies(<<"my_strdup", s, s>>, q, s, Null)
  BY DEF my_strdup, DupBytes
<1>2. /\ pc' = "copy" /\ dst' = q /\ src' = s /\ next' = Null
      /\ args' = <<"my_strdup", s, s>> /\ old' = mem /\ mem' = mem
      /\ blockLen = 0
      /\ (q = Base /\ ToInt(n) + 1 >= 0 /\ blockLen' = ToInt(n) + 1) \/ (q = Null /\ blockLen' = 0)
  BY <1>1 DEF Copies, malloc
<1>3. args'[1] = "my_strdup" /\ args'[2] = s /\ args'[3] = s
  BY <1>2
<1>4. mem \in Memories /\ Clean(mem, 0) /\ StringAt(mem, 0, s, n)
  BY <1>2, AtCall
<1>5. /\ fn' = "my_strdup" /\ Len3' = n /\ Len2' = n /\ MakesBlock'
      /\ BlockBytes' = n + 1 /\ Target' = Base
  BY <1>2, <1>3 DEF fn, Len2, Len3, MakesBlock, BlockBytes, Target
<1>6. n \in Nat /\ n + 1 <= Size /\ Base \in Int /\ Size \in Nat
  <2>1. s \in Int /\ 1 <= s /\ n \in Nat /\ s + n <= Size
    BY <1>4, StringInBuffer
  <2>2. Size \in Nat /\ Base \in Int
    BY CharsAssumption DEF Base
  <2> QED
    BY <2>1, <2>2
<1> HIDE DEF n
<1>k. /\ ToInt(n) \in Int
      /\ n < IntHalf => ToInt(n) = n
      /\ ~(n < IntHalf) => ToInt(n) < n
  BY <1>6, ToIntIs
<1>l. TooLong' <=> ~(n < IntHalf)
  <2>1. TooLong' <=> n >= IntHalf
    BY <1>2, <1>3, <1>5 DEF TooLong, Len3
  <2> QED
    BY <1>6, <2>1, IntAssumption
<1>7. blockLen' \in 0..(2 * Size) /\ blockLen' \in Nat
  BY <1>2, <1>6, <1>k
<1>j. /\ blockLen' <= n + 1
      /\ ~(n < IntHalf) => blockLen' < n + 1
      /\ n < IntHalf => blockLen' = 0 \/ blockLen' = n + 1
  BY <1>2, <1>6, <1>k
<1>i. Sized'
  BY <1>5, <1>j, <1>l DEF Sized
<1>8. CallOK'
  BY <1>2, <1>3, <1>4, <1>5, <1>i DEF CallOK
<1>9. Progress'
  <2>1. CASE blockLen' = 0
    <3>1. dst' \in {Null, Base}
      BY <1>2
    <3> QED
      BY <1>5, <2>1, <3>1 DEF Progress
  <2>2. CASE blockLen' # 0
    <3>1. dst' = Base
      BY <1>2, <2>2
    <3>2. StringAt(mem, blockLen', s, n)
      BY <1>4, <1>7, StringInBuffer
    <3>3. LastLoop'
      BY <1>2, <1>3, <1>4, <1>5, <1>6, <3>1, <3>2, LastLoopBegins
    <3> QED
      BY <2>2, <3>3 DEF Progress
  <2> QED
    BY <2>1, <2>2
<1> QED
  BY <1>2, <1>7, <1>8, <1>9, CopyingInv

(* str_join is called.                                                     *)
LEMMA JoinStep ==
  ASSUME StringsInv, pc = "idle", NEW s \in Strings(mem), NEW t \in Strings(mem), str_join(t, s)
  PROVE  StringsInv'
<1> DEFINE k == my_strlen(mem, t)
           n == my_strlen(mem, s)
<1>1. PICK q \in {Base, Null} : malloc(ToInt(k + n + 1), q) /\ Copies(<<"str_join", t, s>>, q, t, s)
  BY DEF str_join, JoinBytes
<1>2. /\ pc' = "copy" /\ dst' = q /\ src' = t /\ next' = s
      /\ args' = <<"str_join", t, s>> /\ old' = mem /\ mem' = mem
      /\ blockLen = 0
      /\ \/ q = Base /\ ToInt(k + n + 1) >= 0 /\ blockLen' = ToInt(k + n + 1)
         \/ q = Null /\ blockLen' = 0
  BY <1>1 DEF Copies, malloc
<1>3. args'[1] = "str_join" /\ args'[2] = t /\ args'[3] = s
  BY <1>2
<1>4. mem \in Memories /\ Clean(mem, 0) /\ StringAt(mem, 0, s, n) /\ StringAt(mem, 0, t, k)
  BY <1>2, AtCall
<1>5. /\ fn' = "str_join" /\ Len3' = n /\ Len2' = k /\ MakesBlock'
      /\ BlockBytes' = k + n + 1
  BY <1>2, <1>3 DEF fn, Len2, Len3, MakesBlock, BlockBytes
<1>6. n \in Nat /\ n + 1 <= Size /\ k \in Nat /\ k + 1 <= Size /\ Base \in Int /\ Size \in Nat
  <2>1. s \in Int /\ 1 <= s /\ n \in Nat /\ s + n <= Size
    BY <1>4, StringInBuffer
  <2>2. t \in Int /\ 1 <= t /\ k \in Nat /\ t + k <= Size
    BY <1>4, StringInBuffer
  <2>3. Size \in Nat /\ Base \in Int
    BY CharsAssumption DEF Base
  <2> QED
    BY <2>1, <2>2, <2>3
<1> HIDE DEF n, k
<1>k. PICK b \in Nat : b = k + n + 1
  BY <1>6
<1>h. /\ ToInt(b) \in Int
      /\ b < IntHalf => ToInt(b) = b
      /\ ~(b < IntHalf) => ToInt(b) < b
  BY <1>k, ToIntIs
<1>l. TooLong' <=> ~(b < IntHalf)
  <2>1. TooLong' <=> b >= IntHalf
    <3>1. my_strlen(old', args'[2]) = k /\ my_strlen(old', args'[3]) = n
      BY <1>2, <1>3 DEF k, n
    <3> QED
      BY <1>5, <1>k, <3>1 DEF TooLong
  <2> QED
    BY <1>k, <2>1, IntAssumption
<1>g. (ToInt(b) >= 0 /\ blockLen' = ToInt(b)) \/ blockLen' = 0
  BY <1>2, <1>k
<1>7. blockLen' \in 0..(2 * Size) /\ blockLen' \in Nat
  BY <1>6, <1>g, <1>h, <1>k
<1>j. /\ blockLen' <= b
      /\ ~(b < IntHalf) => blockLen' < b
      /\ b < IntHalf => blockLen' = 0 \/ blockLen' = b
  BY <1>6, <1>g, <1>h, <1>k
<1>i. Sized'
  BY <1>5, <1>j, <1>k, <1>l DEF Sized
<1>8. CallOK'
  BY <1>2, <1>3, <1>4, <1>5, <1>i DEF CallOK
<1>9. Progress'
  <2>1. CASE blockLen' = 0
    <3>1. dst' \in {Null, Base}
      BY <1>2
    <3> QED
      BY <1>5, <2>1, <3>1 DEF Progress
  <2>2. CASE blockLen' # 0
    <3>1. dst' = Base
      BY <1>2, <2>2
    <3>2. StringAt(mem, blockLen', t, k)
      BY <1>4, <1>7, StringInBuffer
    <3>3. Loop(mem, t, Base, mem, t, Base, k, blockLen')
      BY <1>6, <3>2, LoopBegins
    <3>4. FirstLoop'
      BY <1>2, <1>3, <1>5, <3>1, <3>3 DEF FirstLoop
    <3> QED
      BY <2>2, <3>4 DEF Progress
  <2> QED
    BY <2>1, <2>2
<1> QED
  BY <1>2, <1>7, <1>8, <1>9, CopyingInv

(* str_reverse is called: nothing is exchanged yet.                        *)
LEMMA ReverseStep ==
  ASSUME StringsInv, pc = "idle", NEW s \in Strings(mem), str_reverse(s)
  PROVE  StringsInv'
<1> DEFINE n == my_strlen(mem, s)
<1>1. /\ pc' = "reverse" /\ i' = 0 /\ args' = <<"str_reverse", s, s>>
      /\ old' = mem /\ mem' = mem /\ blockLen' = blockLen
  BY DEF str_reverse
<1>2. args'[1] = "str_reverse" /\ args'[2] = s
  BY <1>1
<1>3. /\ mem \in Memories /\ blockLen \in 0..(2 * Size) /\ Clean(mem, blockLen)
      /\ StringAt(mem, blockLen, s, n)
  BY AtCall
<1>4. fn' = "str_reverse" /\ Len2' = n
  BY <1>1, <1>2 DEF fn, Len2
<1>5. n \in Nat /\ s \in Int
  BY <1>3 DEF StringAt, HasLen
<1> HIDE DEF n
<1>6. 0 <= n \div 2
  BY <1>5
<1>7. Mirrored(mem, mem, s, n, 0)
  <2>1. ASSUME NEW p \in 1..Top PROVE ~(s <= p /\ p < s + n /\ (p - s < 0 \/ p - s >= n - 0))
    BY <1>5, <2>1
  <2> QED
    BY <2>1 DEF Mirrored
<1>8. Reversing'
  BY <1>1, <1>2, <1>3, <1>4, <1>6, <1>7 DEF Reversing
<1> QED
  BY <1>1, <1>3, <1>8 DEF StringsInv

-----------------------------------------------------------------------------
(* The steps of the loops.                                                 *)

(* A string of the buffer is the same string while only the block changes. *)
LEMMA SameString ==
  ASSUME NEW m, NEW st, NEW s, NEW n, NEW len \in Nat, StringAt(st, 0, s, n),
         \A p \in 1..Size : m[p] = st[p]
  PROVE  StringAt(m, len, s, n) /\ StringAt(m, 0, s, n) /\ my_strlen(m, s) = n
<1>1. s \in Int /\ 1 <= s /\ n \in Nat /\ s + n <= Size /\ s..(s + n) \subseteq Accessible(0)
  BY StringInBuffer DEF StringAt
<1>2. Size \in Nat /\ Size <= Top /\ Top \in Int
  BY CharsAssumption DEF Top, Base
<1>3. HasLen(st, s, n)
  BY DEF StringAt
<1>4. \A k \in 0..n : m[s + k] = st[s + k]
  <2>1. TAKE k \in 0..n
  <2>2. s + k \in 1..Size
    BY <1>1, <1>2
  <2> QED
    BY <2>2
<1>5. n \in 0..n /\ \A k \in 0..(n - 1) : k \in 0..n
  BY <1>1
<1>6. HasLen(m, s, n)
  BY <1>3, <1>4, <1>5 DEF HasLen
<1>7. StringAt(m, 0, s, n)
  BY <1>1, <1>6 DEF StringAt
<1>8. StringAt(m, len, s, n)
  BY <1>7, StringInBuffer
<1>9. my_strlen(m, s) = n
  BY <1>1, <1>2, <1>6, StrlenIs
<1> QED
  BY <1>7, <1>8, <1>9

(* A copy into the block leaves the buffer alone.                          *)
LEMMA BufferKept ==
  ASSUME NEW m, NEW st, NEW f, NEW n \in Nat, CopyOf(m, st, f, Base, n)
  PROVE  \A p \in 1..Size : m[p] = st[p]
<1>1. Size \in Nat /\ Base = Size + 2 /\ Top = 3 * Size + 2
  BY CharsAssumption DEF Top, Base
<1>2. TAKE p \in 1..Size
<1>3. p \in 1..Top /\ ~(Base <= p) /\ p # Base + n
  BY <1>1, <1>2
<1> QED
  BY <1>3 DEF CopyOf

(* The strings of both loops, and where they go.                           *)
LEMMA LoopStrings ==
  ASSUME CallOK, blockLen \in 0..(2 * Size)
  PROVE  /\ fn = "str_join" => StringAt(old, blockLen, args[2], Len2)
         /\ \A st : Before(st) => StringAt(st, blockLen, args[3], Len3)
         /\ Target \in Int /\ Base \in Int
<1>1. Base \in Int /\ blockLen \in Nat
  BY CharsAssumption DEF Base
<1>2. ASSUME MakesBlock
      PROVE  /\ StringAt(old, 0, args[2], Len2) /\ StringAt(old, 0, args[3], Len3)
             /\ Len2 \in Nat
  BY <1>2 DEF CallOK, StringAt, HasLen
<1>3. ASSUME fn = "str_join" PROVE MakesBlock /\ StringAt(old, blockLen, args[2], Len2)
  <2>1. MakesBlock
    BY <1>3 DEF MakesBlock
  <2> QED
    BY <1>1, <1>2, <2>1, StringInBuffer
<1>4. ASSUME NEW st, Before(st) PROVE StringAt(st, blockLen, args[3], Len3)
  <2>1. CASE fn = "str_join"
    <3>1. CopyOf(st, old, args[2], Base, Len2)
      BY <1>4, <2>1 DEF Before
    <3>2. \A p \in 1..Size : st[p] = old[p]
      BY <1>2, <1>3, <2>1, <3>1, BufferKept
    <3> QED
      BY <1>1, <1>2, <1>3, <2>1, <3>2, SameString
  <2>2. CASE fn # "str_join" /\ MakesBlock
    <3>1. st = old
      BY <1>4, <2>2 DEF Before
    <3> QED
      BY <1>1, <1>2, <2>2, <3>1, StringInBuffer
  <2>3. CASE ~MakesBlock
    <3>1. st = old
      BY <1>4, <2>3 DEF Before, MakesBlock
    <3> QED
      BY <2>3, <3>1 DEF CallOK
  <2> QED
    BY <2>1, <2>2, <2>3
<1>5. Target \in Int
  <2>1. CASE fn = "str_join" \/ fn = "my_strdup"
    BY <1>1, <1>2, <2>1 DEF Target, MakesBlock
  <2>2. CASE fn = "my_strcat"
    <3>1. StringAt(old, blockLen, args[2], Len2)
      BY <2>2 DEF CallOK, MakesBlock
    <3>2. args[2] \in Int /\ Len2 \in Nat
      BY <3>1 DEF StringAt, HasLen
    <3>3. ToInt(Len2) \in Int
      BY <3>2, ToIntIs
    <3> QED
      BY <2>2, <3>2, <3>3 DEF Target
  <2>3. CASE fn = "my_strcpy"
    BY <2>3 DEF CallOK, MakesBlock, Target
  <2> QED
    BY <2>1, <2>2, <2>3 DEF CallOK
<1> QED
  BY <1>1, <1>3, <1>4, <1>5

(* What a step of a copying loop may rely on.                              *)
LEMMA AtCopy ==
  ASSUME StringsInv, CanCopy
  PROVE  /\ mem \in Memories /\ old \in Memories /\ blockLen \in 0..(2 * Size)
         /\ pc = "copy" /\ CallOK
         /\ src \in Accessible(blockLen) /\ dst \in Accessible(blockLen)
         /\ src \in 1..Top /\ dst \in 1..Top
         /\ FirstLoop \/ LastLoop
         /\ MakesBlock => blockLen # 0
<1>1. pc = "copy" /\ src \in Accessible(blockLen) /\ dst \in Accessible(blockLen)
  BY DEF CanCopy
<1>2. /\ mem \in Memories /\ old \in Memories /\ blockLen \in 0..(2 * Size)
      /\ CallOK /\ Progress
  BY <1>1 DEF StringsInv
<1>3. src \in 1..Top /\ dst \in 1..Top /\ dst # Null
  BY <1>1, <1>2, Layout
<1>i. blockLen = 0 => dst # Base
  <2>1. SUFFICES ASSUME blockLen = 0, dst = Base PROVE FALSE
    OBVIOUS
  <2>2. Base \in Int /\ Size \in Nat /\ Base = Size + 2
    BY CharsAssumption DEF Base
  <2>3. (1 <= Base /\ Base <= Size) \/ (Base <= Base /\ Base < Base + blockLen)
    BY <1>1, <1>2, <2>1, <2>2, Layout
  <2> QED
    BY <2>1, <2>2, <2>3
<1>4. ~(MakesBlock /\ blockLen = 0) /\ (FirstLoop \/ LastLoop)
  BY <1>2, <1>3, <1>i DEF Progress
<1>5. MakesBlock => blockLen # 0
  BY <1>4
<1> QED
  BY <1>1, <1>2, <1>3, <1>4, <1>5

(* An iteration of my_strcpy.                                              *)
LEMMA CopyCharStep == StringsInv /\ CopyChar => StringsInv'
<1> SUFFICES ASSUME StringsInv, CopyChar PROVE StringsInv'
  OBVIOUS
<1>1. /\ CanCopy /\ mem[src] # 0
      /\ mem' = [mem EXCEPT ![dst] = mem[src]] /\ src' = src + 1 /\ dst' = dst + 1
      /\ UNCHANGED <<blockLen, pc, next, i, args, old>>
  BY DEF CopyChar
<1>2. /\ mem \in Memories /\ old \in Memories /\ blockLen \in 0..(2 * Size)
      /\ pc = "copy" /\ CallOK
      /\ src \in Accessible(blockLen) /\ dst \in Accessible(blockLen)
      /\ src \in 1..Top /\ dst \in 1..Top
      /\ FirstLoop \/ LastLoop
      /\ MakesBlock => blockLen # 0
  BY <1>1, AtCopy
<1>3. mem' \in Memories
  BY <1>1, <1>2 DEF Memories
<1>4. CallOK'
  <2>1. Sized' = Sized
    BY <1>1 DEF Sized, TooLong, BlockBytes, fn, Len2, Len3
  <2> QED
    BY <1>1, <1>2, <2>1 DEF CallOK, fn, MakesBlock, Len2, Len3
<1>5. Base \in Int /\ Target \in Int
  BY <1>2, LoopStrings
<1>6. FirstLoop => FirstLoop'
  <2>1. HAVE FirstLoop
  <2>2. /\ fn = "str_join" /\ next = args[3]
        /\ Loop(mem, src, dst, old, args[2], Base, Len2, blockLen)
    BY <2>1 DEF FirstLoop
  <2>3. StringAt(old, blockLen, args[2], Len2)
    BY <1>2, <2>2, LoopStrings
  <2>4. Loop([mem EXCEPT ![dst] = mem[src]], src + 1, dst + 1, old, args[2], Base, Len2, blockLen)
    BY <1>1, <1>2, <1>5, <2>2, <2>3, LoopGoesOn
  <2> QED
    BY <1>1, <2>2, <2>4 DEF FirstLoop, fn, Len2
<1>7. LastLoop => LastLoop'
  <2>1. HAVE LastLoop
  <2>2. PICK st \in Memories :
          Before(st) /\ Loop(mem, src, dst, st, args[3], Target, Len3, blockLen)
    BY <2>1 DEF LastLoop
  <2>3. StringAt(st, blockLen, args[3], Len3)
    BY <1>2, <2>2, LoopStrings
  <2>4. Loop([mem EXCEPT ![dst] = mem[src]], src + 1, dst + 1, st, args[3], Target, Len3, blockLen)
    BY <1>1, <1>2, <1>5, <2>2, <2>3, LoopGoesOn
  <2>5. Before(st)' /\ Target' = Target /\ Len3' = Len3
    BY <1>1, <2>2 DEF Before, Target, fn, Len2, Len3
  <2>6. next' = Null
    BY <1>1, <2>1 DEF LastLoop
  <2>7. Loop(mem', src', dst', st, args'[3], Target', Len3', blockLen')
    BY <1>1, <2>4, <2>5
  <2> QED
    BY <2>2, <2>5, <2>6, <2>7 DEF LastLoop
<1>8. Progress'
  <2>1. ~(MakesBlock /\ blockLen = 0)
    BY <1>2
  <2>2. ~(MakesBlock' /\ blockLen' = 0)
    BY <1>1, <2>1 DEF MakesBlock, fn
  <2> QED
    BY <1>2, <1>6, <1>7, <2>2 DEF Progress
<1>9. pc' = "copy" /\ old' \in Memories /\ blockLen' \in 0..(2 * Size)
  BY <1>1, <1>2
<1> QED
  BY <1>3, <1>4, <1>8, <1>9 DEF StringsInv

(* A copy of characters consists of characters.                            *)
LEMMA CopyChars ==
  ASSUME NEW m, NEW st, NEW f \in Int, NEW t \in Int, NEW n \in Nat, CopyOf(m, st, f, t, n),
         \A q \in f..(f + n) : IsChar(st[q])
  PROVE  \A p \in 1..Top : (t <= p /\ p <= t + n) \/ IsChar(st[p]) => IsChar(m[p])
<1>1. TAKE p \in 1..Top
<1>2. HAVE (t <= p /\ p <= t + n) \/ IsChar(st[p])
<1>3. p \in Int
  BY <1>1
<1>4. m[p] = IF t <= p /\ p < t + n THEN st[f + (p - t)] ELSE IF p = t + n THEN 0 ELSE st[p]
  BY <1>1 DEF CopyOf
<1>5. CASE t <= p /\ p < t + n
  <2>1. f + (p - t) \in f..(f + n)
    BY <1>3, <1>5
  <2> QED
    BY <1>4, <1>5, <2>1
<1>6. CASE p = t + n
  <2>1. ~(p < t + n) /\ IsChar(0)
    BY <1>3, <1>6 DEF IsChar
  <2> QED
    BY <1>4, <1>6, <2>1
<1>7. CASE ~(t <= p /\ p < t + n) /\ p # t + n
  <2>1. ~(t <= p /\ p <= t + n)
    BY <1>3, <1>7
  <2> QED
    BY <1>2, <1>4, <1>7, <2>1
<1> QED
  BY <1>5, <1>6, <1>7

(* What a copying function has done when it returns.                       *)
CopyDone(m) ==
  \E st \in Memories : Before(st) /\ LoopDone(m, st, args[3], Target, Len3, blockLen)

(* The last character is copied: what was asked for is done.               *)
LEMMA LastEnds ==
  ASSUME StringsInv, CopyEnds, next = Null
  PROVE  CopyDone(mem') /\ Return
<1>1. /\ CanCopy /\ mem[src] = 0 /\ mem' = [mem EXCEPT ![dst] = 0] /\ Return
  BY DEF CopyEnds
<1>2. /\ mem \in Memories /\ old \in Memories /\ blockLen \in 0..(2 * Size)
      /\ pc = "copy" /\ CallOK
      /\ src \in Accessible(blockLen) /\ dst \in Accessible(blockLen)
      /\ FirstLoop \/ LastLoop
  BY <1>1, AtCopy
<1>3. ~FirstLoop
  <2>1. SUFFICES ASSUME FirstLoop PROVE FALSE
    OBVIOUS
  <2>2. fn = "str_join" /\ args[3] = Null
    BY <2>1 DEF FirstLoop
  <2>3. StringAt(old, 0, args[3], Len3)
    BY <1>2, <2>2 DEF CallOK, MakesBlock
  <2> QED
    BY <2>2, <2>3 DEF StringAt, Null
<1>4. PICK st \in Memories :
        Before(st) /\ Loop(mem, src, dst, st, args[3], Target, Len3, blockLen)
  BY <1>2, <1>3 DEF LastLoop
<1>5. StringAt(st, blockLen, args[3], Len3) /\ Target \in Int
  BY <1>2, <1>4, LoopStrings
<1>6. LoopDone(mem', st, args[3], Target, Len3, blockLen)
  <2>1. Terminated(mem, mem', src, dst)
    BY <1>1 DEF Terminated
  <2> QED
    BY <1>2, <1>4, <1>5, <2>1, LoopEnds
<1>7. CopyDone(mem')
  BY <1>1, <1>4, <1>6 DEF CopyDone
<1> QED
  BY <1>1, <1>7

(* The result of a copying function holds no byte that was never written.  *)
LEMMA DoneIsClean ==
  ASSUME NEW m, CopyDone(m), CallOK, blockLen \in 0..(2 * Size), MakesBlock => blockLen # 0
  PROVE  Clean(m, blockLen)
<1>1. PICK st \in Memories : Before(st) /\ CopyOf(m, st, args[3], Target, Len3)
  BY DEF CopyDone, LoopDone
<1>2. Target \in Int /\ Base \in Int
  BY LoopStrings
<1>3. StringAt(st, blockLen, args[3], Len3)
  BY <1>1, LoopStrings
<1>4. args[3] \in Int /\ Len3 \in Nat /\ args[3]..(args[3] + Len3) \subseteq Accessible(blockLen)
  BY <1>3 DEF StringAt, HasLen
<1>5. Size \in Nat /\ Base = Size + 2 /\ \A p \in Accessible(blockLen) : p \in 1..Top
  BY Layout, CharsAssumption DEF Base
<1>6. CASE ~MakesBlock
  <2>1. st = old /\ Clean(old, blockLen)
    BY <1>1, <1>6 DEF Before, MakesBlock, CallOK
  <2>2. \A p \in Accessible(blockLen) : IsChar(st[p])
    BY <2>1 DEF Clean
  <2>3. \A q \in args[3]..(args[3] + Len3) : IsChar(st[q])
    BY <1>4, <2>2
  <2>4. \A p \in 1..Top : IsChar(st[p]) => IsChar(m[p])
    BY <1>1, <1>2, <1>4, <2>3, CopyChars
  <2> QED
    BY <1>5, <2>2, <2>4 DEF Clean
<1>7. CASE MakesBlock
  <2>1. /\ StringAt(old, 0, args[2], Len2) /\ StringAt(old, 0, args[3], Len3) /\ Clean(old, 0)
        /\ blockLen <= BlockBytes
    BY <1>7 DEF CallOK, Sized
  <2>2. /\ args[2] \in Int /\ 1 <= args[2] /\ Len2 \in Nat /\ args[2] + Len2 <= Size
        /\ args[3] \in Int /\ 1 <= args[3] /\ Len3 \in Nat /\ args[3] + Len3 <= Size
    BY <2>1, StringInBuffer
  <2>3. \A p \in 1..Size : IsChar(old[p])
    <3>1. \A p \in 1..Size : p \in Accessible(0)
      BY DEF Accessible
    <3> QED
      BY <2>1, <3>1 DEF Clean
  <2>4. \A q \in args[3]..(args[3] + Len3) : q \in 1..Size
    BY <1>5, <2>2
  <2>5. /\ \A p \in 1..Size : IsChar(st[p])
        /\ fn = "str_join" => \A p \in 1..Top : Base <= p /\ p <= Base + Len2 => IsChar(st[p])
    <3>1. CASE fn = "str_join"
      <4>1. CopyOf(st, old, args[2], Base, Len2)
        BY <1>1, <3>1 DEF Before
      <4>2. \A q \in args[2]..(args[2] + Len2) : q \in 1..Size
        BY <1>5, <2>2
      <4>3. \A q \in args[2]..(args[2] + Len2) : IsChar(old[q])
        BY <2>3, <4>2
      <4>4. \A p \in 1..Top : (Base <= p /\ p <= Base + Len2) \/ IsChar(old[p]) => IsChar(st[p])
        BY <1>2, <2>2, <4>1, <4>3, CopyChars
      <4>5. \A p \in 1..Size : st[p] = old[p]
        BY <2>2, <4>1, BufferKept
      <4> QED
        BY <2>3, <4>4, <4>5
    <3>2. CASE fn # "str_join"
      BY <1>1, <2>3, <3>2 DEF Before
    <3> QED
      BY <3>1, <3>2
  <2>6. \A q \in args[3]..(args[3] + Len3) : IsChar(st[q])
    BY <2>4, <2>5
  <2>7. \A p \in 1..Top : (Target <= p /\ p <= Target + Len3) \/ IsChar(st[p]) => IsChar(m[p])
    BY <1>1, <1>2, <2>2, <2>6, CopyChars
  <2>8. ASSUME NEW p \in Accessible(blockLen) PROVE IsChar(m[p])
    <3>1. p \in 1..Top /\ p \in Int /\ ((1 <= p /\ p <= Size) \/ (Base <= p /\ p < Base + blockLen))
      BY <1>5, <2>8, Layout
    <3>2. CASE 1 <= p /\ p <= Size
      <4>1. p \in 1..Size
        BY <1>5, <3>1, <3>2
      <4> QED
        BY <2>5, <2>7, <3>1, <4>1
    <3>3. CASE Base <= p /\ p < Base + blockLen /\ fn = "my_strdup"
      <4>1. Target = Base /\ blockLen <= Len3 + 1
        BY <2>1, <3>3 DEF Target, BlockBytes
      <4>2. Target <= p /\ p <= Target + Len3
        BY <1>2, <2>2, <3>1, <3>3, <4>1
      <4> QED
        BY <2>7, <3>1, <4>2
    <3>4. CASE Base <= p /\ p < Base + blockLen /\ fn = "str_join"
      <4>1. Target = Base + Len2 /\ blockLen <= Len2 + Len3 + 1
        BY <2>1, <3>4 DEF Target, BlockBytes
      <4>2. (Base <= p /\ p <= Base + Len2) \/ (Target <= p /\ p <= Target + Len3)
        BY <1>2, <2>2, <3>1, <3>4, <4>1
      <4> QED
        BY <2>5, <2>7, <3>1, <3>4, <4>2
    <3> QED
      BY <1>7, <3>1, <3>2, <3>3, <3>4 DEF MakesBlock
  <2> QED
    BY <2>8 DEF Clean
<1> QED
  BY <1>6, <1>7

(* The terminator is stored: str_join goes on, the others return.          *)
LEMMA CopyEndsStep == StringsInv /\ CopyEnds => StringsInv'
<1> SUFFICES ASSUME StringsInv, CopyEnds PROVE StringsInv'
  OBVIOUS
<1>1. /\ CanCopy /\ mem[src] = 0 /\ mem' = [mem EXCEPT ![dst] = 0] /\ blockLen' = blockLen
  BY DEF CopyEnds
<1>2. /\ mem \in Memories /\ old \in Memories /\ blockLen \in 0..(2 * Size)
      /\ pc = "copy" /\ CallOK
      /\ src \in Accessible(blockLen) /\ dst \in Accessible(blockLen)
      /\ src \in 1..Top /\ dst \in 1..Top
      /\ FirstLoop \/ LastLoop
      /\ MakesBlock => blockLen # 0
  BY <1>1, AtCopy
<1>3. mem' \in Memories
  BY <1>1, <1>2 DEF Memories, ByteValues, Junk
<1>4. CASE next = Null
  <2>1. CopyDone(mem') /\ pc' = "idle" /\ old' = mem'
    BY <1>4, LastEnds DEF Return
  <2>2. Clean(mem', blockLen')
    BY <1>1, <1>2, <2>1, DoneIsClean
  <2> QED
    BY <1>1, <1>2, <1>3, <2>1, <2>2, IdleInv
<1>5. CASE next # Null
  <2>1. /\ src' = next /\ dst' = JoinAt(args[2]) /\ next' = Null
        /\ UNCHANGED <<pc, i, args, old>>
    BY <1>5 DEF CopyEnds
  <2>2. /\ fn = "str_join" /\ next = args[3]
        /\ Loop(mem, src, dst, old, args[2], Base, Len2, blockLen)
    BY <1>2, <1>5 DEF FirstLoop, LastLoop
  <2>3. /\ StringAt(old, 0, args[2], Len2) /\ StringAt(old, 0, args[3], Len3)
        /\ Len2 \in Nat /\ blockLen \in Nat /\ MakesBlock
    BY <1>2, <2>2 DEF CallOK, MakesBlock, StringAt, HasLen
  <2>4. StringAt(old, blockLen, args[2], Len2) /\ Base \in Int /\ Target \in Int
    BY <1>2, <2>2, LoopStrings
  <2>5. LoopDone(mem', old, args[2], Base, Len2, blockLen)
    <3>1. Terminated(mem, mem', src, dst)
      BY <1>1 DEF Terminated
    <3> QED
      BY <1>2, <2>2, <2>4, <3>1, LoopEnds
  <2>6. \A p \in 1..Size : mem[p] = old[p]
    <3>1. PICK k \in 0..Len2 : Copied(mem, src, dst, old, args[2], Base, k, blockLen)
      BY <2>2, <2>5 DEF Loop, LoopDone
    <3>2. TAKE p \in 1..Size
    <3>3. Size \in Nat /\ Base = Size + 2 /\ Top = 3 * Size + 2
      BY CharsAssumption DEF Base, Top
    <3>4. p \in 1..Top /\ ~(Base <= p)
      BY <3>2, <3>3
    <3> QED
      BY <3>1, <3>4 DEF Copied
  <2>7. my_strlen(mem, args[2]) = Len2
    BY <2>3, <2>6, SameString
  <2>8. dst' = Base + Len2
    BY <2>1, <2>7 DEF JoinAt
  <2>9. CopyOf(mem', old, args[2], Base, Len2)
    BY <2>5 DEF LoopDone
  <2>10. \A p \in 1..Size : mem'[p] = old[p]
    BY <2>3, <2>9, BufferKept
  <2>11. StringAt(mem', blockLen, args[3], Len3)
    BY <2>3, <2>10, SameString
  <2>12. /\ fn' = fn /\ Len2' = Len2 /\ Len3' = Len3 /\ MakesBlock' = MakesBlock
         /\ BlockBytes' = BlockBytes /\ Sized' = Sized
    BY <1>1, <2>1 DEF fn, Len2, Len3, MakesBlock, BlockBytes, Sized, TooLong
  <2>13. Target = Base + Len2 /\ Target' = Target
    BY <2>1, <2>2, <2>12 DEF Target
  <2>14. Before(mem)'
    BY <1>3, <2>1, <2>2, <2>9, <2>12 DEF Before
  <2>15. Loop(mem', args[3], Target, mem', args[3], Target, Len3, blockLen)
    BY <2>4, <2>11, LoopBegins
  <2>16. src' = args'[3] /\ dst' = Target' /\ args' = args
    BY <2>1, <2>2, <2>8, <2>13
  <2>17. LastLoop'
    BY <1>1, <1>3, <2>1, <2>12, <2>13, <2>14, <2>15, <2>16 DEF LastLoop
  <2>18. CallOK'
    BY <1>1, <1>2, <2>1, <2>12 DEF CallOK
  <2>19. blockLen' # 0
    BY <1>1, <1>2, <2>3
  <2>20. Progress'
    BY <2>17, <2>19 DEF Progress
  <2>21. pc' = "copy" /\ old' \in Memories /\ blockLen' \in 0..(2 * Size)
    BY <1>1, <1>2, <2>1
  <2> QED
    BY <1>3, <2>18, <2>20, <2>21 DEF StringsInv
<1> QED
  BY <1>4, <1>5

(* Strings of a length that is an int are appended at the end of dst.      *)
LEMMA TargetIs ==
  ASSUME CallOK, ~TooLong, ~MakesBlock
  PROVE  Target = IF fn = "my_strcat" THEN args[2] + my_strlen(old, args[2]) ELSE args[2]
<1>1. CASE fn = "my_strcat"
  <2>1. Len2 \in Nat
    BY <1>1 DEF CallOK, MakesBlock, StringAt, HasLen
  <2>2. ~(Len2 >= IntHalf)
    BY <1>1 DEF TooLong, Len2
  <2>3. Len2 < IntHalf
    BY <2>1, <2>2, IntAssumption
  <2>4. ToInt(Len2) = Len2
    BY <2>1, <2>3, ToIntIs
  <2>5. Target = args[2] + ToInt(Len2)
    BY <1>1 DEF Target
  <2> QED
    BY <1>1, <2>4, <2>5 DEF Len2
<1>2. CASE fn # "my_strcat"
  BY <1>2 DEF Target, MakesBlock
<1> QED
  BY <1>1, <1>2

(* A call that is not unsafe has room, and its arguments do not overlap;   *)
(* the sizes that are passed to malloc are enough.                         *)
LEMMA SafeHasRoom ==
  ASSUME CallOK, blockLen \in 0..(2 * Size), ~Unsafe
  PROVE  /\ ~(MakesBlock /\ blockLen = 0)
         /\ fn = "str_join" => ~Overlaps(args[2], Base, Len2)
                               /\ Base..(Base + Len2) \subseteq Accessible(blockLen)
         /\ ~Overlaps(args[3], Target, Len3)
         /\ Target..(Target + Len3) \subseteq Accessible(blockLen)
<1>1. CASE MakesBlock
  <2>1. /\ StringAt(old, 0, args[2], Len2) /\ StringAt(old, 0, args[3], Len3)
        /\ blockLen \in {0, BlockBytes}
    BY <1>1 DEF CallOK, Sized, Unsafe
  <2>2. /\ args[2] \in Int /\ 1 <= args[2] /\ Len2 \in Nat /\ args[2] + Len2 <= Size
        /\ args[3] \in Int /\ 1 <= args[3] /\ Len3 \in Nat /\ args[3] + Len3 <= Size
    BY <2>1, StringInBuffer
  <2>3. blockLen # 0
    BY <1>1 DEF MakesBlock, Unsafe, NoRoom
  <2>4. blockLen = BlockBytes
    BY <2>1, <2>3
  <2>5. Size \in Nat /\ Base = Size + 2
    BY CharsAssumption DEF Base
  <2>6. CASE fn = "my_strdup"
    <3>1. Target = Base /\ blockLen = Len3 + 1
      BY <2>4, <2>6 DEF Target, BlockBytes
    <3>2. Target..(Target + Len3) \subseteq Accessible(blockLen)
      BY <2>2, <2>5, <3>1 DEF Accessible
    <3>3. ~Overlaps(args[3], Target, Len3)
      BY <2>2, <2>5, <3>1 DEF Overlaps
    <3> QED
      BY <2>3, <2>6, <3>2, <3>3
  <2>7. CASE fn = "str_join"
    <3>1. Target = Base + Len2 /\ blockLen = Len2 + Len3 + 1
      BY <2>4, <2>7 DEF Target, BlockBytes
    <3>2. Target..(Target + Len3) \subseteq Accessible(blockLen)
      BY <2>2, <2>5, <3>1 DEF Accessible
    <3>3. Base..(Base + Len2) \subseteq Accessible(blockLen)
      BY <2>2, <2>5, <3>1 DEF Accessible
    <3>4. ~Overlaps(args[3], Target, Len3) /\ ~Overlaps(args[2], Base, Len2)
      BY <2>2, <2>5, <3>1 DEF Overlaps
    <3> QED
      BY <2>3, <3>2, <3>3, <3>4
  <2> QED
    BY <1>1, <2>6, <2>7 DEF MakesBlock
<1>2. CASE ~MakesBlock
  <2>1. Target = IF fn = "my_strcat" THEN args[2] + my_strlen(old, args[2]) ELSE args[2]
    BY <1>2, TargetIs DEF Unsafe
  <2>2. /\ Target..(Target + Len3) \subseteq Accessible(blockLen)
        /\ ~(args[3] < Target /\ Target <= args[3] + Len3)
    BY <1>2, <2>1 DEF Unsafe, NoRoom, MakesBlock, Len3
  <2> QED
    BY <1>2, <2>2 DEF Overlaps, MakesBlock
<1> QED
  BY <1>1, <1>2

(* A loop leaves its objects only in an unsafe call.                       *)
LEMMA CopyFaultsStep == StringsInv /\ CopyFaults => StringsInv'
<1> SUFFICES ASSUME StringsInv, CopyFaults PROVE StringsInv'
  OBVIOUS
<1>1. /\ pc = "copy" /\ ~CanCopy /\ pc' = "fault"
      /\ UNCHANGED <<mem, blockLen, args, old, loopVars>>
  BY DEF CopyFaults
<1>2. /\ mem \in Memories /\ old \in Memories /\ blockLen \in 0..(2 * Size)
      /\ CallOK /\ Progress
  BY <1>1 DEF StringsInv
<1>3. Unsafe
  <2>1. SUFFICES ASSUME ~Unsafe PROVE CanCopy
    BY <1>1
  <2>2. /\ ~(MakesBlock /\ blockLen = 0)
        /\ fn = "str_join" => ~Overlaps(args[2], Base, Len2)
                              /\ Base..(Base + Len2) \subseteq Accessible(blockLen)
        /\ ~Overlaps(args[3], Target, Len3)
        /\ Target..(Target + Len3) \subseteq Accessible(blockLen)
    BY <1>2, <2>1, SafeHasRoom
  <2>3. Base \in Int /\ Target \in Int
    BY <1>2, LoopStrings
  <2>4. ASSUME FirstLoop PROVE src \in Accessible(blockLen) /\ dst \in Accessible(blockLen)
    <3>1. fn = "str_join" /\ Loop(mem, src, dst, old, args[2], Base, Len2, blockLen)
      BY <2>4 DEF FirstLoop
    <3>2. StringAt(old, blockLen, args[2], Len2)
      BY <1>2, <3>1, LoopStrings
    <3> QED
      BY <1>2, <2>2, <2>3, <3>1, <3>2, LoopIsSafe
  <2>5. ASSUME LastLoop PROVE src \in Accessible(blockLen) /\ dst \in Accessible(blockLen)
    <3>1. PICK st \in Memories :
            Before(st) /\ Loop(mem, src, dst, st, args[3], Target, Len3, blockLen)
      BY <2>5 DEF LastLoop
    <3>2. StringAt(st, blockLen, args[3], Len3)
      BY <1>2, <3>1, LoopStrings
    <3> QED
      BY <1>2, <2>2, <2>3, <3>1, <3>2, LoopIsSafe
  <2>6. src \in Accessible(blockLen) /\ dst \in Accessible(blockLen)
    BY <1>2, <2>2, <2>4, <2>5 DEF Progress
  <2> QED
    BY <1>1, <2>6 DEF CanCopy
<1>4. Unsafe'
  BY <1>1, <1>3 DEF Unsafe, NoRoom, TooLong, fn
<1>5. mem' \in Memories /\ old' \in Memories /\ blockLen' \in 0..(2 * Size)
  BY <1>1, <1>2
<1> QED
  BY <1>1, <1>4, <1>5 DEF StringsInv

(* The exchange of the characters at k from both ends.                     *)
LEMMA MirrorStep ==
  ASSUME NEW m \in Memories, NEW st, NEW s \in Int, NEW n \in Nat, NEW k \in Nat,
         s >= 1, s + n <= Top, k < n \div 2, Mirrored(m, st, s, n, k),
         NEW mm, mm = [m EXCEPT ![s + n - 1 - k] = m[s + k], ![s + k] = m[s + n - 1 - k]]
  PROVE  mm \in Memories /\ Mirrored(mm, st, s, n, k + 1)
<1> DEFINE a == s + k
           b == s + n - 1 - k
<1>1. Top \in Int
  BY CharsAssumption DEF Top, Base
<1>2. 2 * k + 2 <= n /\ a \in 1..Top /\ b \in 1..Top /\ a < b /\ a \in Int /\ b \in Int
  BY <1>1
<1>3. mm[a] = m[b] /\ mm[b] = m[a] /\ \A p \in 1..Top : p # a /\ p # b => mm[p] = m[p]
  BY <1>2 DEF Memories
<1>4. mm \in Memories
  BY <1>2 DEF Memories
<1>5. a - s = k /\ b - s = (n - 1) - k /\ s + ((n - 1) - k) = b /\ s + ((n - 1) - ((n - 1) - k)) = a
  BY <1>2
<1> HIDE DEF a, b
<1>6. m[a] = st[a] /\ m[b] = st[b]
  <2>1. ~(a - s < k \/ a - s >= n - k) /\ ~(b - s < k \/ b - s >= n - k)
    BY <1>2, <1>5
  <2> QED
    BY <1>2, <2>1 DEF Mirrored
<1>7. ASSUME NEW p \in 1..Top
      PROVE  mm[p] = IF s <= p /\ p < s + n /\ (p - s < k + 1 \/ p - s >= n - (k + 1))
                     THEN st[s + ((n - 1) - (p - s))] ELSE st[p]
  <2>1. CASE p = a
    <3>1. s <= p /\ p < s + n /\ p - s < k + 1 /\ s + ((n - 1) - (p - s)) = b
      BY <1>2, <1>5, <2>1
    <3> QED
      BY <1>3, <1>6, <2>1, <3>1
  <2>2. CASE p = b
    <3>1. s <= p /\ p < s + n /\ p - s >= n - (k + 1) /\ s + ((n - 1) - (p - s)) = a
      BY <1>2, <1>5, <2>2
    <3> QED
      BY <1>3, <1>6, <2>2, <3>1
  <2>3. CASE p # a /\ p # b
    <3>1. (p - s < k + 1 \/ p - s >= n - (k + 1)) <=> (p - s < k \/ p - s >= n - k)
      <4>1. p \in Int /\ p - s \in Int /\ p - s # k /\ p - s # (n - 1) - k
        BY <1>1, <1>2, <1>5, <2>3
      <4>2. PICK x \in Int : x = p - s
        BY <4>1
      <4>3. x # k /\ x # (n - 1) - k
        BY <4>1, <4>2
      <4>4. (x < k + 1 \/ x >= n - (k + 1)) <=> (x < k \/ x >= n - k)
        BY <4>2, <4>3
      <4> QED
        BY <4>2, <4>4
    <3>2. mm[p] = m[p]
      BY <1>3, <2>3
    <3>3. m[p] = IF s <= p /\ p < s + n /\ (p - s < k \/ p - s >= n - k)
                 THEN st[s + ((n - 1) - (p - s))] ELSE st[p]
      BY DEF Mirrored
    <3> QED
      BY <3>1, <3>2, <3>3
  <2> QED
    BY <2>1, <2>2, <2>3
<1> QED
  BY <1>4, <1>7 DEF Mirrored

(* What is known while str_reverse runs.                                   *)
LEMMA AtReverse ==
  ASSUME StringsInv, pc = "reverse"
  PROVE  /\ mem \in Memories /\ old \in Memories /\ blockLen \in 0..(2 * Size) /\ Reversing
         /\ args[2] \in Int /\ args[2] >= 1 /\ Len2 \in Nat /\ args[2] + Len2 <= Top
         /\ args[2]..(args[2] + Len2) \subseteq Accessible(blockLen)
<1>1. mem \in Memories /\ old \in Memories /\ blockLen \in 0..(2 * Size) /\ Reversing
  BY DEF StringsInv
<1>2. /\ args[2] \in Int /\ args[2] >= 1 /\ Len2 \in Nat
      /\ args[2]..(args[2] + Len2) \subseteq Accessible(blockLen)
  BY <1>1 DEF Reversing, StringAt, HasLen
<1>3. args[2] + Len2 \in Accessible(blockLen)
  BY <1>2
<1>4. args[2] + Len2 <= Top
  BY <1>1, <1>3, Layout
<1> QED
  BY <1>1, <1>2, <1>4

(* An iteration of str_reverse.                                            *)
LEMMA SwapStep == StringsInv /\ SwapChars => StringsInv'
<1> SUFFICES ASSUME StringsInv, SwapChars PROVE StringsInv'
  OBVIOUS
<1>1. /\ pc = "reverse" /\ i < Len2 \div 2 /\ i' = i + 1
      /\ mem' = [mem EXCEPT ![args[2] + Len2 - 1 - i] = mem[args[2] + i],
                            ![args[2] + i] = mem[args[2] + Len2 - 1 - i]]
      /\ UNCHANGED <<blockLen, pc, src, dst, next, args, old>>
  BY DEF SwapChars, Swaps, Len2
<1>2. /\ mem \in Memories /\ old \in Memories /\ blockLen \in 0..(2 * Size) /\ Reversing
      /\ args[2] \in Int /\ args[2] >= 1 /\ Len2 \in Nat /\ args[2] + Len2 <= Top
  BY <1>1, AtReverse
<1>3. i \in Nat /\ Mirrored(mem, old, args[2], Len2, i)
  BY <1>2 DEF Reversing
<1>4. mem' \in Memories /\ Mirrored(mem', old, args[2], Len2, i + 1)
  BY <1>1, <1>2, <1>3, MirrorStep
<1>5. i + 1 \in Nat /\ i + 1 <= Len2 \div 2
  BY <1>1, <1>2, <1>3
<1>6. Reversing'
  BY <1>1, <1>2, <1>4, <1>5 DEF Reversing, Len2, fn
<1> QED
  BY <1>1, <1>2, <1>4, <1>6 DEF StringsInv

(* str_reverse returns: the middle is reached.                             *)
LEMMA ReverseEndsStep == StringsInv /\ ReverseEnds => StringsInv'
<1> SUFFICES ASSUME StringsInv, ReverseEnds PROVE StringsInv'
  OBVIOUS
<1>1. pc = "reverse" /\ mem' = mem /\ blockLen' = blockLen /\ pc' = "idle" /\ old' = mem'
  BY DEF ReverseEnds, Return
<1>2. /\ mem \in Memories /\ blockLen \in 0..(2 * Size) /\ Reversing
      /\ args[2] \in Int /\ Len2 \in Nat
      /\ args[2]..(args[2] + Len2) \subseteq Accessible(blockLen)
  BY <1>1, AtReverse
<1>3. Clean(old, blockLen) /\ Mirrored(mem, old, args[2], Len2, i)
  BY <1>2 DEF Reversing
<1>4. ASSUME NEW p \in Accessible(blockLen) PROVE IsChar(mem[p])
  <2>1. p \in Int /\ p \in 1..Top
    BY <1>2, <1>4, Layout
  <2>2. args[2] <= p /\ p < args[2] + Len2 =>
          args[2] + ((Len2 - 1) - (p - args[2])) \in args[2]..(args[2] + Len2)
    BY <1>2, <2>1
  <2>3. args[2] <= p /\ p < args[2] + Len2 =>
          IsChar(old[args[2] + ((Len2 - 1) - (p - args[2]))])
    BY <1>2, <1>3, <2>2 DEF Clean
  <2>4. IsChar(old[p])
    BY <1>3, <1>4 DEF Clean
  <2> QED
    BY <1>3, <2>1, <2>3, <2>4 DEF Mirrored
<1>5. Clean(mem', blockLen')
  BY <1>1, <1>4 DEF Clean
<1> QED
  BY <1>1, <1>2, <1>5, IdleInv

-----------------------------------------------------------------------------
(* The theorems.                                                           *)

(* The invariant holds in every state.                                     *)
LEMMA StringsInductive == StringsSpec => []StringsInv
<1>1. StringsInit => StringsInv
  BY StringsInvInit
<1>2. StringsInv /\ [StringsNext]_stringVars => StringsInv'
  <2> SUFFICES ASSUME StringsInv, [StringsNext]_stringVars PROVE StringsInv'
    OBVIOUS
  <2>1. CASE Calls
    <3>1. pc = "idle"
      BY <2>1 DEF Calls
    <3>2. PICK s \in Strings(mem) :
            \/ my_strdup(s)
            \/ str_reverse(s)
            \/ \E d \in 1..Size : my_strcpy(d, s)
            \/ \E t \in Strings(mem) : my_strcat(t, s) \/ str_join(t, s)
      BY <2>1 DEF Calls
    <3>3. CASE my_strdup(s)
      BY <3>1, <3>3, StrdupStep
    <3>4. CASE str_reverse(s)
      BY <3>1, <3>4, ReverseStep
    <3>5. CASE \E d \in 1..Size : my_strcpy(d, s)
      BY <3>1, <3>5, StrcpyStep
    <3>6. CASE \E t \in Strings(mem) : my_strcat(t, s) \/ str_join(t, s)
      <4>1. PICK t \in Strings(mem) : my_strcat(t, s) \/ str_join(t, s)
        BY <3>6
      <4>2. CASE my_strcat(t, s)
        BY <3>1, <4>2, StrcatStep
      <4>3. CASE str_join(t, s)
        BY <3>1, <4>3, JoinStep
      <4> QED
        BY <4>1, <4>2, <4>3
    <3> QED
      BY <3>2, <3>3, <3>4, <3>5, <3>6
  <2>2. CASE UNCHANGED stringVars
    <3>1. /\ mem' = mem /\ blockLen' = blockLen /\ pc' = pc /\ src' = src /\ dst' = dst
          /\ next' = next /\ i' = i /\ args' = args /\ old' = old
      BY <2>2 DEF stringVars
    <3> QED
      BY <3>1 DEF StringsInv, Clean, CallOK, Progress, Reversing, Unsafe, NoRoom, TooLong, MakesBlock, fn,
                  Len2, Len3, Sized, BlockBytes, FirstLoop, LastLoop, Target, Before
  <2> QED
    BY <2>1, <2>2, FillStep, FreeBlockStep, CopyCharStep, CopyEndsStep, CopyFaultsStep, SwapStep,
       ReverseEndsStep DEF StringsNext, LoopStep
<1> QED
  BY <1>1, <1>2, PTL DEF StringsSpec

(***************************************************************************)
(* FaultOnlyIfUnsafe: for every buffer and all arguments, the loop of      *)
(* my_strcpy leaves the objects it works on only if the destination was    *)
(* too short, the strings overlapped in the forward direction, malloc      *)
(* failed or a length was no int.  The sizes that my_strdup and str_join   *)
(* pass to malloc suffice whenever they are ints.                          *)
(***************************************************************************)
THEOREM StringsStayInside == StringsSpec => []FaultOnlyIfUnsafe
<1>1. StringsInv => FaultOnlyIfUnsafe
  BY DEF StringsInv, FaultOnlyIfUnsafe, Unsafe
<1> QED
  BY <1>1, StringsInductive, PTL

-----------------------------------------------------------------------------
(* The characters of the string at s.                                      *)
LEMMA TextIs ==
  ASSUME NEW m \in Memories, NEW len \in 0..(2 * Size), NEW s, StringAt(m, len, s, my_strlen(m, s))
  PROVE  /\ Text(m, s) \in Seq(ByteValues) /\ Len(Text(m, s)) = my_strlen(m, s)
         /\ \A k \in 1..my_strlen(m, s) : Text(m, s)[k] = m[s + k - 1]
<1> DEFINE n == my_strlen(m, s)
<1>1. s \in Int /\ s >= 1 /\ n \in Nat /\ s..(s + n) \subseteq Accessible(len)
  BY DEF StringAt, HasLen
<1>2. Text(m, s) = [k \in 1..n |-> m[s + k - 1]]
  BY DEF Text
<1> HIDE DEF n
<1>3. ASSUME NEW k \in 1..n PROVE m[s + k - 1] \in ByteValues
  <2>1. s + k - 1 \in s..(s + n)
    BY <1>1
  <2>2. s + k - 1 \in 1..Top
    BY <1>1, <2>1, Layout
  <2> QED
    BY <2>2 DEF Memories
<1>4. Text(m, s) \in Seq(ByteValues) /\ Len(Text(m, s)) = n
  BY <1>1, <1>2, <1>3
<1>5. \A k \in 1..n : Text(m, s)[k] = m[s + k - 1]
  BY <1>2
<1> QED
  BY <1>4, <1>5 DEF n

(* What has to be in the memory m when the function returns.               *)
ExactIn(m) ==
  LET last == Result + Len(Expected)
  IN  /\ fn # "str_reverse" => ~NoRoom /\ ~TooLong
      /\ m[last] = 0
      /\ \A p \in 1..Top :
           m[p] = IF p \in Result..(last - 1) THEN Expected[p - Result + 1]
                  ELSE IF p = last THEN 0 ELSE old[p]

(* It is enough to know each byte.                                         *)
LEMMA ByteByByte ==
  ASSUME NEW m, NEW e, Expected = e, NEW r \in Int, Result = r, NEW n \in Nat, Len(e) = n,
         fn # "str_reverse" => ~Unsafe, r + n \in 1..Top,
         \A p \in 1..Top : m[p] = IF r <= p /\ p < r + n THEN e[p - r + 1]
                                  ELSE IF p = r + n THEN 0 ELSE old[p]
  PROVE  ExactIn(m)
<1>1. Top \in Int
  BY CharsAssumption DEF Top, Base
<1>2. m[r + n] = 0
  <2>1. ~(r + n < r + n)
    OBVIOUS
  <2> QED
    BY <2>1
<1>3. ASSUME NEW p \in 1..Top
      PROVE  m[p] = IF p \in r..(r + n - 1) THEN e[p - r + 1] ELSE IF p = r + n THEN 0 ELSE old[p]
  <2>1. p \in r..(r + n - 1) <=> r <= p /\ p < r + n
    BY <1>1, <1>3
  <2>2. m[p] = IF r <= p /\ p < r + n THEN e[p - r + 1] ELSE IF p = r + n THEN 0 ELSE old[p]
    BY <1>3
  <2> QED
    BY <2>1, <2>2
<1> QED
  BY <1>2, <1>3 DEF ExactIn, Unsafe

(* One string was copied.                                                  *)
LEMMA OneCopyExact ==
  ASSUME NEW m, CopyDone(m), CallOK, ~Unsafe, old \in Memories, blockLen \in 0..(2 * Size),
         fn \in {"my_strcpy", "my_strdup"}
  PROVE  ExactIn(m)
<1>1. PICK st \in Memories : Before(st) /\ LoopDone(m, st, args[3], Target, Len3, blockLen)
  BY DEF CopyDone
<1>2. st = old
  BY <1>1 DEF Before
<1>3. StringAt(old, blockLen, args[3], Len3) /\ Target \in Int
  BY <1>1, <1>2, LoopStrings
<1>4. args[3] \in Int /\ Len3 \in Nat
  BY <1>3 DEF StringAt, HasLen
<1> DEFINE e == Text(old, args[3])
<1>5. Expected = e /\ Result = Target
  BY DEF Expected, Result, Target
<1>6. Len(e) = Len3 /\ \A k \in 1..Len3 : e[k] = old[args[3] + k - 1]
  BY <1>3, TextIs DEF Len3
<1> HIDE DEF e
<1>7. Target + Len3 \in 1..Top /\ Top \in Int
  <2>1. Target + Len3 \in Target..(Target + Len3)
    BY <1>3, <1>4
  <2>2. Target + Len3 \in Accessible(blockLen)
    BY <1>1, <2>1 DEF LoopDone
  <2> QED
    BY <2>2, Layout
<1>8. ASSUME NEW p \in 1..Top
      PROVE  m[p] = IF Target <= p /\ p < Target + Len3 THEN e[p - Target + 1]
                    ELSE IF p = Target + Len3 THEN 0 ELSE old[p]
  <2>1. Target <= p /\ p < Target + Len3 =>
          p - Target + 1 \in 1..Len3 /\ args[3] + (p - Target + 1) - 1 = args[3] + (p - Target)
    BY <1>3, <1>4, <1>7, <1>8
  <2>2. Target <= p /\ p < Target + Len3 => e[p - Target + 1] = old[args[3] + (p - Target)]
    BY <1>6, <2>1
  <2>3. m[p] = IF Target <= p /\ p < Target + Len3 THEN old[args[3] + (p - Target)]
               ELSE IF p = Target + Len3 THEN 0 ELSE old[p]
    BY <1>1, <1>2 DEF LoopDone, CopyOf
  <2> QED
    BY <2>2, <2>3
<1> QED
  BY <1>3, <1>4, <1>5, <1>6, <1>7, <1>8, ByteByByte

(* Two strings are in a row.                                               *)
LEMMA TwoTexts ==
  ASSUME CallOK, old \in Memories, blockLen \in 0..(2 * Size), fn \in {"my_strcat", "str_join"}
  PROVE  /\ args[2] \in Int /\ 1 <= args[2] /\ Len2 \in Nat
         /\ args[3] \in Int /\ 1 <= args[3] /\ Len3 \in Nat
         /\ Len(Expected) = Len2 + Len3
         /\ \A k \in 1..Len2 : Expected[k] = old[args[2] + k - 1]
         /\ \A k \in 1..Len3 : Expected[Len2 + k] = old[args[3] + k - 1]
<1>1. PICK len \in 0..(2 * Size) :
        StringAt(old, len, args[2], Len2) /\ StringAt(old, len, args[3], Len3)
  <2>1. CASE fn = "my_strcat"
    BY <2>1 DEF CallOK, MakesBlock
  <2>2. CASE fn = "str_join"
    <3>1. StringAt(old, 0, args[2], Len2) /\ StringAt(old, 0, args[3], Len3)
      BY <2>2 DEF CallOK, MakesBlock
    <3>2. 0 \in 0..(2 * Size)
      BY CharsAssumption
    <3> QED
      BY <3>1, <3>2
  <2> QED
    BY <2>1, <2>2
<1>2. /\ args[2] \in Int /\ 1 <= args[2] /\ Len2 \in Nat
      /\ args[3] \in Int /\ 1 <= args[3] /\ Len3 \in Nat
  BY <1>1 DEF StringAt, HasLen
<1> DEFINE t == Text(old, args[2])
           u == Text(old, args[3])
<1>3. t \in Seq(ByteValues) /\ Len(t) = Len2 /\ \A k \in 1..Len2 : t[k] = old[args[2] + k - 1]
  BY <1>1, TextIs DEF Len2
<1>4. u \in Seq(ByteValues) /\ Len(u) = Len3 /\ \A k \in 1..Len3 : u[k] = old[args[3] + k - 1]
  BY <1>1, TextIs DEF Len3
<1>5. Expected = t \o u
  BY DEF Expected
<1> HIDE DEF t, u
<1>6. Len(t \o u) = Len2 + Len3
  <2>1. t \in Seq(ByteValues) /\ u \in Seq(ByteValues)
    BY <1>3, <1>4
  <2>2. Len(t \o u) = Len(t) + Len(u)
    BY <2>1
  <2> QED
    BY <1>3, <1>4, <2>2
<1>7. \A k \in 1..Len2 : (t \o u)[k] = t[k]
  BY <1>2, <1>3, <1>4
<1>8. \A k \in 1..Len3 : (t \o u)[Len2 + k] = u[k]
  <2>1. TAKE k \in 1..Len3
  <2>2. Len2 + k \in 1..(Len2 + Len3) /\ ~(Len2 + k <= Len2) /\ (Len2 + k) - Len2 = k
    BY <1>2
  <2>3. (t \o u)[Len2 + k] = u[(Len2 + k) - Len2]
    <3>1. t \in Seq(ByteValues) /\ u \in Seq(ByteValues) /\ Len(t) = Len2 /\ Len(u) = Len3
      BY <1>3, <1>4
    <3> QED
      BY <2>2, <3>1, SMTT(30)
  <2> QED
    BY <2>2, <2>3
<1> QED
  BY <1>2, <1>3, <1>4, <1>5, <1>6, <1>7, <1>8

(* A string was appended to another, or to the copy of another.            *)
LEMMA TwoCopiesExact ==
  ASSUME NEW m, CopyDone(m), CallOK, ~Unsafe, old \in Memories, blockLen \in 0..(2 * Size),
         fn \in {"my_strcat", "str_join"}
  PROVE  ExactIn(m)
<1> DEFINE n == Len2 + Len3
<1>1. /\ args[2] \in Int /\ 1 <= args[2] /\ Len2 \in Nat
      /\ args[3] \in Int /\ 1 <= args[3] /\ Len3 \in Nat
      /\ Len(Expected) = n
      /\ \A k \in 1..Len2 : Expected[k] = old[args[2] + k - 1]
      /\ \A k \in 1..Len3 : Expected[Len2 + k] = old[args[3] + k - 1]
  BY TwoTexts
<1>2. PICK st \in Memories : Before(st) /\ LoopDone(m, st, args[3], Target, Len3, blockLen)
  BY DEF CopyDone
<1>3. PICK r \in Int : r = Result /\ Target = r + Len2
  <2>1. Base \in Int
    BY CharsAssumption DEF Base
  <2>2. Result \in Int /\ Target = Result + Len2
    <3>1. CASE fn = "my_strcat"
      <4>1. Target = args[2] + Len2
        BY <3>1, TargetIs DEF MakesBlock, Len2, Unsafe
      <4> QED
        BY <1>1, <3>1, <4>1 DEF Result
    <3>2. CASE fn = "str_join"
      BY <1>1, <2>1, <3>2 DEF Result, Target
    <3> QED
      BY <3>1, <3>2
  <2> QED
    BY <2>2
<1>4. r + n \in 1..Top /\ Top \in Int /\ n \in Nat /\ Target + Len3 = r + n
  <2>1. Target + Len3 \in Target..(Target + Len3) /\ Target + Len3 = r + n /\ n \in Nat
    BY <1>1, <1>3
  <2>2. Target + Len3 \in Accessible(blockLen)
    BY <1>2, <2>1 DEF LoopDone
  <2> QED
    BY <2>1, <2>2, Layout
<1>5. ASSUME NEW p \in 1..Top
      PROVE  /\ r <= p /\ p < r + Len2 => st[p] = old[args[2] + (p - r)]
             /\ p < r \/ p > r + Len2 => st[p] = old[p]
  <2>1. CASE fn = "my_strcat"
    <3>1. st = old /\ r = args[2]
      BY <1>2, <1>3, <2>1 DEF Before, Result
    <3>2. args[2] + (p - r) = p
      BY <1>1, <1>5, <3>1
    <3> QED
      BY <3>1, <3>2
  <2>2. CASE fn = "str_join"
    <3>1. CopyOf(st, old, args[2], r, Len2)
      BY <1>2, <1>3, <2>2 DEF Before, Result
    <3>2. st[p] = IF r <= p /\ p < r + Len2 THEN old[args[2] + (p - r)]
                  ELSE IF p = r + Len2 THEN 0 ELSE old[p]
      BY <3>1 DEF CopyOf
    <3>3. p < r \/ p > r + Len2 => ~(r <= p /\ p < r + Len2) /\ p # r + Len2
      BY <1>1, <1>3, <1>4, <1>5
    <3> QED
      BY <3>2, <3>3
  <2> QED
    BY <2>1, <2>2
<1>6. ASSUME NEW k \in 0..(Len3 - 1) PROVE st[args[3] + k] = old[args[3] + k]
  <2>1. CASE fn = "my_strcat"
    BY <1>2, <2>1 DEF Before
  <2>2. CASE fn = "str_join"
    <3>1. CopyOf(st, old, args[2], Base, Len2) /\ StringAt(old, 0, args[3], Len3)
      BY <1>2, <2>2 DEF Before, CallOK, MakesBlock
    <3>2. args[3] + Len3 <= Size /\ Size \in Nat
      BY <3>1, StringInBuffer, CharsAssumption
    <3>3. args[3] + k \in 1..Size
      BY <1>1, <1>6, <3>2
    <3> QED
      BY <1>1, <3>1, <3>3, BufferKept
  <2> QED
    BY <2>1, <2>2
<1>7. ASSUME NEW p \in 1..Top
      PROVE  m[p] = IF r <= p /\ p < r + n THEN Expected[p - r + 1]
                    ELSE IF p = r + n THEN 0 ELSE old[p]
  <2>1. m[p] = IF Target <= p /\ p < Target + Len3 THEN st[args[3] + (p - Target)]
               ELSE IF p = Target + Len3 THEN 0 ELSE st[p]
    BY <1>2 DEF LoopDone, CopyOf
  <2>2. p \in Int
    BY <1>4, <1>7
  <2>3. CASE r <= p /\ p < r + Len2
    <3>1. /\ ~(Target <= p) /\ p # Target + Len3 /\ p < r + n
          /\ p - r + 1 \in 1..Len2 /\ args[2] + (p - r + 1) - 1 = args[2] + (p - r)
      BY <1>1, <1>3, <2>2, <2>3
    <3>2. Expected[p - r + 1] = old[args[2] + (p - r)]
      BY <1>1, <3>1
    <3>3. m[p] = old[args[2] + (p - r)]
      BY <1>5, <2>1, <2>3, <3>1
    <3> QED
      BY <2>3, <3>1, <3>2, <3>3
  <2>4. CASE Target <= p /\ p < Target + Len3
    <3>1. /\ r <= p /\ p < r + n /\ p - Target \in 0..(Len3 - 1)
          /\ p - Target + 1 \in 1..Len3 /\ Len2 + (p - Target + 1) = p - r + 1
          /\ args[3] + (p - Target + 1) - 1 = args[3] + (p - Target)
      BY <1>1, <1>3, <2>2, <2>4
    <3>2. Expected[p - r + 1] = old[args[3] + (p - Target)]
      BY <1>1, <3>1
    <3>3. m[p] = old[args[3] + (p - Target)]
      BY <1>6, <2>1, <2>4, <3>1
    <3> QED
      BY <3>1, <3>2, <3>3
  <2>5. CASE ~(r <= p /\ p < r + Len2) /\ ~(Target <= p /\ p < Target + Len3)
    <3>1. ~(r <= p /\ p < r + n) /\ (p # r + n => p < r \/ p > r + Len2)
      BY <1>1, <1>3, <2>2, <2>5
    <3> QED
      BY <1>4, <1>5, <2>1, <2>5, <3>1
  <2> QED
    BY <2>3, <2>4, <2>5
<1> HIDE DEF n
<1> QED
  BY <1>1, <1>3, <1>4, <1>7, ByteByByte

(* The text at s backwards.                                                *)
LEMMA BackwardsIs ==
  ASSUME NEW m \in Memories, NEW len \in 0..(2 * Size), NEW s, NEW n, n = my_strlen(m, s),
         StringAt(m, len, s, n), NEW e, e = Backwards(Text(m, s))
  PROVE  /\ e \in Seq(ByteValues) /\ Len(e) = n
         /\ \A k \in 1..n : e[k] = m[s + (n - k)]
<1> DEFINE t == Text(m, s)
<1>1. t \in Seq(ByteValues) /\ Len(t) = n /\ \A k \in 1..n : t[k] = m[s + k - 1]
  BY TextIs
<1>2. n \in Nat /\ s \in Int
  BY DEF StringAt, HasLen
<1> HIDE DEF t
<1>3. DOMAIN t = 1..n /\ \A k \in 1..n : n + 1 - k \in 1..n
  BY <1>1, <1>2
<1>4. e = [k \in 1..n |-> t[n + 1 - k]]
  BY <1>1, <1>3 DEF Backwards, t
<1>5. \A k \in 1..n : t[n + 1 - k] \in ByteValues
  BY <1>1, <1>3
<1>6. e \in Seq(ByteValues) /\ Len(e) = n
  BY <1>2, <1>4, <1>5
<1>7. ASSUME NEW k \in 1..n PROVE e[k] = m[s + (n - k)]
  <2>1. n + 1 - k \in 1..n /\ s + (n + 1 - k) - 1 = s + (n - k)
    BY <1>2, <1>7
  <2> QED
    BY <1>1, <1>4, <2>1
<1> QED
  BY <1>6, <1>7

(* The string is reversed when the middle is reached, which in a string of *)
(* odd length is a character that stays where it is.                       *)
LEMMA ReverseExact ==
  ASSUME StringsInv, ReverseEnds
  PROVE  ExactIn(mem')
<1>1. pc = "reverse" /\ mem' = mem /\ i >= Len2 \div 2
  BY DEF ReverseEnds, Swaps, Len2
<1>2. /\ mem \in Memories /\ old \in Memories /\ blockLen \in 0..(2 * Size) /\ Reversing
      /\ args[2] \in Int /\ args[2] >= 1 /\ Len2 \in Nat /\ args[2] + Len2 <= Top
  BY <1>1, AtReverse
<1> DEFINE s == args[2]
           n == Len2
           e == Expected
<1>3. /\ fn = "str_reverse" /\ i \in Nat /\ i <= n \div 2
      /\ StringAt(old, blockLen, s, n)
      /\ Mirrored(mem, old, s, n, i)
  BY <1>2 DEF Reversing
<1>4. e = Backwards(Text(old, s)) /\ Result = s
  BY <1>3 DEF Expected, Result
<1>5. Len(e) = n /\ \A k \in 1..n : e[k] = old[s + (n - k)]
  BY <1>2, <1>3, <1>4, BackwardsIs DEF Len2
<1>6. old[s + n] = 0
  BY <1>3 DEF StringAt, HasLen
<1>7. s + n \in 1..Top /\ Top \in Int
  BY <1>2, CharsAssumption DEF Top, Base
<1> HIDE DEF s, n, e
<1>8. s \in Int /\ n \in Nat /\ i \in Nat /\ (n = 2 * i \/ n = 2 * i + 1)
  BY <1>1, <1>2, <1>3 DEF s, n
<1>9. ASSUME NEW p \in 1..Top
      PROVE  mem[p] = IF s <= p /\ p < s + n THEN e[p - s + 1] ELSE IF p = s + n THEN 0 ELSE old[p]
  <2>1. p \in Int
    BY <1>7, <1>9
  <2>2. mem[p] = IF s <= p /\ p < s + n /\ (p - s < i \/ p - s >= n - i)
                 THEN old[s + ((n - 1) - (p - s))] ELSE old[p]
    BY <1>3 DEF Mirrored
  <2>3. CASE s <= p /\ p < s + n
    <3>1. p - s + 1 \in 1..n /\ s + (n - (p - s + 1)) = s + ((n - 1) - (p - s))
      BY <1>8, <2>1, <2>3
    <3>2. e[p - s + 1] = old[s + ((n - 1) - (p - s))]
      BY <1>5, <3>1
    <3>3. ~(p - s < i \/ p - s >= n - i) => s + ((n - 1) - (p - s)) = p
      BY <1>8, <2>1
    <3> QED
      BY <2>2, <2>3, <3>2, <3>3
  <2>4. CASE ~(s <= p /\ p < s + n)
    BY <1>6, <2>2, <2>4
  <2> QED
    BY <2>3, <2>4
<1>10. Expected = e /\ Result = s
  BY <1>4 DEF e
<1> QED
  BY <1>1, <1>3, <1>5, <1>7, <1>8, <1>9, <1>10, ByteByByte

(* A loop that ended was not asked for anything unsafe, unless it appended *)
(* to a string that is too long for that.                                  *)
LEMMA DoneIsSafe ==
  ASSUME NEW m, CopyDone(m), CallOK, blockLen \in 0..(2 * Size), MakesBlock => blockLen # 0,
         ~(fn = "my_strcat" /\ TooLong)
  PROVE  ~Unsafe
<1>1. PICK st \in Memories : LoopDone(m, st, args[3], Target, Len3, blockLen)
  BY DEF CopyDone
<1>2. ~Overlaps(args[3], Target, Len3) /\ Target..(Target + Len3) \subseteq Accessible(blockLen)
  BY <1>1 DEF LoopDone
<1>3. CASE MakesBlock
  <2>1. Len2 \in Nat /\ Len3 \in Nat /\ (TooLong => blockLen < BlockBytes)
    BY <1>3 DEF CallOK, StringAt, HasLen, Sized
  <2>2. Base \in Int /\ Size \in Nat /\ Base = Size + 2
    BY CharsAssumption DEF Base
  <2>3. PICK e \in Int : e = Target + Len3 /\ e = Base + BlockBytes - 1 /\ e >= Base
    <3>1. CASE fn = "my_strdup"
      BY <2>1, <2>2, <3>1 DEF Target, BlockBytes
    <3>2. CASE fn = "str_join"
      BY <2>1, <2>2, <3>2 DEF Target, BlockBytes
    <3> QED
      BY <1>3, <3>1, <3>2 DEF MakesBlock
  <2>4. e \in Accessible(blockLen)
    <3>1. Target \in Int
      BY LoopStrings
    <3>2. e \in Target..(Target + Len3)
      BY <2>1, <2>3, <3>1
    <3> QED
      BY <1>2, <3>2
  <2>5. e < Base + blockLen
    BY <2>2, <2>3, <2>4, Layout
  <2>6. BlockBytes \in Int
    BY <2>1 DEF BlockBytes
  <2>7. ~(blockLen < BlockBytes)
    BY <2>2, <2>3, <2>5, <2>6
  <2> QED
    BY <1>3, <2>1, <2>7 DEF MakesBlock, Unsafe, NoRoom
<1>4. CASE ~MakesBlock
  <2>1. ~TooLong
    BY <1>4 DEF MakesBlock, TooLong
  <2>2. Target = IF fn = "my_strcat" THEN args[2] + my_strlen(old, args[2]) ELSE args[2]
    BY <1>4, <2>1, TargetIs
  <2> QED
    BY <1>2, <1>4, <2>1, <2>2 DEF Unsafe, NoRoom, MakesBlock, Len3, Overlaps
<1> QED
  BY <1>3, <1>4

(* A copying function that returns has done what it was asked for.         *)
LEMMA CopyReturnExact ==
  ASSUME StringsInv, CopyEnds, next = Null, ~(fn = "my_strcat" /\ TooLong)
  PROVE  ExactIn(mem')
<1>1. CopyDone(mem')
  BY LastEnds
<1>2. /\ old \in Memories /\ blockLen \in 0..(2 * Size) /\ CallOK
      /\ MakesBlock => blockLen # 0
  BY AtCopy DEF CopyEnds
<1>3. ~Unsafe
  BY <1>1, <1>2, DoneIsSafe
<1>4. fn \in {"my_strcpy", "my_strdup"} \/ fn \in {"my_strcat", "str_join"}
  BY <1>2 DEF CallOK
<1> QED
  BY <1>1, <1>2, <1>3, <1>4, OneCopyExact, TwoCopiesExact

(***************************************************************************)
(* CopyExact: for every buffer, every set of characters and all arguments, *)
(* a string function that returns has computed its result from the memory  *)
(* as it was at the call, has stored the terminator and has changed no     *)
(* byte elsewhere; a copy that had to overrun, that overlaps its source in *)
(* the forward direction or whose block is too small because its size is   *)
(* no int does not return.  my_strcat to a string longer than INT_MAX is   *)
(* left out: it may return having written elsewhere.                       *)
(***************************************************************************)
THEOREM StringsReturnExact == StringsSpec => CopyExact
<1> DEFINE Returns == pc # "idle" /\ pc' = "idle" /\ ~(fn = "my_strcat" /\ TooLong)
<1>1. StringsInv /\ [StringsNext]_stringVars => [Returns => ExactIn(mem')]_stringVars
  <2> SUFFICES ASSUME StringsInv, [StringsNext]_stringVars, Returns, ~UNCHANGED stringVars
               PROVE  ExactIn(mem')
    OBVIOUS
  <2>1. StringsNext /\ pc # "idle" /\ pc' = "idle" /\ ~(fn = "my_strcat" /\ TooLong)
    OBVIOUS
  <2>2. (CopyEnds /\ next = Null) \/ ReverseEnds
    <3>1. ~FillBuffer /\ ~FreeBlock /\ ~Calls
      BY <2>1 DEF FillBuffer, FreeBlock, Calls
    <3>2. ~CopyChar /\ ~CopyFaults /\ ~SwapChars
      BY <2>1 DEF CopyChar, CopyFaults, SwapChars
    <3>3. CopyEnds => next = Null
      BY <2>1 DEF CopyEnds
    <3> QED
      BY <2>1, <3>1, <3>2, <3>3 DEF StringsNext, LoopStep
  <2> QED
    BY <2>1, <2>2, CopyReturnExact, ReverseExact
<1>2. CopyExact <=> [][Returns => ExactIn(mem')]_stringVars
  BY PTL DEF CopyExact, ExactIn
<1> QED
  BY <1>1, <1>2, StringsInductive, PTL DEF StringsSpec

-----------------------------------------------------------------------------
(* The functions that only read.                                           *)

(* The k-th character of a text as an unsigned one, 0 behind its end.      *)
At(w, k) == IF k > Len(w) THEN 0 ELSE w[k] % 256

(* The text v comes before the text w.                                     *)
Less(v, w) ==
  \E k \in 1..Len(w) : At(v, k) < At(w, k) /\ \A j \in 1..(k - 1) : At(v, j) = At(w, j)

(* (unsigned char) tells all characters apart.                             *)
LEMMA UnsignedIs ==
  ASSUME NEW c, IsChar(c)
  PROVE  /\ Unsigned(c) \in 0..255
         /\ (Unsigned(c) = 0 <=> c = 0)
         /\ \A x : IsChar(x) => (Unsigned(c) = Unsigned(x) <=> c = x)
<1>1. \A x \in -128..127 : x % 256 = IF x >= 0 THEN x ELSE x + 256
  OBVIOUS
<1>2. \A x : IsChar(x) => x \in -128..127 /\ Unsigned(x) = IF x >= 0 THEN x ELSE x + 256
  BY <1>1 DEF IsChar, Unsigned
<1>3. c \in -128..127 /\ Unsigned(c) = IF c >= 0 THEN c ELSE c + 256
  BY <1>2
<1>4. Unsigned(c) \in 0..255
  BY <1>3
<1>5. Unsigned(c) = 0 <=> c = 0
  BY <1>3
<1>6. ASSUME NEW x, IsChar(x) PROVE Unsigned(c) = Unsigned(x) <=> c = x
  <2>1. x \in -128..127 /\ Unsigned(x) = IF x >= 0 THEN x ELSE x + 256
    BY <1>2, <1>6
  <2> QED
    BY <1>3, <2>1
<1> QED
  BY <1>4, <1>5, <1>6

(* What is known of the characters of t, the text of the string at s.      *)
Reads(m, s, n, t) ==
  /\ Len(t) = n
  /\ \A k \in 0..n : At(t, k + 1) = Unsigned(m[s + k]) /\ IsChar(m[s + k])
  /\ \A k \in Nat \ {0} : At(t, k) \in 0..255 /\ (At(t, k) # 0 => k <= n)

(* The text goes on with the terminator and zeros.                         *)
LEMMA TextAt ==
  ASSUME NEW m \in Memories, NEW len \in 0..(2 * Size), NEW s, NEW n, n = my_strlen(m, s),
         StringAt(m, len, s, n), Clean(m, len), NEW t, t = Text(m, s)
  PROVE  Reads(m, s, n, t)
<1>1. Len(t) = n /\ \A k \in 1..n : t[k] = m[s + k - 1]
  BY TextIs
<1>2. /\ s \in Int /\ s >= 1 /\ n \in Nat /\ m[s + n] = 0
      /\ s..(s + n) \subseteq Accessible(len)
  BY DEF StringAt, HasLen
<1>3. ASSUME NEW k \in 0..n PROVE IsChar(m[s + k])
  <2>1. s + k \in s..(s + n)
    BY <1>2
  <2> QED
    BY <1>2, <2>1 DEF Clean
<1>4. ASSUME NEW k \in 0..n PROVE At(t, k + 1) = Unsigned(m[s + k])
  <2>1. CASE k = n
    <3>1. k + 1 > n /\ 0 % 256 = 0
      BY <1>2, <2>1
    <3> QED
      BY <1>1, <1>2, <2>1, <3>1 DEF At, Unsigned
  <2>2. CASE k # n
    <3>1. ~(k + 1 > n) /\ k + 1 \in 1..n /\ s + (k + 1) - 1 = s + k
      BY <1>2, <2>2
    <3>2. t[k + 1] = m[s + k]
      BY <1>1, <3>1
    <3> QED
      BY <1>1, <3>1, <3>2 DEF At, Unsigned
  <2> QED
    BY <2>1, <2>2
<1>5. ASSUME NEW k \in Nat \ {0} PROVE At(t, k) \in 0..255 /\ (At(t, k) # 0 => k <= n)
  <2>1. CASE k > n
    BY <1>1, <2>1 DEF At
  <2>2. CASE k <= n
    <3>1. k - 1 \in 0..n /\ (k - 1) + 1 = k
      BY <1>2, <2>2
    <3>2. At(t, k) = Unsigned(m[s + (k - 1)]) /\ IsChar(m[s + (k - 1)])
      BY <1>3, <1>4, <3>1
    <3>3. Unsigned(m[s + (k - 1)]) \in 0..255
      BY <3>2, UnsignedIs
    <3> QED
      BY <2>2, <3>2, <3>3
  <2> QED
    BY <1>2, <2>1, <2>2
<1> QED
  BY <1>1, <1>3, <1>4, <1>5 DEF Reads

(* The first difference decides.                                           *)
LEMMA FirstDecides ==
  ASSUME NEW v, NEW w, Len(w) \in Nat, NEW d \in Nat \ {0},
         \A j \in 1..(d - 1) : At(v, j) = At(w, j), At(v, d) # At(w, d),
         \A k \in Nat \ {0} : At(v, k) \in 0..255 /\ At(w, k) \in 0..255,
         At(w, d) # 0 => d <= Len(w)
  PROVE  Less(v, w) <=> At(v, d) < At(w, d)
<1>1. ASSUME At(v, d) < At(w, d) PROVE Less(v, w)
  <2>1. At(w, d) # 0
    <3>1. PICK x \in 0..255 : x = At(v, d)
      OBVIOUS
    <3>2. PICK y \in 0..255 : y = At(w, d)
      OBVIOUS
    <3>3. x < y
      BY <1>1, <3>1, <3>2, Zenon
    <3>4. y # 0
      BY <3>3
    <3> QED
      BY <3>2, <3>4
  <2>2. d \in Int /\ 1 <= d /\ d <= Len(w)
    BY <2>1
  <2>3. d \in 1..Len(w)
    BY <2>2
  <2> QED
    BY <1>1, <2>3 DEF Less
<1>2. ASSUME Less(v, w) PROVE At(v, d) < At(w, d)
  <2>1. PICK k \in 1..Len(w) : At(v, k) < At(w, k) /\ \A j \in 1..(k - 1) : At(v, j) = At(w, j)
    BY <1>2 DEF Less
  <2>2. k \in Int /\ 1 <= k
    BY <2>1
  <2>3. CASE k < d
    <3>1. k \in 1..(d - 1)
      BY <2>2, <2>3
    <3>2. At(v, k) = At(w, k)
      BY <3>1
    <3>3. k \in Nat \ {0}
      BY <2>2
    <3>4. PICK x \in 0..255 : x = At(v, k)
      BY <3>3
    <3>5. x < x
      BY <2>1, <3>2, <3>4, Zenon
    <3>6. ~(x < x)
      BY <3>4
    <3> QED
      BY <3>5, <3>6
  <2>4. CASE d < k
    <3>1. d \in 1..(k - 1)
      BY <2>2, <2>4
    <3> QED
      BY <2>1, <3>1
  <2>5. CASE k = d
    BY <2>1, <2>5
  <2> QED
    BY <2>2, <2>3, <2>4, <2>5
<1> QED
  BY <1>1, <1>2

(* The first difference of two strings of n and l characters is at d, or   *)
(* they are equal and end there; my_strcmp compares the characters at d.   *)
Decides(m, a, b, n, l, d) ==
  /\ d <= n /\ d <= l
  /\ m[a + d] # m[b + d] \/ (d = n /\ d = l)
  /\ \A k \in 0..(d - 1) : m[a + k] = m[b + k]
  /\ my_strcmp(m, a, b) =
       IF m[a + d] = m[b + d] THEN 0 ELSE Unsigned(m[a + d]) - Unsigned(m[b + d])

(* The loop of my_strcmp stops at the first difference, or at the end of   *)
(* both strings, and behind the end of neither.                            *)
LEMMA StrcmpStops ==
  ASSUME NEW m, NEW a, NEW b, NEW n, NEW l, HasLen(m, a, n), HasLen(m, b, l), n <= Top
  PROVE  \E d \in Nat : Decides(m, a, b, n, l, d)
<1> DEFINE Ends(k) == m[a + k] # m[b + k] \/ m[a + k] = 0
           S == {k \in Nat : Ends(k)}
           P(k) == Ends(k) /\ \A j \in 0..(k - 1) : m[a + j] = m[b + j] /\ m[a + j] # 0
<1>1. /\ n \in Nat /\ m[a + n] = 0 /\ \A k \in 0..(n - 1) : m[a + k] # 0
      /\ l \in Nat /\ m[b + l] = 0 /\ \A k \in 0..(l - 1) : m[b + k] # 0
  BY DEF HasLen
<1>2. n \in S
  BY <1>1
<1>3. PICK d \in S : \A k \in S : d <= k
  BY <1>2, LeastNumber
<1>4. d \in Nat /\ d <= n /\ Ends(d) /\ \A k \in Nat : k < d => ~Ends(k)
  BY <1>2, <1>3
<1>5. d <= l
  <2>1. CASE l < n
    <3>1. l \in 0..(n - 1)
      BY <1>1, <2>1
    <3>2. l \in S
      BY <1>1, <3>1
    <3> QED
      BY <1>3, <3>2
  <2>2. CASE n <= l
    BY <1>1, <1>4, <2>2
  <2> QED
    BY <1>1, <2>1, <2>2
<1>6. \A k \in 0..(d - 1) : k \in Nat /\ k < d
  BY <1>4
<1>7. P(d)
  BY <1>4, <1>6
<1>8. Top \in Nat
  BY CharsAssumption DEF Top, Base
<1>9. ASSUME NEW k \in 0..Top, P(k) PROVE k = d
  <2>1. k < d => FALSE
    BY <1>4, <1>8, <1>9
  <2>2. d < k => FALSE
    <3>1. d < k => d \in 0..(k - 1)
      BY <1>4, <1>8, <1>9
    <3> QED
      BY <1>4, <1>9, <3>1
  <2> QED
    BY <1>4, <1>8, <1>9, <2>1, <2>2
<1>10. d \in 0..Top /\ d \in 0..n
  BY <1>1, <1>4, <1>8
<1>11. my_strcmp(m, a, b) =
         LET c == CHOOSE c \in 0..Top : P(c)
         IN  IF m[a + c] = m[b + c] THEN 0 ELSE Unsigned(m[a + c]) - Unsigned(m[b + c])
  BY DEF my_strcmp
<1>12. (CHOOSE c \in 0..Top : P(c)) = d
  <2> HIDE DEF P
  <2> QED
    BY <1>7, <1>9, <1>10
<1>13. m[a + d] # m[b + d] \/ (d = n /\ d = l)
  <2>1. SUFFICES ASSUME m[a + d] = m[b + d] PROVE d = n /\ d = l
    OBVIOUS
  <2>2. m[a + d] = 0 /\ m[b + d] = 0
    BY <1>4, <2>1
  <2>3. d \notin 0..(n - 1) /\ d \notin 0..(l - 1)
    BY <1>1, <2>2
  <2> QED
    BY <1>1, <1>4, <1>5, <2>3
<1>14. \A k \in 0..(d - 1) : m[a + k] = m[b + k]
  BY <1>7
<1>15. my_strcmp(m, a, b) =
         IF m[a + d] = m[b + d] THEN 0 ELSE Unsigned(m[a + d]) - Unsigned(m[b + d])
  BY <1>11, <1>12
<1> QED
  BY <1>4, <1>5, <1>13, <1>14, <1>15 DEF Decides

(* my_strcmp orders two strings as their texts are ordered.                *)
LEMMA StrcmpExact ==
  ASSUME NEW m \in Memories, NEW len \in 0..(2 * Size), Clean(m, len),
         NEW a, NEW n, n = my_strlen(m, a), StringAt(m, len, a, n), NEW t, t = Text(m, a),
         NEW b, NEW l, l = my_strlen(m, b), StringAt(m, len, b, l), NEW u, u = Text(m, b),
         NEW c, c = my_strcmp(m, a, b)
  PROVE  (c = 0 <=> t = u) /\ (c < 0 <=> Less(t, u)) /\ (c > 0 <=> Less(u, t))
<1>1. /\ a \in Int /\ HasLen(m, a, n) /\ n \in Nat /\ a + n \in Accessible(len)
      /\ b \in Int /\ HasLen(m, b, l) /\ l \in Nat /\ b + l \in Accessible(len)
      /\ a >= 1 /\ b >= 1
  BY DEF StringAt, HasLen
<1>2. n <= Top
  <2>1. a + n <= Top /\ Top \in Int
    BY <1>1, Layout, CharsAssumption DEF Top, Base
  <2> QED
    BY <1>1, <2>1
<1>3. PICK d \in Nat : Decides(m, a, b, n, l, d)
  BY <1>1, <1>2, StrcmpStops
<1>4. Reads(m, a, n, t) /\ Reads(m, b, l, u)
  <2>1. Reads(m, a, n, t)
    BY TextAt
  <2>2. Reads(m, b, l, u)
    BY TextAt
  <2> QED
    BY <2>1, <2>2
<1>5. /\ d <= n /\ d <= l
      /\ m[a + d] # m[b + d] \/ (d = n /\ d = l)
      /\ \A k \in 0..(d - 1) : m[a + k] = m[b + k]
      /\ c = IF m[a + d] = m[b + d] THEN 0 ELSE Unsigned(m[a + d]) - Unsigned(m[b + d])
      /\ Len(t) = n /\ Len(u) = l
      /\ \A k \in 0..n : At(t, k + 1) = Unsigned(m[a + k]) /\ IsChar(m[a + k])
      /\ \A k \in 0..l : At(u, k + 1) = Unsigned(m[b + k]) /\ IsChar(m[b + k])
      /\ \A k \in Nat \ {0} : At(t, k) \in 0..255 /\ (At(t, k) # 0 => k <= n)
      /\ \A k \in Nat \ {0} : At(u, k) \in 0..255 /\ (At(u, k) # 0 => k <= l)
  BY <1>3, <1>4 DEF Decides, Reads
<1>6. t = [k \in 1..n |-> m[a + k - 1]] /\ u = [k \in 1..l |-> m[b + k - 1]]
  BY DEF Text
<1>7. d \in Nat /\ d \in 0..n /\ d \in 0..l /\ d + 1 \in Nat \ {0} /\ (d + 1) - 1 = d
  BY <1>1, <1>5
<1>8. PICK x \in 0..255 : x = At(t, d + 1) /\ x = Unsigned(m[a + d])
  BY <1>5, <1>7
<1>9. PICK y \in 0..255 : y = At(u, d + 1) /\ y = Unsigned(m[b + d])
  BY <1>5, <1>7
<1>10. x = y <=> m[a + d] = m[b + d]
  BY <1>5, <1>7, <1>8, <1>9, UnsignedIs
<1>11. \A j \in 1..d : At(t, j) = At(u, j)
  <2>1. TAKE j \in 1..d
  <2>2. j - 1 \in 0..(d - 1) /\ j - 1 \in 0..n /\ j - 1 \in 0..l /\ (j - 1) + 1 = j
    <3>1. j \in Int /\ 1 <= j /\ j <= d
      BY <1>7, <2>1
    <3>2. d <= n /\ d <= l
      BY <1>5
    <3> QED
      BY <1>1, <1>7, <3>1, <3>2
  <2>3. m[a + (j - 1)] = m[b + (j - 1)]
    BY <1>5, <2>2
  <2>4. At(t, j) = Unsigned(m[a + (j - 1)]) /\ At(u, j) = Unsigned(m[b + (j - 1)])
    BY <1>5, <2>2
  <2> QED
    BY <2>3, <2>4
<1>12. CASE m[a + d] = m[b + d]
  <2>1. c = 0 /\ d = n /\ d = l
    BY <1>5, <1>12
  <2>2. t = u
    <3>1. \A k \in 1..n : m[a + k - 1] = m[b + k - 1]
      <4>1. TAKE k \in 1..n
      <4>2. k - 1 \in 0..(d - 1) /\ a + (k - 1) = a + k - 1 /\ b + (k - 1) = b + k - 1
        BY <1>1, <2>1, <4>1
      <4>3. m[a + (k - 1)] = m[b + (k - 1)]
        BY <1>5, <4>2
      <4> QED
        BY <4>2, <4>3
    <3> QED
      BY <1>6, <2>1, <3>1
  <2>3. ASSUME NEW k \in 1..d PROVE ~(At(t, k) < At(u, k)) /\ ~(At(u, k) < At(t, k))
    <3>1. k \in Nat \ {0}
      BY <1>7, <2>3
    <3>2. PICK z \in 0..255 : z = At(t, k)
      BY <1>5, <3>1
    <3>3. z = At(u, k)
      BY <1>11, <2>3, <3>2
    <3>4. ~(z < z)
      BY <3>2
    <3> QED
      BY <3>2, <3>3, <3>4, Zenon
  <2>4. ~Less(t, u) /\ ~Less(u, t)
    BY <1>5, <2>1, <2>3 DEF Less
  <2>5. ~(c < 0) /\ ~(c > 0)
    BY <2>1
  <2> QED
    BY <2>1, <2>2, <2>4, <2>5
<1>13. CASE m[a + d] # m[b + d]
  <2>1. c = x - y /\ x # y
    BY <1>5, <1>8, <1>9, <1>10, <1>13
  <2>2. t # u
    <3>1. SUFFICES ASSUME t = u PROVE FALSE
      OBVIOUS
    <3>2. At(t, d + 1) = At(u, d + 1)
      BY <3>1
    <3> QED
      BY <1>8, <1>9, <2>1, <3>2
  <2>3. \A j \in 1..((d + 1) - 1) : At(t, j) = At(u, j)
    BY <1>7, <1>11
  <2>4. At(t, d + 1) # At(u, d + 1)
    BY <1>8, <1>9, <2>1
  <2>5. \A k \in Nat \ {0} : At(t, k) \in 0..255 /\ At(u, k) \in 0..255
    BY <1>5
  <2>6. (At(t, d + 1) # 0 => d + 1 <= Len(t)) /\ (At(u, d + 1) # 0 => d + 1 <= Len(u))
    BY <1>5, <1>7
  <2>7. Len(t) \in Nat /\ Len(u) \in Nat
    BY <1>1, <1>5
  <2>8. Less(t, u) <=> At(t, d + 1) < At(u, d + 1)
    BY <1>7, <2>3, <2>4, <2>5, <2>6, <2>7, FirstDecides
  <2>9. Less(u, t) <=> At(u, d + 1) < At(t, d + 1)
    BY <1>7, <2>3, <2>4, <2>5, <2>6, <2>7, FirstDecides
  <2>10. (Less(t, u) <=> x < y) /\ (Less(u, t) <=> y < x)
    BY <1>8, <1>9, <2>8, <2>9, Zenon
  <2>11. c # 0 /\ (c < 0 <=> x < y) /\ (c > 0 <=> y < x)
    BY <2>1
  <2> QED
    BY <2>2, <2>10, <2>11
<1> QED
  BY <1>12, <1>13

(* Half of the comparisons are enough for a palindrome.                    *)
LEMMA PalindromeExact ==
  ASSUME NEW m \in Memories, NEW len \in 0..(2 * Size), NEW s, NEW n, n = my_strlen(m, s),
         StringAt(m, len, s, n), NEW t, t = Text(m, s)
  PROVE  str_is_palindrome(m, s) <=> t = Backwards(t)
<1> DEFINE e == Backwards(t)
<1>1. t \in Seq(ByteValues) /\ Len(t) = n /\ \A k \in 1..n : t[k] = m[s + k - 1]
  BY TextIs
<1>2. e \in Seq(ByteValues) /\ Len(e) = n /\ \A k \in 1..n : e[k] = m[s + (n - k)]
  BY BackwardsIs
<1>3. n \in Nat /\ s \in Int
  BY DEF StringAt, HasLen
<1>4. str_is_palindrome(m, s) <=> \A k \in 0..(n \div 2 - 1) : m[s + k] = m[s + (n - 1 - k)]
  BY DEF str_is_palindrome
<1> HIDE DEF e
<1>5. ASSUME str_is_palindrome(m, s) PROVE t = e
  <2>1. ASSUME NEW k \in 1..n PROVE t[k] = e[k]
    <3>1. m[s + k - 1] = m[s + (n - k)]
      <4>1. CASE k - 1 < n \div 2
        <5>1. k - 1 \in 0..(n \div 2 - 1) /\ s + (k - 1) = s + k - 1 /\ n - 1 - (k - 1) = n - k
          BY <1>3, <2>1, <4>1
        <5>2. m[s + (k - 1)] = m[s + (n - 1 - (k - 1))]
          BY <1>4, <1>5, <5>1
        <5> QED
          BY <5>1, <5>2
      <4>2. CASE n - k < n \div 2
        <5>1. /\ n - k \in 0..(n \div 2 - 1) /\ n - 1 - (n - k) = k - 1
              /\ s + (k - 1) = s + k - 1
          BY <1>3, <2>1, <4>2
        <5>2. m[s + (n - k)] = m[s + (n - 1 - (n - k))]
          BY <1>4, <1>5, <5>1
        <5> QED
          BY <5>1, <5>2
      <4>3. CASE ~(k - 1 < n \div 2) /\ ~(n - k < n \div 2)
        <5>1. k - 1 = n - k
          BY <1>3, <2>1, <4>3
        <5>2. s + k - 1 = s + (n - k)
          BY <1>3, <2>1, <5>1
        <5> QED
          BY <5>2
      <4> QED
        BY <4>1, <4>2, <4>3
    <3> QED
      BY <1>1, <1>2, <3>1
  <2> QED
    BY <1>1, <1>2, <2>1
<1>6. ASSUME t = e PROVE str_is_palindrome(m, s)
  <2>1. ASSUME NEW k \in 0..(n \div 2 - 1) PROVE m[s + k] = m[s + (n - 1 - k)]
    <3>1. k + 1 \in 1..n /\ s + (k + 1) - 1 = s + k /\ n - (k + 1) = n - 1 - k
      BY <1>3, <2>1
    <3>2. m[s + (k + 1) - 1] = m[s + (n - (k + 1))]
      BY <1>1, <1>2, <1>6, <3>1
    <3> QED
      BY <3>1, <3>2
  <2> QED
    BY <1>4, <2>1
<1> QED
  BY <1>5, <1>6 DEF e

(***************************************************************************)
(* ReadersExact: for every buffer and every set of characters, my_strcmp   *)
(* orders any two strings as their unsigned characters do, and             *)
(* str_is_palindrome holds exactly of the strings that are their own       *)
(* reversal, although it compares half of the pairs.                       *)
(***************************************************************************)
THEOREM StringsReadExact == StringsSpec => []ReadersExact
<1>1. StringsInv => ReadersExact
  <2> SUFFICES ASSUME StringsInv, pc = "idle", NEW a \in Strings(mem)
               PROVE  /\ str_is_palindrome(mem, a) <=> Text(mem, a) = Backwards(Text(mem, a))
                      /\ \A b \in Strings(mem) :
                           LET t == Text(mem, a)
                               u == Text(mem, b)
                               c == my_strcmp(mem, a, b)
                           IN  (c = 0 <=> t = u) /\ (c < 0 <=> Less(t, u)) /\ (c > 0 <=> Less(u, t))
    BY DEF ReadersExact, Less, At
  <2>1. /\ mem \in Memories /\ blockLen \in 0..(2 * Size) /\ Clean(mem, blockLen)
        /\ \A s \in Strings(mem) : StringAt(mem, blockLen, s, my_strlen(mem, s))
    BY AtCall
  <2>2. str_is_palindrome(mem, a) <=> Text(mem, a) = Backwards(Text(mem, a))
    BY <2>1, PalindromeExact
  <2>3. ASSUME NEW b \in Strings(mem)
        PROVE  LET t == Text(mem, a)
                   u == Text(mem, b)
                   c == my_strcmp(mem, a, b)
               IN  (c = 0 <=> t = u) /\ (c < 0 <=> Less(t, u)) /\ (c > 0 <=> Less(u, t))
    BY <2>1, <2>3, StrcmpExact
  <2> QED
    BY <2>2, <2>3
<1> QED
  BY <1>1, StringsInductive, PTL
=============================================================================
