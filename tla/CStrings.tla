------------------------------ MODULE CStrings ------------------------------
(***************************************************************************)
(* The C string functions of                                               *)
(* 00-c-for-programmers/exercises/ex2-strings-and-arrays/strings.c on one  *)
(* buffer of the caller and at most one block of malloc.  Both lie in one  *)
(* address space with a gap between them, so that arguments may overlap    *)
(* and a pointer may leave its object.                                     *)
(*                                                                         *)
(* my_strcpy and str_reverse write and are loops of steps; the functions   *)
(* that only read are operators.  Every source argument is a terminated    *)
(* string: nothing else is asked of the caller, whose destination may be   *)
(* too short or overlap the source.  Three functions keep a length, which  *)
(* is a size_t, in an int.                                                 *)
(***************************************************************************)
EXTENDS Integers, Sequences

CONSTANTS
  Size,    \* bytes of the caller's buffer
  Chars,   \* values of a (signed) char, 0 among them
  IntHalf  \* INT_MAX + 1

ASSUME CharsAssumption == Size \in Nat \ {0} /\ Chars \subseteq -128..127 /\ 0 \in Chars
ASSUME IntAssumption == IntHalf \in Nat \ {0}

Null  == 0        \* the null pointer: an address in no object
Base  == Size + 2 \* where malloc's block starts
Top   == Base + 2 * Size
Junk  == 128      \* a byte of a block that was never written

VARIABLES
  mem,      \* the bytes of the buffer and of the block
  blockLen, \* bytes of the block, 0: none
  pc,       \* "idle", the loop that runs, or "fault"
  src, dst, \* the pointers of my_strcpy
  next,     \* str_join: b, while a is being copied
  i,        \* the index in str_reverse
  args,     \* function and arguments of the call
  old       \* history: mem when it was called

stringVars == <<mem, blockLen, pc, src, dst, next, i, args, old>>

loopVars == <<src, dst, next, i>>

(* Addresses that belong to an object.                                     *)
Accessible(len) == 1..Size \cup Base..(Base + len - 1)

(* The places of m where a string starts.                                  *)
Strings(m) ==
  {p \in Accessible(blockLen) :
     \E q \in Accessible(blockLen) : p <= q /\ p..q \subseteq Accessible(blockLen) /\ m[q] = 0}

my_strlen(m, s) == CHOOSE n \in 0..Top : m[s + n] = 0 /\ \A k \in 0..(n - 1) : m[s + k] # 0

(* A size_t stored in an int: modulo 2^w, into the range of int.           *)
ToInt(n) == ((n + IntHalf) % (2 * IntHalf)) - IntHalf

\* Mutant of Unsigned: the bytes are compared as they are, signed.
UnsignedNot(c) == c

(* (unsigned char)                                                         *)
Unsigned(c) == c % 256

(* The loop stops at the first difference or at the end of both.           *)
my_strcmp(m, a, b) ==
  LET n == CHOOSE n \in 0..Top : /\ m[a + n] # m[b + n] \/ m[a + n] = 0
                                 /\ \A k \in 0..(n - 1) : m[a + k] = m[b + k] /\ m[a + k] # 0
  IN  IF m[a + n] = m[b + n] THEN 0 ELSE Unsigned(m[a + n]) - Unsigned(m[b + n])

str_is_palindrome(m, s) ==
  LET len == my_strlen(m, s)
  IN  \A k \in 0..(len \div 2 - 1) : m[s + k] = m[s + (len - 1 - k)]

NoCall == <<"none", Null, Null>>

StringsInit ==
  /\ mem = [p \in 1..Top |-> IF p > Size THEN Junk ELSE 0]
  /\ blockLen = 0
  /\ pc = "idle"
  /\ src = Null /\ dst = Null /\ next = Null /\ i = 0
  /\ args = NoCall
  /\ old = mem

(* The caller puts other strings into its buffer, while it holds no block. *)
FillBuffer ==
  /\ pc = "idle" /\ blockLen = 0
  /\ \E b \in [1..Size -> Chars] : mem' = [p \in 1..Top |-> IF p > Size THEN Junk ELSE b[p]]
  /\ old' = mem'
  /\ UNCHANGED <<blockLen, pc, args, loopVars>>

(* free(), by the owner of what my_strdup or str_join returned.            *)
FreeBlock ==
  /\ pc = "idle" /\ blockLen > 0
  /\ blockLen' = 0
  /\ mem' = [p \in 1..Top |-> IF p > Size THEN Junk ELSE mem[p]]
  /\ old' = mem'
  /\ UNCHANGED <<pc, args, loopVars>>

(* The function returns: its locals are gone.                              *)
Return ==
  /\ pc' = "idle"
  /\ src' = Null /\ dst' = Null /\ next' = Null /\ i' = 0
  /\ args' = NoCall
  /\ old' = mem'

(* A call begins: my_strcpy runs from `from` to `to`, then from b.         *)
Copies(call, to, from, b) ==
  /\ pc' = "copy"
  /\ dst' = to /\ src' = from /\ next' = b
  /\ args' = call
  /\ old' = mem
  /\ UNCHANGED <<mem, i>>

my_strcpy(d, s) == Copies(<<"my_strcpy", d, s>>, d, s, Null) /\ UNCHANGED blockLen

(* dst + l, where int l = my_strlen(dst).                                  *)
my_strcat(d, s) ==
  Copies(<<"my_strcat", d, s>>, d + ToInt(my_strlen(mem, d)), s, Null) /\ UNCHANGED blockLen

(* malloc: a block of n bytes, perhaps of none, or the null pointer.  An int
   below 0 becomes a size beyond all objects.  One block at a time.        *)
malloc(n, p) ==
  /\ blockLen = 0
  /\ \/ p = Base /\ n >= 0 /\ blockLen' = n
     \/ p = Null /\ UNCHANGED blockLen

\* Mutant of DupBytes: no room for the terminator.
DupBytesShort(s) == ToInt(my_strlen(mem, s))

(* len + 1, where int len = my_strlen(s).  Where the sum is no int (len is
   INT_MAX) a build adds in size_t, or wraps and malloc returns NULL, as it
   may for every size.                                                     *)
DupBytes(s) == ToInt(my_strlen(mem, s)) + 1

(* int len = my_strlen(a) + my_strlen(b) + 1                               *)
JoinBytes(a, b) == ToInt(my_strlen(mem, a) + my_strlen(mem, b) + 1)

my_strdup(s) ==
  \E p \in {Base, Null} :
    malloc(DupBytes(s), p) /\ Copies(<<"my_strdup", s, s>>, p, s, Null)

str_join(a, b) ==
  \E p \in {Base, Null} :
    /\ malloc(JoinBytes(a, b), p)
    /\ Copies(<<"str_join", a, b>>, p, a, b)

str_reverse(s) ==
  /\ pc' = "reverse"
  /\ i' = 0
  /\ args' = <<"str_reverse", s, s>>
  /\ old' = mem
  /\ UNCHANGED <<mem, blockLen, src, dst, next>>

Calls ==
  /\ pc = "idle"
  /\ \E s \in Strings(mem) :
       \/ my_strdup(s)
       \/ str_reverse(s)
       \/ \E d \in 1..Size : my_strcpy(d, s)
       \/ \E t \in Strings(mem) : my_strcat(t, s) \/ str_join(t, s)

CanCopy == pc = "copy" /\ {src, dst} \subseteq Accessible(blockLen)

\* Mutant of CopyChar: the pointers are not advanced.
CopyCharStuck ==
  /\ CanCopy /\ mem[src] # 0
  /\ mem' = [mem EXCEPT ![dst] = mem[src]]
  /\ UNCHANGED <<blockLen, pc, args, old, loopVars>>

(* An iteration of my_strcpy.                                              *)
CopyChar ==
  /\ CanCopy /\ mem[src] # 0
  /\ mem' = [mem EXCEPT ![dst] = mem[src]]
  /\ src' = src + 1 /\ dst' = dst + 1
  /\ UNCHANGED <<blockLen, pc, next, i, args, old>>

\* Mutant of JoinAt: b is copied over a.
JoinAtStart(a) == Base

(* result+my_strlen(a)                                                     *)
JoinAt(a) == Base + my_strlen(mem, a)

(* *dst = '\0'; then str_join goes on with b, the others return.           *)
CopyEnds ==
  /\ CanCopy /\ mem[src] = 0
  /\ mem' = [mem EXCEPT ![dst] = 0]
  /\ \/ next = Null /\ Return
     \/ /\ next # Null
        /\ src' = next /\ dst' = JoinAt(args[2]) /\ next' = Null
        /\ UNCHANGED <<pc, i, args, old>>
  /\ UNCHANGED blockLen

(* A pointer has left its object, or malloc returned NULL.                 *)
CopyFaults ==
  /\ pc = "copy" /\ ~CanCopy
  /\ pc' = "fault"
  /\ UNCHANGED <<mem, blockLen, args, old, loopVars>>

(* The bound of the loop of str_reverse.                                   *)
Swaps(len) == len \div 2

SwapChars ==
  LET s == args[2]
      len == my_strlen(old, s)
  IN
  /\ pc = "reverse"
  /\ i < Swaps(len)
  /\ mem' = [mem EXCEPT ![s + len - 1 - i] = mem[s + i], ![s + i] = mem[s + len - 1 - i]]
  /\ i' = i + 1
  /\ UNCHANGED <<blockLen, pc, src, dst, next, args, old>>

ReverseEnds ==
  /\ pc = "reverse"
  /\ i >= Swaps(my_strlen(old, args[2]))
  /\ UNCHANGED <<mem, blockLen>>
  /\ Return

LoopStep == CopyChar \/ CopyEnds \/ CopyFaults \/ SwapChars \/ ReverseEnds

StringsNext == FillBuffer \/ FreeBlock \/ Calls \/ LoopStep

(* A call that has begun keeps running.                                    *)
StringsSpec == StringsInit /\ [][StringsNext]_stringVars /\ WF_stringVars(LoopStep)

-----------------------------------------------------------------------------
(* The characters of a string.                                             *)
Text(m, s) == [k \in 1..my_strlen(m, s) |-> m[s + k - 1]]

Backwards(t) == [k \in DOMAIN t |-> t[Len(t) + 1 - k]]

fn == args[1]

(* Where the result is, and what it has to be.                             *)
Result == IF fn \in {"my_strdup", "str_join"} THEN Base ELSE args[2]

Expected ==
  CASE fn \in {"my_strcpy", "my_strdup"} -> Text(old, args[3])
    [] fn \in {"my_strcat", "str_join"}  -> Text(old, args[2]) \o Text(old, args[3])
    [] OTHER                             -> Backwards(Text(old, args[2]))

(***************************************************************************)
(* What a copy must not be asked for: room it does not have, a place       *)
(* inside its own source behind the first character, or memory that malloc *)
(* refuses.                                                                *)
(***************************************************************************)
NoRoom ==
  LET to  == IF fn = "my_strcat" THEN args[2] + my_strlen(old, args[2]) ELSE args[2]
      len == my_strlen(old, args[3])
  IN  IF fn \in {"my_strdup", "str_join"}
      THEN blockLen = 0
      ELSE \/ ~(to..(to + len) \subseteq Accessible(blockLen))
           \/ args[3] < to /\ to <= args[3] + len

(* The length that the function keeps in an int is not one.                *)
TooLong ==
  \/ fn = "my_strcat" /\ my_strlen(old, args[2]) >= IntHalf
  \/ fn = "my_strdup" /\ my_strlen(old, args[3]) >= IntHalf
  \/ fn = "str_join" /\ my_strlen(old, args[2]) + my_strlen(old, args[3]) + 1 >= IntHalf

(***************************************************************************)
(* A call that returns has done its work: the result is the string that    *)
(* was asked for, computed from the memory as it was at the call, and no   *)
(* byte outside of the result has changed.  This includes the overlapping  *)
(* arguments that strings.h does not rule out, and a call that had to      *)
(* overrun does not return as if nothing was wrong; nor do my_strdup and   *)
(* str_join when the size does not fit into their int.  Only my_strcat to  *)
(* a string longer than INT_MAX may return having written elsewhere.       *)
(***************************************************************************)
CopyExact ==
  [][pc # "idle" /\ pc' = "idle" /\ ~(fn = "my_strcat" /\ TooLong) =>
       LET last == Result + Len(Expected)
       IN  /\ fn # "str_reverse" => ~NoRoom /\ ~TooLong
           /\ mem'[last] = 0
           /\ \A p \in 1..Top :
                mem'[p] = IF p \in Result..(last - 1) THEN Expected[p - Result + 1]
                          ELSE IF p = last THEN 0 ELSE old[p]]_stringVars

(***************************************************************************)
(* The copying loop leaves its objects only if the caller asked for it     *)
(* ("dst must have enough space.", strings.h), by an overlap such as       *)
(* my_strcat(s, s), because malloc failed, which nothing tests, or because *)
(* a length does not fit into the int it is kept in: the sizes that        *)
(* my_strdup and str_join compute are enough for all other strings.        *)
(***************************************************************************)
FaultOnlyIfUnsafe == pc = "fault" => NoRoom \/ TooLong

(***************************************************************************)
(* The functions that only read.  my_strcmp orders strings as their        *)
(* unsigned characters do, whichever of them ends first: "0 if a and b are *)
(* equal, negative if a < b, positive if a > b" (strings.h); the           *)
(* palindromes are the strings that read the same backwards, the empty one *)
(* included.                                                               *)
(***************************************************************************)
ReadersExact ==
  pc = "idle" =>
    \A a \in Strings(mem) :
      LET t == Text(mem, a)
          at(w, k) == IF k > Len(w) THEN 0 ELSE w[k] % 256
          less(v, w) == \E k \in 1..Len(w) :
                          at(v, k) < at(w, k) /\ \A j \in 1..(k - 1) : at(v, j) = at(w, j)
      IN  /\ str_is_palindrome(mem, a) <=> t = Backwards(t)
          /\ \A b \in Strings(mem) :
               LET u == Text(mem, b)
                   c == my_strcmp(mem, a, b)
               IN  (c = 0 <=> t = u) /\ (c < 0 <=> less(t, u)) /\ (c > 0 <=> less(u, t))

(***************************************************************************)
(* Every call ends, overlapping arguments included: it returns or faults.  *)
(***************************************************************************)
CallsEnd == pc \in {"copy", "reverse"} ~> pc \in {"idle", "fault"}
=============================================================================
