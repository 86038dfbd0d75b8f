------------------------------- MODULE Bits --------------------------------
(***************************************************************************)
(* The branch-free integer functions of                                    *)
(* 01-bits-and-bytes/exercises/ex1-bitwise-basics/bits.c, on signed        *)
(* two's-complement integers of Width bits (32 in the code, whose          *)
(* shifts by 31 are shifts by Width - 1 here).  The file is compiled       *)
(* without optimisation, so a signed overflow wraps; the tests rely on it  *)
(* (test_bits.c:23-24, 36-38).  Right shifts are arithmetic (bits.c:17).   *)
(*                                                                         *)
(* The state is three int variables; a step stores the result of a call    *)
(* into the first, as a caller does.                                       *)
(***************************************************************************)
EXTENDS CInt, FiniteSets

\* Facts of arithmetic, for the provers, to which ^ has no meaning.
ASSUME BitPowers ==
  2 ^ 0 = 1 /\ \A n \in 0 .. Width : 2 ^ n \in Nat \ {0} /\ 2 ^ (n + 1) = 2 * 2 ^ n

VARIABLES x, y, z

bitsVars == <<x, y, z>>

\* The bits of a two's-complement number, the least significant being bit 0.
Places    == 0 .. Width - 1
Bit(v, n) == (v \div 2 ^ n) % 2

\* The int that has the bits b.
WithBits(b) == CHOOSE v \in Ints : \A n \in Places : Bit(v, n) = b[n]

\* & | ^ work bit by bit.
AndOf == [a \in Ints |-> [b \in Ints |-> WithBits([n \in Places |-> Bit(a, n) * Bit(b, n)])]]
OrOf  == [a \in Ints |-> [b \in Ints |->
           WithBits([n \in Places |-> Bit(a, n) + Bit(b, n) - Bit(a, n) * Bit(b, n)])]]
XorOf == [a \in Ints |-> [b \in Ints |-> WithBits([n \in Places |-> (Bit(a, n) + Bit(b, n)) % 2])]]

\* The C operators on int; the sum wraps.
not(a)      == -a - 1
and(a, b)   == AndOf[a][b]
or(a, b)    == OrOf[a][b]
xor(a, b)   == XorOf[a][b]
shr(a, n)   == a \div 2 ^ n
add(a, b)   == Wrap(a + b)
SignMask(a) == shr(a, Width - 1)

bit_and(a, b) == and(a, b)

bit_negate(a) == add(not(a), 1)

bit_abs(a) == Wrap(xor(a, SignMask(a)) - SignMask(a))

is_negative(a) == add(not(SignMask(a)), 1)

\* -1 iff a is not zero, else 0: the mask is_power_of_2 and conditional share.
NonZeroMask(a) == SignMask(or(a, bit_negate(a)))

is_power_of_2(a) ==
  LET v == and(a, Wrap(a - 1))
  IN  and(and(and(not(NonZeroMask(v)), NonZeroMask(a)), not(SignMask(a))), 1)

\* A mutant: the sign of the sum alone decides.
add_ok_any_sign(a, b) ==
  bit_abs(Wrap(xor(is_negative(add(a, b)), is_negative(a)) - 1))

add_ok(a, b) ==
  LET inputs_same_sign     == bit_abs(not(xor(is_negative(a), is_negative(b))))
      output_opposite_sign == xor(is_negative(add(a, b)), is_negative(a))
  IN  bit_abs(Wrap(and(inputs_same_sign, output_opposite_sign) - 1))

conditional(a, b, c) ==
  LET m == NonZeroMask(a)
  IN  Wrap(and(m, b) + and(m, c) + and(not(m), c) - and(m, c))

bit_count(a) ==
  LET terms[n \in 0 .. Width] == IF n = 0 THEN 0 ELSE terms[n - 1] + and(shr(a, n - 1), 1)
  IN  terms[Width]

BitsInit == x \in Ints /\ y \in Ints /\ z \in Ints

Store(v) == x' = v /\ UNCHANGED <<y, z>>

BitAnd      == Store(bit_and(x, y))
Negate      == Store(bit_negate(x))
Abs         == Store(bit_abs(x))
PowerOf2    == Store(is_power_of_2(x))
IsNegative  == Store(is_negative(x))
AddOk       == Store(add_ok(x, y))
Conditional == Store(conditional(x, y, z))
BitCount    == Store(bit_count(x))

BitsNext == BitAnd \/ Negate \/ Abs \/ PowerOf2 \/ IsNegative \/ AddOk \/ Conditional
            \/ BitCount

BitsSpec == BitsInit /\ [][BitsNext]_bitsVars

-----------------------------------------------------------------------------
\* add_ok says 1 exactly when the sum of its arguments is representable ("Return
\* 1 if x + y does NOT overflow"), although it looks at the wrapped sum only.
AddOkIsExact == add_ok(x, y) = (IF x + y \in Ints THEN 1 ELSE 0)

\* is_power_of_2 says 1 exactly on 1, 2, 4, ..., so not on the most negative
\* integer, whose only one bit is the sign; on positive arguments it agrees
\* with bit_count.
PowersOfTwo ==
  /\ is_power_of_2(x) = (IF \E n \in 0 .. Width - 2 : x = 2 ^ n THEN 1 ELSE 0)
  /\ x > 0 => (is_power_of_2(x) = 1 <=> bit_count(x) = 1)

\* conditional selects its second argument when the first is not zero and the
\* third otherwise, although its intermediate sums may overflow.
ConditionalSelects == conditional(x, y, z) = (IF x # 0 THEN y ELSE z)

\* bit_abs is the absolute value wherever that is representable and the
\* argument itself where it is not (test_bits.c:36-38); bit_negate likewise.
AbsAndNegate ==
  IF x = IntMin
  THEN bit_abs(x) = x /\ bit_negate(x) = x
  ELSE /\ bit_abs(x) = (IF x < 0 THEN -x ELSE x)
       /\ bit_negate(x) = -x

\* is_negative tells the sign, bit_count counts the bits that are set, the sign
\* among them, and bit_and sets those that are set in both arguments.
SignAndCount ==
  /\ is_negative(x) = (IF x < 0 THEN 1 ELSE 0)
  /\ bit_count(x) = Cardinality({n \in Places : Bit(x, n) = 1})
  /\ bit_and(x, y) \in Ints
  /\ \A n \in Places : Bit(bit_and(x, y), n) = 1 <=> Bit(x, n) = 1 /\ Bit(y, n) = 1

\* The eight branch-free functions compute what the comments above them in
\* bits.c ask for on every argument, where an intermediate result overflows too.
BitsExact == AddOkIsExact /\ PowersOfTwo /\ ConditionalSelects /\ AbsAndNegate /\ SignAndCount
=============================================================================
