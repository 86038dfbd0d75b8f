----------------------------- MODULE FloatBits -----------------------------
(***************************************************************************)
(* The bit surgery on IEEE 754 numbers of                                  *)
(* 01-bits-and-bytes/exercises/ex2-ieee754/float_bits.c.  A float_bits is  *)
(* an unsigned integer: one sign bit, ExpBits bits of exponent, FracBits   *)
(* bits of fraction, from the most significant down.  The code fixes 8 and *)
(* 23; the masks it writes as literals are powers of two of these          *)
(* parameters here, so a small format meets all the boundaries of the      *)
(* large one: zero, the denormals, the first and last normal exponent,     *)
(* infinity and NaN.                                                       *)
(*                                                                         *)
(* The state is one number; a step replaces it by the result of a call.    *)
(***************************************************************************)
EXTENDS Integers

CONSTANTS ExpBits, FracBits

ASSUME FormatAssumption == /\ ExpBits \in Nat \ {0, 1}
                           /\ FracBits \in Nat \ {0}

\* Facts of arithmetic, for the provers, to which ^ has no meaning.
ASSUME FormatPowers ==
  /\ 2 ^ FracBits \in Nat \ {0} /\ 2 ^ ExpBits \in Nat /\ 2 ^ ExpBits >= 4
  /\ 2 ^ ExpBits % 2 = 0
  /\ 2 ^ (ExpBits + FracBits) = 2 ^ ExpBits * 2 ^ FracBits
  /\ 2 ^ 0 = 1
  /\ \A n \in 0 .. 2 ^ ExpBits : 2 ^ n \in Nat \ {0} /\ 2 ^ (n + 1) = 2 * 2 ^ n

VARIABLE f

SignBit == 2 ^ (ExpBits + FracBits)
ExpOne  == 2 ^ FracBits
ExpMax  == 2 ^ ExpBits - 1

FloatBitPatterns == 0 .. 2 * SignBit - 1

\* The three fields of a pattern, as the masks and shifts extract them.
sign(x) == x \div SignBit
exp(x)  == (x \div ExpOne) % (ExpMax + 1)
frac(x) == x % ExpOne

\* Clear the exponent field of x, then or in the new exponent e.
WithExp(x, e) == sign(x) * SignBit + e * ExpOne + frac(x)

\* Replace the sign bit of x by the one of y.
WithSignOf(x, y) == (x % SignBit) + sign(y) * SignBit

float_is_nan(x) == exp(x) = ExpMax /\ frac(x) # 0

float_negate(x) ==
  IF float_is_nan(x) THEN x ELSE (x + SignBit) % (2 * SignBit)

float_abs(x) == x % SignBit

\* A mutant: the carry out of a denormal's fraction is lost.
float_twice_no_carry(x) ==
  IF exp(x) = 0 THEN WithSignOf((2 * x) % ExpOne, x)
  ELSE IF exp(x) = ExpMax THEN x
  ELSE WithExp(x, exp(x) + 1)

\* Denormals shift left, the carry out of the fraction landing in the
\* exponent; infinity and NaN stay; the others get the next exponent and keep
\* their fraction, even when that exponent is the one of infinity and NaN.
float_twice(x) ==
  IF exp(x) = 0 THEN WithSignOf((2 * x) % (2 * SignBit), x)
  ELSE IF exp(x) = ExpMax THEN x
  ELSE WithExp(x, exp(x) + 1)

\* Denormals shift right; the sign bit that moved into the top of the
\* exponent is cleared there (0xBFFFFFFF) and restored above.  The others get
\* the exponent below and keep their fraction, even when that exponent is the
\* one of the denormals.
float_half(x) ==
  IF exp(x) = 0 THEN WithSignOf((x \div 2) % (SignBit \div 2), x)
  ELSE IF exp(x) = ExpMax THEN x
  ELSE WithExp(x, exp(x) - 1)

FloatInit == f \in FloatBitPatterns

FloatNegate == f' = float_negate(f)
FloatAbs    == f' = float_abs(f)
FloatTwice  == f' = float_twice(f)
FloatHalf   == f' = float_half(f)

FloatNext == FloatNegate \/ FloatAbs \/ FloatTwice \/ FloatHalf

FloatSpec == FloatInit /\ [][FloatNext]_f

-----------------------------------------------------------------------------
\* What a pattern stands for: its magnitude in units of the smallest denormal.
Finite(x)    == exp(x) # ExpMax
Magnitude(x) == IF exp(x) = 0 THEN frac(x)
                ELSE (ExpOne + frac(x)) * 2 ^ (exp(x) - 1)
Infinity(s)  == s * SignBit + ExpMax * ExpOne
MaxFinite    == Magnitude(ExpMax * ExpOne - 1)

\* The arithmetic meaning of "negate" and "absolute value" on every number,
\* signed zeros and infinities included: negation changes the sign and nothing
\* else, twice is the identity, and both signs have the same absolute value.
\* float_negate leaves every NaN alone; float_abs makes no number of a NaN and
\* leaves one without the sign bit alone (for the others see FloatsAsCommented).
SignsAreRight ==
  IF float_is_nan(f)
  THEN /\ float_negate(f) = f
       /\ float_is_nan(float_abs(f))
       /\ sign(f) = 0 => float_abs(f) = f
  ELSE /\ sign(float_negate(f)) = 1 - sign(f)
       /\ float_negate(float_negate(f)) = f
       /\ float_abs(float_negate(f)) = float_abs(f)
       /\ sign(float_abs(f)) = 0

\* float_twice is exact wherever the result is a finite number, across the
\* boundary where a denormal becomes normal too, and keeps sign, infinities
\* and NaN (the comment "Return f * 2.0").
TwiceExact ==
  LET t == float_twice(f)
  IN  IF Finite(f)
      THEN 2 * Magnitude(f) <= MaxFinite =>
             /\ Finite(t)
             /\ Magnitude(t) = 2 * Magnitude(f)
             /\ sign(t) = sign(f)
      ELSE t = f

\* Away from the last normal binade float_half is a number nearest to the
\* quotient by two (the comment "Return f / 2.0"): the quotient itself, unless
\* that is half way between two denormals.  It keeps the sign, and infinities
\* and NaN.  Which of the two denormals it is, see FloatsAsCommented.
HalfNearest ==
  LET h == float_half(f)
  IN  IF Finite(f)
      THEN exp(f) # 1 => /\ 2 * Magnitude(h) \in Magnitude(f) - 1 .. Magnitude(f) + 1
                         /\ sign(h) = sign(f)
      ELSE h = f

\* The four functions compute on bit patterns what they are named for, away
\* from the places where FloatsAsCommented fails.
FloatsExact == SignsAreRight /\ TwiceExact /\ HalfNearest

\* m / 2 in whole units, a tie going to the even neighbour as division rounds.
RoundedHalf(m) == IF m % 2 = 0 THEN m \div 2 ELSE 2 * ((m + 1) \div 4)

\* The functions are what their comments say on every pattern.  "Return f * 2.0":
\* doubling beyond the largest number gives the infinity of its sign.  "Return
\* f / 2.0", "watch the boundary": halving into the denormals rounds to the
\* nearest one, a tie to the even one.  "NaN unchanged" for float_abs.  The code
\* keeps the fraction at both ends of the normal numbers, giving a NaN and a
\* denormal without the leading one; shifts the last bit of an odd denormal out;
\* and clears the sign bit of a NaN.
FloatsAsCommented ==
  /\ Finite(f) =>
       /\ 2 * Magnitude(f) > MaxFinite => float_twice(f) = Infinity(sign(f))
       /\ exp(f) <= 1 => Magnitude(float_half(f)) = RoundedHalf(Magnitude(f))
  /\ float_is_nan(f) => float_abs(f) = f
=============================================================================
