----------------------------- MODULE FixedPoint ------------------------------
(***************************************************************************)
(* i16f16_t: a signed number of Bits bits with Frac of them behind the     *)
(* point (32 and 16 on the device), held as its raw integer. Products and  *)
(* quotients are taken at twice the width and cut to Bits afterwards.      *)
(***************************************************************************)
EXTENDS Integers, Sequences

CONSTANTS Frac, Bits

One == 2^Frac

\* static_cast<int32_t>: what does not fit is cut off.
Wrap(v) == ((v + 2^(Bits - 1)) % 2^Bits) - 2^(Bits - 1)

Magnitude(a) == IF a < 0 THEN -a ELSE a

\* Division of C: towards zero, the remainder on the dividend's side.
Quot(a, b) ==
  LET q == Magnitude(a) \div Magnitude(b) IN IF (a < 0) = (b < 0) THEN q ELSE -q
Rem(a, b) == a - b * Quot(a, b)

\* The constructors from the integer types, and the conversions back.
FromInt(n) == Wrap(n * One)
ToInt(v)   == Quot(v, One)

Plus(a, b)  == Wrap(a + b)
Minus(a, b) == Wrap(a - b)
Times(a, b) == Wrap((a * b) \div One)
Over(a, b)  == Wrap(Quot(a * One, b))
Mod(a, b)   == Rem(a, b)
Negate(a)   == Wrap(-a)

\* A sum with an integer converts the integer first.
PlusInt(a, n) == Plus(a, FromInt(n))

\* A constant the device holds with 16 fraction bits.
Scaled(raw16) == Quot(raw16, 2^(16 - Frac))

PI    == Scaled(205887)
TWOPI == Scaled(411774)
PI_2  == Scaled(102943)
PHI   == Scaled(106039)

-----------------------------------------------------------------------------
\* Tri2::area(): twice the signed area of three points, each a sequence of two.
Area(t) ==
  LET d(i, k) == Minus(t[i][k], t[1][k])
  IN  Minus(Times(d(2, 1), d(3, 2)), Times(d(2, 2), d(3, 1)))
=============================================================================
