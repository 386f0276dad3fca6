------------------------ MODULE SafeDecimalMathProofs ------------------------
(***************************************************************************)
(* What the fixed point operators return: always a natural number, the one *)
(* nearest to the exact result, and for the share of a part in a whole     *)
(* never more than one. From it, what rounding costs where several are     *)
(* combined: the debt of a share whose ledger entry is scaled, and the     *)
(* amount, collateral and ratio of a liquidation.                          *)
(***************************************************************************)
EXTENDS SafeDecimalMath, TLAPS

\* Integer division of naturals.
LEMMA DivNat ==
  ASSUME NEW x \in Nat, NEW y \in Nat, y > 0
  PROVE  x \div y \in Nat
OBVIOUS

\* A quotient is bounded by what bounds its dividend.
LEMMA DivAtMost ==
  ASSUME NEW x \in Nat, NEW y \in Nat, y > 0, NEW k \in Nat, x <= y * k
  PROVE  x \div y <= k
OBVIOUS

\* Products of naturals.
LEMMA MulNat == \A x, y \in Nat : x * y \in Nat
OBVIOUS

\* Multiplication by a natural keeps order.
LEMMA MulMonotone ==
  ASSUME NEW x \in Nat, NEW y \in Nat, NEW k \in Nat, x <= y
  PROVE  x * k <= y * k
OBVIOUS

\* Rounding a tenth keeps naturals natural.
LEMMA RoundedTenthNat == \A q \in Nat : RoundedTenth(q) \in Nat
BY DEF RoundedTenth

\* Rounding up does not pass a whole number of units.
LEMMA RoundedTenthAtMost ==
  ASSUME NEW q \in Nat, NEW k \in Nat, q <= k * 10
  PROVE  RoundedTenth(q) <= k
BY DEF RoundedTenth

\* A tenth of the unit is a positive natural.
LEMMA UnitTenth == UNIT \div 10 \in Nat \ {0}
BY UnitAssumption

\* The precise unit is a positive multiple of ten.
LEMMA PreciseUnitNat == PRECISE_UNIT \in Nat \ {0} /\ PRECISE_UNIT % 10 = 0
<1> DEFINE u == UNIT \div 10
<1>1. u \in Nat /\ UNIT = 10 * u
  BY UnitAssumption
<1> HIDE DEF u
<1>2. u * CONVERSION \in Nat /\ UNIT * CONVERSION \in Nat
  BY <1>1, MulNat, UnitAssumption
<1>3. UNIT * CONVERSION = 10 * (u * CONVERSION)
  BY <1>1, UnitAssumption
<1>4. UNIT * CONVERSION # 0
  BY UnitAssumption
<1> QED BY <1>2, <1>3, <1>4 DEF PRECISE_UNIT

\* So is its tenth a positive natural.
LEMMA PreciseUnitTenth == PRECISE_UNIT \div 10 \in Nat \ {0}
BY PreciseUnitNat

\* A tenth of the conversion factor is a positive natural.
LEMMA ConversionTenth == CONVERSION \div 10 \in Nat \ {0}
BY UnitAssumption

(* The library maps naturals to naturals, as long as nothing is divided by
   zero: the fact behind every uint of the contracts.                       *)
THEOREM MultiplyNat ==
  ASSUME NEW x \in Nat, NEW y \in Nat
  PROVE  /\ multiplyDecimal(x, y) \in Nat
         /\ multiplyDecimalRound(x, y) \in Nat
         /\ multiplyDecimalRoundPrecise(x, y) \in Nat
<1>1. x * y \in Nat
  BY MulNat
<1>2. multiplyDecimal(x, y) \in Nat
  BY <1>1, UnitAssumption, DivNat DEF multiplyDecimal
<1>3. (x * y) \div (UNIT \div 10) \in Nat
  BY <1>1, UnitTenth, DivNat
<1>4. (x * y) \div (PRECISE_UNIT \div 10) \in Nat
  BY <1>1, PreciseUnitTenth, DivNat
<1> QED BY <1>2, <1>3, <1>4, RoundedTenthNat
        DEF multiplyDecimalRound, multiplyDecimalRoundPrecise

\* The quotients of SafeDecimalMath by a positive number are naturals.
THEOREM DivideNat ==
  ASSUME NEW x \in Nat, NEW y \in Nat, y > 0
  PROVE  /\ divideDecimal(x, y) \in Nat
         /\ divideDecimalRound(x, y) \in Nat
         /\ divideDecimalRoundPrecise(x, y) \in Nat
<1>1. UNIT * 10 \in Nat /\ PRECISE_UNIT * 10 \in Nat
  BY UnitAssumption, PreciseUnitNat
<1>2. x * UNIT \in Nat /\ x * (UNIT * 10) \in Nat /\ x * (PRECISE_UNIT * 10) \in Nat
  BY <1>1, MulNat, UnitAssumption
<1>3. divideDecimal(x, y) \in Nat
  BY <1>2, DivNat DEF divideDecimal
<1>4. (x * (UNIT * 10)) \div y \in Nat /\ (x * (PRECISE_UNIT * 10)) \div y \in Nat
  BY <1>2, DivNat
<1> QED BY <1>3, <1>4, RoundedTenthNat
        DEF divideDecimalRound, divideDecimalRoundPrecise

\* The conversions of SafeDecimalMath between its two precisions give naturals.
THEOREM ConversionNat ==
  ASSUME NEW i \in Nat
  PROVE  decimalToPreciseDecimal(i) \in Nat /\ preciseDecimalToDecimal(i) \in Nat
<1>1. i * CONVERSION \in Nat
  BY MulNat, UnitAssumption
<1>2. i \div (CONVERSION \div 10) \in Nat
  BY ConversionTenth, DivNat
<1> QED BY <1>1, <1>2, RoundedTenthNat
        DEF decimalToPreciseDecimal, preciseDecimalToDecimal

(* The share of a part in a whole is at most one, however it is rounded: the
   subtraction from preciseUnit() in Issuer._addToDebtRegister cannot revert. *)
THEOREM ShareAtMostOne ==
  ASSUME NEW x \in Nat, NEW y \in Nat, y > 0, x <= y
  PROVE  divideDecimalRoundPrecise(x, y) <= PRECISE_UNIT
<1> DEFINE k == PRECISE_UNIT * 10
<1>1. k \in Nat
  BY PreciseUnitNat
<1>2. x * k <= y * k /\ x * k \in Nat
  BY <1>1, MulMonotone, MulNat
<1>3. (x * k) \div y <= k /\ (x * k) \div y \in Nat
  <2> HIDE DEF k
  <2> QED BY <1>1, <1>2, DivAtMost, DivNat
<1> QED BY <1>3, RoundedTenthAtMost, PreciseUnitNat DEF divideDecimalRoundPrecise

(* Nothing times or over anything is nothing. *)
LEMMA ZeroShare ==
  ASSUME NEW y \in Nat, y > 0
  PROVE  divideDecimalRound(0, y) = 0
<1>1. 0 * (UNIT * 10) = 0
  BY UnitAssumption
<1>2. 0 \div y = 0
  OBVIOUS
<1> QED BY <1>1, <1>2 DEF divideDecimalRound, RoundedTenth
------------------------------------------------------------------------------
(* What rounding costs. *)

\* Integer division takes the largest multiple that fits.
LEMMA DivBounds ==
  ASSUME NEW x \in Nat, NEW y \in Nat, y > 0
  PROVE  (x \div y) * y <= x /\ x < (x \div y) * y + y
OBVIOUS

\* Dropping the last digit rounds it half up.
LEMMA RoundedTenthBounds ==
  ASSUME NEW q \in Nat
  PROVE  10 * RoundedTenth(q) <= q + 5 /\ q + 6 <= 10 * RoundedTenth(q) + 10
BY DEF RoundedTenth

\* r is x / y rounded half up.
Nearest(r, x, y) == 2 * (r * y) <= 2 * x + y /\ 2 * x < 2 * (r * y) + y

\* The detour over a digit more is not seen: dividing ten times the dividend and
\* dropping the last digit rounds the quotient itself half up, not twice.
LEMMA RoundingOnce ==
  ASSUME NEW x \in Nat, NEW y \in Nat, y > 0, NEW q \in Nat,
         q * y <= 10 * x, 10 * x < q * y + y
  PROVE  Nearest(RoundedTenth(q), x, y)
<1> DEFINE r == RoundedTenth(q)
<1>1. r \in Nat /\ 10 * r <= q + 5 /\ q + 6 <= 10 * r + 10
  BY RoundedTenthNat, RoundedTenthBounds
<1> HIDE DEF r
<1>2. (10 * r) * y <= (q + 5) * y /\ (q + 6) * y <= (10 * r + 10) * y
  BY <1>1, MulMonotone
<1>3. r * y \in Nat /\ q * y \in Nat
  BY <1>1, MulNat
<1>4. /\ (10 * r) * y = 10 * (r * y) /\ (q + 5) * y = q * y + 5 * y
      /\ (q + 6) * y = q * y + 6 * y /\ (10 * r + 10) * y = 10 * (r * y) + 10 * y
  BY <1>1
<1>5. Nearest(r, x, y)
  BY <1>2, <1>3, <1>4 DEF Nearest
<1> QED BY <1>5 DEF r

\* Division rounds once, half up, at both precisions.
THEOREM DivisionRoundsToNearest ==
  ASSUME NEW x \in Nat, NEW y \in Nat, y > 0
  PROVE  /\ Nearest(divideDecimalRound(x, y), x * UNIT, y)
         /\ Nearest(divideDecimalRoundPrecise(x, y), x * PRECISE_UNIT, y)
<1>1. ASSUME NEW unit \in Nat
      PROVE  Nearest(RoundedTenth((x * (unit * 10)) \div y), x * unit, y)
  <2> DEFINE d == x * (unit * 10)
             q == d \div y
  <2>1. x * unit \in Nat /\ d \in Nat /\ d = 10 * (x * unit)
    BY MulNat
  <2> HIDE DEF d
  <2>2. q \in Nat /\ q * y <= d /\ d < q * y + y
    BY <2>1, DivNat, DivBounds
  <2> HIDE DEF q
  <2>3. Nearest(RoundedTenth(q), x * unit, y)
    BY <2>1, <2>2, RoundingOnce
  <2> QED BY <2>3 DEF q, d
<1> QED BY <1>1, UnitAssumption, PreciseUnitNat DEF divideDecimalRound, divideDecimalRoundPrecise

\* So do multiplication and the conversion from high precision.
THEOREM MultiplicationRoundsToNearest ==
  ASSUME NEW x \in Nat, NEW y \in Nat
  PROVE  /\ Nearest(multiplyDecimalRound(x, y), x * y, UNIT)
         /\ Nearest(multiplyDecimalRoundPrecise(x, y), x * y, PRECISE_UNIT)
         /\ Nearest(preciseDecimalToDecimal(x), x, CONVERSION)
<1>1. ASSUME NEW d \in Nat, NEW unit \in Nat, unit > 0, unit % 10 = 0
      PROVE  Nearest(RoundedTenth(d \div (unit \div 10)), d, unit)
  <2> DEFINE u == unit \div 10
             q == d \div u
  <2>1. u \in Nat /\ u > 0 /\ unit = 10 * u
    BY <1>1
  <2> HIDE DEF u
  <2>2. q \in Nat /\ q * u <= d /\ d < q * u + u
    BY <2>1, DivNat, DivBounds
  <2> HIDE DEF q
  <2>3. q * u \in Nat /\ q * (10 * u) = 10 * (q * u)
    BY <2>1, <2>2, MulNat
  <2>4. Nearest(RoundedTenth(q), d, unit)
    BY <2>1, <2>2, <2>3, RoundingOnce
  <2> QED BY <2>4 DEF q, u
<1>2. x * y \in Nat
  BY MulNat
<1> QED BY <1>1, <1>2, UnitAssumption, PreciseUnitNat
        DEF multiplyDecimalRound, multiplyDecimalRoundPrecise, preciseDecimalToDecimal

\* One number only is a quotient rounded half up.
LEMMA NearestIsUnique ==
  ASSUME NEW x \in Nat, NEW y \in Nat, y > 0, NEW r \in Nat, NEW k \in Nat,
         Nearest(r, x, y), Nearest(k, x, y)
  PROVE  r = k
<1>1. ASSUME NEW m \in Nat, NEW n \in Nat, Nearest(m, x, y), Nearest(n, x, y), m < n
      PROVE  FALSE
  <2>1. (m + 1) * y <= n * y
    BY <1>1, MulMonotone
  <2>2. (m + 1) * y = m * y + y /\ m * y \in Nat /\ n * y \in Nat
    BY MulNat
  <2> QED BY <1>1, <2>1, <2>2 DEF Nearest
<1> QED BY <1>1

\* What is nothing, and what is whole, is not rounded.
LEMMA WholeSharesAreExact ==
  /\ \A y \in Nat \ {0} : divideDecimalRoundPrecise(y, y) = PRECISE_UNIT
  /\ \A s \in Nat : multiplyDecimalRoundPrecise(PRECISE_UNIT, s) = s
  /\ \A x \in Nat : multiplyDecimalRoundPrecise(x, 0) = 0
  /\ preciseDecimalToDecimal(0) = 0
<1> DEFINE P == PRECISE_UNIT
<1>1. P \in Nat /\ P > 0
  BY PreciseUnitNat
<1>2. CONVERSION \in Nat /\ CONVERSION > 0
  BY UnitAssumption
<1>3. ASSUME NEW y \in Nat, y > 0 PROVE divideDecimalRoundPrecise(y, y) = P
  <2>1. Nearest(divideDecimalRoundPrecise(y, y), y * P, y) /\ divideDecimalRoundPrecise(y, y) \in Nat
    BY <1>3, DivisionRoundsToNearest, DivideNat
  <2> HIDE DEF P
  <2>2. y * P \in Nat /\ P * y = y * P
    BY <1>1, <1>3, MulNat
  <2>3. Nearest(P, y * P, y)
    BY <1>1, <1>3, <2>2 DEF Nearest
  <2> QED BY <1>1, <1>3, <2>1, <2>2, <2>3, NearestIsUnique
<1>4. ASSUME NEW s \in Nat PROVE multiplyDecimalRoundPrecise(P, s) = s
  <2>1. Nearest(multiplyDecimalRoundPrecise(P, s), P * s, P) /\ multiplyDecimalRoundPrecise(P, s) \in Nat
    BY <1>1, MultiplicationRoundsToNearest, MultiplyNat
  <2> HIDE DEF P
  <2>2. P * s \in Nat /\ s * P = P * s
    BY <1>1, <1>4, MulNat
  <2>3. Nearest(s, P * s, P)
    BY <1>1, <1>4, <2>2 DEF Nearest
  <2> QED BY <1>1, <2>1, <2>2, <2>3, NearestIsUnique
<1>5. ASSUME NEW x \in Nat PROVE multiplyDecimalRoundPrecise(x, 0) = 0
  <2>1. /\ Nearest(multiplyDecimalRoundPrecise(x, 0), x * 0, P)
        /\ multiplyDecimalRoundPrecise(x, 0) \in Nat
    BY <1>5, MultiplicationRoundsToNearest, MultiplyNat
  <2> HIDE DEF P
  <2>2. x * 0 = 0 /\ 0 * P = 0
    BY <1>1, <1>5
  <2>3. Nearest(0, x * 0, P)
    BY <1>1, <2>2 DEF Nearest
  <2> QED BY <1>1, <2>1, <2>2, <2>3, NearestIsUnique
<1>6. preciseDecimalToDecimal(0) = 0
  <2>1. Nearest(preciseDecimalToDecimal(0), 0, CONVERSION) /\ preciseDecimalToDecimal(0) \in Nat
    BY MultiplicationRoundsToNearest, ConversionNat
  <2>2. Nearest(0, 0, CONVERSION)
    BY <1>2 DEF Nearest
  <2> QED BY <1>2, <2>1, <2>2, NearestIsUnique
<1> QED BY <1>3, <1>4, <1>5, <1>6

(* A part of a whole that is stored as a rounded share, and computed from the
   share again, is off by one at most, as long as the whole has no more units
   than one has at high precision: 10^27 in the code, a billion sUSD.         *)
THEOREM PartIsRegained ==
  ASSUME NEW part \in Nat, NEW whole \in Nat, whole > 0, whole <= PRECISE_UNIT
  PROVE  LET share == divideDecimalRoundPrecise(part, whole)
             regained == preciseDecimalToDecimal(
                           multiplyDecimalRoundPrecise(decimalToPreciseDecimal(whole), share))
         IN  regained <= part + 1 /\ part <= regained + 1
<1> DEFINE P == PRECISE_UNIT
           C == CONVERSION
           s == divideDecimalRoundPrecise(part, whole)
           v == multiplyDecimalRoundPrecise(decimalToPreciseDecimal(whole), s)
           d == preciseDecimalToDecimal(v)
<1>1. P \in Nat /\ P > 0 /\ C \in Nat /\ C >= 10
  BY PreciseUnitNat, UnitAssumption
<1>2. s \in Nat /\ Nearest(s, part * P, whole)
  BY DivideNat, DivisionRoundsToNearest
<1>3. decimalToPreciseDecimal(whole) = whole * C /\ whole * C \in Nat
  BY <1>1, MulNat DEF decimalToPreciseDecimal
<1> HIDE DEF s
<1>4. v \in Nat /\ Nearest(v, (whole * C) * s, P)
  BY <1>2, <1>3, MultiplyNat, MultiplicationRoundsToNearest
<1> HIDE DEF v
<1>5. d \in Nat /\ Nearest(d, v, C)
  BY <1>4, ConversionNat, MultiplicationRoundsToNearest
<1> HIDE DEF d, P, C
\* whole * share is part up to half of the whole, at high precision.
<1>6. /\ 2 * (s * whole) <= 2 * (part * P) + whole
      /\ 2 * (part * P) < 2 * (s * whole) + whole
  BY <1>2 DEF Nearest
<1>7. s * whole \in Nat /\ part * P \in Nat /\ part * C \in Nat /\ P * C \in Nat
  BY <1>1, <1>2, MulNat
<1>8. /\ (2 * (s * whole)) * C <= (2 * (part * P) + whole) * C
      /\ (2 * (part * P)) * C <= (2 * (s * whole) + whole) * C
  BY <1>1, <1>6, <1>7, MulMonotone
<1> DEFINE w == (whole * C) * s
           a == (part * C) * P
<1>9. /\ (2 * (s * whole)) * C = 2 * w /\ (2 * (part * P) + whole) * C = 2 * a + whole * C
      /\ (2 * (part * P)) * C = 2 * a /\ (2 * (s * whole) + whole) * C = 2 * w + whole * C
  BY <1>1, <1>2, <1>7
<1>10. w \in Nat /\ a \in Nat /\ whole * C <= P * C
  BY <1>1, <1>2, <1>3, <1>7, MulNat, MulMonotone DEF P
<1>11. 2 * w <= 2 * a + P * C /\ 2 * a <= 2 * w + P * C
  BY <1>3, <1>7, <1>8, <1>9, <1>10
<1>12. 2 * (v * P) <= 2 * w + P /\ 2 * w < 2 * (v * P) + P
  BY <1>4 DEF Nearest
<1> HIDE DEF w
\* The same in units of high precision.
<1>13. 2 * v <= 2 * (part * C) + C + 1 /\ 2 * (part * C) <= 2 * v + C + 1
  <2>1. ASSUME NEW x \in Nat, NEW y \in Nat, x * P <= y * P PROVE x <= y
    <3>1. CASE y < x
      <4>1. (y + 1) * P <= x * P
        BY <1>1, <2>1, <3>1, MulMonotone
      <4>2. (y + 1) * P = y * P + P /\ y * P \in Nat
        BY <1>1, <2>1, MulNat
      <4> QED BY <1>1, <2>1, <4>1, <4>2, MulNat
    <3> QED BY <2>1, <3>1
  <2>2. v * P \in Nat
    BY <1>1, <1>4, MulNat
  <2>3. 2 * (v * P) <= 2 * a + P * C + P /\ 2 * a <= 2 * (v * P) + P * C + P
    BY <1>1, <1>7, <1>10, <1>11, <1>12, <2>2
  <2>4. /\ (2 * v) * P = 2 * (v * P)
        /\ (2 * (part * C) + C + 1) * P = 2 * a + P * C + P
        /\ (2 * (part * C)) * P = 2 * a
        /\ (2 * v + C + 1) * P = 2 * (v * P) + P * C + P
    BY <1>1, <1>4, <1>7
  <2>5. /\ 2 * v \in Nat /\ 2 * (part * C) + C + 1 \in Nat
        /\ 2 * (part * C) \in Nat /\ 2 * v + C + 1 \in Nat
    BY <1>1, <1>4, <1>7
  <2> HIDE DEF a
  <2> QED BY <2>1, <2>3, <2>4, <2>5
<1>14. 2 * (d * C) <= 2 * v + C /\ 2 * v < 2 * (d * C) + C
  BY <1>5 DEF Nearest
<1>15. d * C \in Nat
  BY <1>1, <1>5, MulNat
\* And in whole units.
<1>16. ASSUME NEW x \in Nat, NEW y \in Nat, x * C <= y * C + C + 1 PROVE x <= y + 1
  <2>1. CASE y + 2 <= x
    <3>1. (y + 2) * C <= x * C
      BY <1>1, <1>16, <2>1, MulMonotone
    <3>2. (y + 2) * C = y * C + 2 * C /\ y * C \in Nat /\ x * C \in Nat
      BY <1>1, <1>16, MulNat
    <3> QED BY <1>1, <1>16, <3>1, <3>2
  <2> QED BY <1>16, <2>1
<1>17. d * C <= part * C + C + 1 /\ part * C <= d * C + C + 1
  BY <1>1, <1>4, <1>7, <1>13, <1>14, <1>15
<1>18. d <= part + 1 /\ part <= d + 1
  BY <1>5, <1>16, <1>17
<1> QED BY <1>18 DEF d, v, s
------------------------------------------------------------------------------
(* Differences, and how they add up. *)

\* a and b differ by d at most.
Within(a, b, d) == a <= b + d /\ b <= a + d

\* Each product on its own is more than the provers need to see at once.
LEMMA WithinProduct ==
  ASSUME NEW a \in Nat, NEW b \in Nat, NEW d \in Nat, NEW k \in Nat, Within(a, b, d)
  PROVE  Within(a * k, b * k, d * k)
<1>1. a * k <= (b + d) * k /\ b * k <= (a + d) * k
  BY MulMonotone DEF Within
<1>2. (b + d) * k = b * k + d * k /\ (a + d) * k = a * k + d * k
  OBVIOUS
<1> QED BY <1>1, <1>2 DEF Within

\* A common factor can be left out.
LEMMA CommonFactor ==
  ASSUME NEW x \in Nat, NEW y \in Nat, NEW k \in Nat, k > 0, x * k <= y * k
  PROVE  x <= y
<1>1. CASE y < x
  <2>1. (y + 1) * k <= x * k
    BY <1>1, MulMonotone
  <2>2. (y + 1) * k = y * k + k /\ y * k \in Nat /\ x * k \in Nat
    BY MulNat
  <2> QED BY <2>1, <2>2
<1> QED BY <1>1

LEMMA WithinSum ==
  ASSUME NEW a \in Nat, NEW b \in Nat, NEW c \in Nat, NEW d \in Nat, NEW f \in Nat,
         Within(a, b, d), Within(b, c, f)
  PROVE  Within(a, c, d + f)
BY DEF Within

\* Rounding to the nearest costs half of the divisor.
LEMMA NearestWithin ==
  ASSUME NEW r \in Nat, NEW x \in Nat, NEW y \in Nat, Nearest(r, x, y)
  PROVE  Within(2 * (r * y), 2 * x, y)
<1>1. r * y \in Nat
  BY MulNat
<1> QED BY <1>1 DEF Nearest, Within

\* A share s, taken when the ledger had the entry e, is worth s * last / e now.
LEMMA OwnershipWithin ==
  ASSUME NEW s \in Nat, NEW e \in Nat, e > 0, NEW last \in Nat
  PROVE  LET P == PRECISE_UNIT
             o == multiplyDecimalRoundPrecise(divideDecimalRoundPrecise(last, e), s)
         IN  o \in Nat /\ Within(2 * (o * (P * e)), 2 * (last * (P * s)), P * e + e * s)
<1> DEFINE P == PRECISE_UNIT
           x == divideDecimalRoundPrecise(last, e)
           o == multiplyDecimalRoundPrecise(x, s)
<1>1. P \in Nat /\ P > 0
  BY PreciseUnitNat
<1>2. x \in Nat /\ Nearest(x, last * P, e)
  BY DivideNat, DivisionRoundsToNearest
<1> HIDE DEF x
<1>3. o \in Nat /\ Nearest(o, x * s, P)
  BY <1>2, MultiplyNat, MultiplicationRoundsToNearest
<1> HIDE DEF o, P
<1>4. /\ last * P \in Nat /\ x * s \in Nat /\ x * e \in Nat /\ o * P \in Nat
      /\ P * e \in Nat /\ e * s \in Nat /\ P * s \in Nat
  BY <1>1, <1>2, <1>3, MulNat
<1>5. Within(2 * (x * e), 2 * (last * P), e) /\ Within(2 * (o * P), 2 * (x * s), P)
  BY <1>1, <1>2, <1>3, <1>4, NearestWithin
<1>6. /\ Within((2 * (x * e)) * s, (2 * (last * P)) * s, e * s)
      /\ Within((2 * (o * P)) * e, (2 * (x * s)) * e, P * e)
  BY <1>1, <1>4, <1>5, WithinProduct
<1>7. (2 * (x * e)) * s = (2 * (x * s)) * e
  BY <1>2
<1>8. (2 * (last * P)) * s = 2 * (last * (P * s)) /\ (2 * (o * P)) * e = 2 * (o * (P * e))
  BY <1>1, <1>3
<1>9. 2 * (last * (P * s)) \in Nat /\ 2 * (o * (P * e)) \in Nat /\ (2 * (x * s)) * e \in Nat
  BY <1>2, <1>3, <1>4, MulNat
<1>10. Within(2 * (o * (P * e)), 2 * (last * (P * s)), P * e + e * s)
  BY <1>4, <1>6, <1>7, <1>8, <1>9, WithinSum
<1> QED BY <1>3, <1>10 DEF o, x, P

\* The part of a pool that an ownership stands for.
LEMMA DebtWithin ==
  ASSUME NEW total \in Nat, NEW o \in Nat
  PROVE  LET P == PRECISE_UNIT
             C == CONVERSION
             d == preciseDecimalToDecimal(
                    multiplyDecimalRoundPrecise(decimalToPreciseDecimal(total), o))
         IN  d \in Nat /\ Within(2 * (d * (C * P)), 2 * ((o * total) * C), C * P + P)
<1> DEFINE P == PRECISE_UNIT
           C == CONVERSION
           v == multiplyDecimalRoundPrecise(decimalToPreciseDecimal(total), o)
           d == preciseDecimalToDecimal(v)
<1>1. P \in Nat /\ P > 0 /\ C \in Nat /\ C > 0
  BY PreciseUnitNat, UnitAssumption
<1>2. decimalToPreciseDecimal(total) = total * C /\ total * C \in Nat
  BY <1>1, MulNat DEF decimalToPreciseDecimal
<1>3. v \in Nat /\ Nearest(v, (total * C) * o, P)
  BY <1>2, MultiplyNat, MultiplicationRoundsToNearest
<1> HIDE DEF v
<1>4. d \in Nat /\ Nearest(d, v, C)
  BY <1>3, ConversionNat, MultiplicationRoundsToNearest
<1> HIDE DEF d, P, C
<1>5. (total * C) * o = (o * total) * C /\ (o * total) * C \in Nat
  BY <1>1, MulNat
<1>6. v * P \in Nat /\ d * C \in Nat /\ C * P \in Nat
  BY <1>1, <1>3, <1>4, MulNat
<1>7. /\ Within(2 * (v * P), 2 * ((o * total) * C), P)
      /\ Within(2 * (d * C), 2 * v, C)
  BY <1>1, <1>3, <1>4, <1>5, NearestWithin
<1>8. Within((2 * (d * C)) * P, (2 * v) * P, C * P)
  BY <1>1, <1>3, <1>6, <1>7, WithinProduct
<1>9. /\ (2 * (d * C)) * P = 2 * (d * (C * P)) /\ (2 * v) * P = 2 * (v * P)
      /\ 2 * (d * (C * P)) \in Nat /\ 2 * (v * P) \in Nat /\ 2 * ((o * total) * C) \in Nat
  BY <1>1, <1>3, <1>4, <1>5, <1>6, MulNat
<1>10. Within(2 * (d * (C * P)), 2 * ((o * total) * C), C * P + P)
  BY <1>1, <1>6, <1>7, <1>8, <1>9, WithinSum
<1> QED BY <1>4, <1>10 DEF d, v, P, C

\* A ledger entry that is multiplied by what an operation leaves of the pool
\* moves as the pool does, the other way.
LEMMA LedgerFollowsPool ==
  ASSUME NEW last \in Nat, NEW total \in Nat, NEW after \in Nat, NEW delta \in Nat,
         Within(2 * (delta * after), 2 * (PRECISE_UNIT * total), after)
  PROVE  LET P == PRECISE_UNIT
             new == multiplyDecimalRoundPrecise(last, delta)
         IN  new \in Nat /\ Within(2 * (new * (after * P)), 2 * (last * (total * P)),
                                   P * after + after * last)
<1> DEFINE P == PRECISE_UNIT
           new == multiplyDecimalRoundPrecise(last, delta)
<1>1. P \in Nat
  BY PreciseUnitNat
<1>2. new \in Nat /\ Nearest(new, last * delta, P)
  BY MultiplyNat, MultiplicationRoundsToNearest
<1>3. Within(2 * (delta * after), 2 * (P * total), after)
  OBVIOUS
<1> HIDE DEF new, P
<1>4. /\ last * delta \in Nat /\ new * P \in Nat /\ delta * after \in Nat
      /\ P * total \in Nat /\ P * after \in Nat /\ after * last \in Nat
  BY <1>1, <1>2, MulNat
<1>5. Within(2 * (new * P), 2 * (last * delta), P)
  BY <1>1, <1>2, <1>4, NearestWithin
<1>6. /\ Within((2 * (new * P)) * after, (2 * (last * delta)) * after, P * after)
      /\ Within((2 * (delta * after)) * last, (2 * (P * total)) * last, after * last)
  <2>1. Within((2 * (new * P)) * after, (2 * (last * delta)) * after, P * after)
    BY <1>1, <1>4, <1>5, WithinProduct
  <2>2. Within((2 * (delta * after)) * last, (2 * (P * total)) * last, after * last)
    BY <1>3, <1>4, WithinProduct
  <2> QED BY <2>1, <2>2
<1>7. /\ (2 * (new * P)) * after = 2 * (new * (after * P))
      /\ (2 * (P * total)) * last = 2 * (last * (total * P))
  BY <1>1, <1>2
<1>8. (2 * (last * delta)) * after = (2 * (delta * after)) * last
  OBVIOUS
<1>9. /\ 2 * (new * (after * P)) \in Nat /\ 2 * (last * (total * P)) \in Nat
      /\ (2 * (delta * after)) * last \in Nat
  BY <1>1, <1>2, <1>4, MulNat
<1>10. Within(2 * (new * (after * P)), 2 * (last * (total * P)), P * after + after * last)
  BY <1>4, <1>6, <1>7, <1>8, <1>9, WithinSum
<1> QED BY <1>2, <1>10 DEF new, P

\* The debt of a share s that was taken at the entry e, when the last entry is
\* last and the pool is worth total.
DebtOfShare(s, e, last, total) ==
  preciseDecimalToDecimal(
    multiplyDecimalRoundPrecise(
      decimalToPreciseDecimal(total),
      multiplyDecimalRoundPrecise(divideDecimalRoundPrecise(last, e), s)))

\* It is total * last * s / e, but for what three roundings cost.
LEMMA DebtOfShareWithin ==
  ASSUME NEW s \in Nat, NEW e \in Nat, e > 0, NEW last \in Nat, NEW total \in Nat
  PROVE  LET P == PRECISE_UNIT
             C == CONVERSION
             d == DebtOfShare(s, e, last, total)
         IN  d \in Nat /\ Within((2 * d) * (C * (P * (P * e))),
                                 (2 * (last * (total * P))) * (s * C),
                                 (C * P + P) * (P * e) + (P * e + e * s) * (total * C))
<1> DEFINE P == PRECISE_UNIT
           C == CONVERSION
           o == multiplyDecimalRoundPrecise(divideDecimalRoundPrecise(last, e), s)
           d == preciseDecimalToDecimal(
                  multiplyDecimalRoundPrecise(decimalToPreciseDecimal(total), o))
           X == P * e
           Y == total * C
           F == P * e + e * s
           H == C * P + P
<1>1. P \in Nat /\ C \in Nat
  BY PreciseUnitNat, UnitAssumption
<1>2. o \in Nat /\ Within(2 * (o * (P * e)), 2 * (last * (P * s)), P * e + e * s)
  BY OwnershipWithin
<1> HIDE DEF o
<1>3. d \in Nat /\ Within(2 * (d * (C * P)), 2 * ((o * total) * C), C * P + P)
  BY <1>2, DebtWithin
<1> HIDE DEF d, P, C
<1>4. /\ X \in Nat /\ Y \in Nat /\ F \in Nat /\ H \in Nat
      /\ o * X \in Nat /\ last * (P * s) \in Nat
      /\ d * (C * P) \in Nat /\ (o * total) * C \in Nat
  BY <1>1, <1>2, <1>3, MulNat
<1>5. /\ Within((2 * (o * X)) * Y, (2 * (last * (P * s))) * Y, F * Y)
      /\ Within((2 * (d * (C * P))) * X, (2 * ((o * total) * C)) * X, H * X)
  <2>1. Within(2 * (o * X), 2 * (last * (P * s)), F)
    BY <1>2
  <2>2. Within(2 * (d * (C * P)), 2 * ((o * total) * C), H)
    BY <1>3
  <2> HIDE DEF X, Y, F, H
  <2>3. Within((2 * (o * X)) * Y, (2 * (last * (P * s))) * Y, F * Y)
    BY <1>4, <2>1, WithinProduct
  <2>4. Within((2 * (d * (C * P))) * X, (2 * ((o * total) * C)) * X, H * X)
    BY <1>4, <2>2, WithinProduct
  <2> QED BY <2>3, <2>4
<1>6. (2 * (o * X)) * Y = (2 * ((o * total) * C)) * X
  <2> HIDE DEF X
  <2> QED BY <1>1, <1>2, <1>4
<1>7. (2 * (d * (C * P))) * X = (2 * d) * (C * (P * (P * e)))
  BY <1>1, <1>3
<1>8. (2 * (last * (P * s))) * Y = (2 * (last * (total * P))) * (s * C)
  BY <1>1
<1>9. /\ (2 * d) * (C * (P * (P * e))) \in Nat /\ (2 * ((o * total) * C)) * X \in Nat
      /\ (2 * (last * (total * P))) * (s * C) \in Nat /\ F * Y \in Nat /\ H * X \in Nat
  <2>1. (2 * ((o * total) * C)) * X \in Nat /\ F * Y \in Nat /\ H * X \in Nat
    <3> HIDE DEF X, Y, F, H
    <3> QED BY <1>4, MulNat
  <2> QED BY <1>1, <1>3, <2>1, MulNat
<1>10. Within((2 * d) * (C * (P * (P * e))), (2 * (last * (total * P))) * (s * C),
              H * X + F * Y)
  <2> HIDE DEF X, Y, F, H
  <2> QED BY <1>5, <1>6, <1>7, <1>8, <1>9, WithinSum
<1> QED BY <1>3, <1>10 DEF DebtOfShare, o, d, P, C

\* When the pool is small for a precise unit, and a share of it for the entry
\* the share was taken at, the roundings before and after an operation and the
\* one of its entry do not add up to two units of debt.
LEMMA RoundingsAreSmall ==
  ASSUME NEW P \in Nat, P > 0, NEW C \in Nat, C >= 10, NEW e \in Nat, e > 0,
         NEW s \in Nat, NEW last \in Nat, NEW total \in Nat, NEW after \in Nat,
         s <= 2 * P, s * last <= 2 * (e * P), 10 * total <= P, 10 * after <= P,
         2 * (s * after) <= P * e
  PROVE  LET H == (C * P + P) * (P * e)
             F == P * e + e * s
         IN  (H + F * (total * C)) + ((P * after + after * last) * (s * C)
               + (H + F * (after * C))) < 4 * (C * (P * (P * e)))
<1> DEFINE X == P * e
           M == P * X
           K == C * M
           H == (C * P + P) * X
           F == X + e * s
           G == (P * after + after * last) * (s * C)
<1>1. /\ X \in Nat /\ X > 0 /\ e * s \in Nat /\ F \in Nat
      /\ s * after \in Nat /\ s * last \in Nat
  <2>1. 1 * 1 <= P * 1 /\ P * 1 <= P * e
    BY MulMonotone
  <2> QED BY <2>1, MulNat
<1>2. M \in Nat /\ M > 0 /\ K \in Nat /\ K >= 10 * M
  <2> HIDE DEF X
  <2>1. M \in Nat /\ 1 * 1 <= P * 1 /\ P * 1 <= P * X
    BY <1>1, MulNat, MulMonotone
  <2> HIDE DEF M
  <2>2. K \in Nat /\ 10 * M <= C * M
    BY <2>1, MulNat, MulMonotone
  <2> QED BY <2>1, <2>2 DEF M
<1>3. H = K + M
  <2> HIDE DEF X
  <2> QED BY <1>1
<1>4. ASSUME NEW t \in Nat, 10 * t <= P PROVE F * (t * C) \in Nat /\ 10 * (F * (t * C)) <= 3 * K
  <2>1. e * s <= e * (2 * P) /\ e * (2 * P) = 2 * X
    BY MulMonotone
  <2>2. F <= 3 * X
    BY <1>1, <2>1
  <2> HIDE DEF F, X
  <2>3. F * (10 * t) <= (3 * X) * P /\ (3 * X) * P = 3 * M
    BY <1>1, <1>4, <2>2, MulMonotone
  <2>4. F * t \in Nat /\ F * (10 * t) = 10 * (F * t)
    BY <1>1, MulNat
  <2> DEFINE D == F * t
  <2>5. F * (t * C) = C * D
    BY <1>1
  <2> HIDE DEF D, M
  <2>6. C * (10 * D) <= C * (3 * M)
    BY <1>2, <2>3, <2>4, MulMonotone DEF D
  <2>7. C * (10 * D) = 10 * (C * D) /\ C * (3 * M) = 3 * K /\ C * D \in Nat
    BY <1>2, <2>4, MulNat DEF D
  <2> QED BY <2>5, <2>6, <2>7
<1>5. G \in Nat /\ 10 * G <= 7 * K
  <2> DEFINE U == P * (s * after)
             V == after * (s * last)
  <2>1. P * (2 * (s * after)) <= P * X /\ P * (2 * (s * after)) = 2 * U
    BY <1>1, MulMonotone
  <2>2. (10 * after) * (s * last) <= P * (2 * (e * P))
    BY <1>1, MulNat, MulMonotone
  <2>3. (10 * after) * (s * last) = 10 * V /\ P * (2 * (e * P)) = 2 * M
    BY <1>1
  <2>4. U \in Nat /\ V \in Nat
    BY <1>1, MulNat
  <2>5. G = C * (U + V)
    OBVIOUS
  <2> HIDE DEF U, V, M, G
  <2>6. 10 * (U + V) <= 7 * M
    BY <1>2, <2>1, <2>2, <2>3, <2>4 DEF M
  <2>7. C * (10 * (U + V)) <= C * (7 * M)
    BY <1>2, <2>4, <2>6, MulMonotone
  <2>8. C * (10 * (U + V)) = 10 * (C * (U + V)) /\ C * (7 * M) = 7 * K /\ C * (U + V) \in Nat
    BY <1>2, <2>4, MulNat
  <2> QED BY <2>5, <2>7, <2>8
<1> DEFINE A == F * (total * C)
           B == F * (after * C)
<1>6. A \in Nat /\ B \in Nat /\ 10 * A <= 3 * K /\ 10 * B <= 3 * K
  BY <1>4
<1> HIDE DEF A, B, G, H, K, M, F, X
<1>7. (H + A) + (G + (H + B)) < 4 * K
  BY <1>2, <1>3, <1>5, <1>6
<1> QED BY <1>7 DEF A, B, G, H, K, M, F, X

\* A share that an operation leaves alone is worth the same debt after it: what
\* the entry takes from the share, the pool gives back.
THEOREM DebtIsKept ==
  ASSUME NEW s \in Nat, NEW e \in Nat, e > 0, NEW last \in Nat,
         NEW total \in Nat, NEW after \in Nat, NEW delta \in Nat,
         Within(2 * (delta * after), 2 * (PRECISE_UNIT * total), after),
         s <= 2 * PRECISE_UNIT, s * last <= 2 * (e * PRECISE_UNIT),
         10 * total <= PRECISE_UNIT, 10 * after <= PRECISE_UNIT,
         2 * (s * after) <= PRECISE_UNIT * e
  PROVE  LET new == multiplyDecimalRoundPrecise(last, delta)
         IN  Within(DebtOfShare(s, e, last, total), DebtOfShare(s, e, new, after), 1)
<1> DEFINE P == PRECISE_UNIT
           C == CONVERSION
           new == multiplyDecimalRoundPrecise(last, delta)
           d == DebtOfShare(s, e, last, total)
           dd == DebtOfShare(s, e, new, after)
           K == C * (P * (P * e))
           H == (C * P + P) * (P * e)
           F == P * e + e * s
           A == H + F * (total * C)
           B == H + F * (after * C)
           W == P * after + after * last
           G == W * (s * C)
           x == 2 * (last * (total * P))
           y == 2 * (new * (after * P))
           w == s * C
<1>1. P \in Nat /\ P > 0 /\ C \in Nat /\ C >= 10
  BY PreciseUnitNat, UnitAssumption
<1>2. new \in Nat /\ Within(y, x, W)
  BY LedgerFollowsPool
<1>3. d \in Nat /\ Within((2 * d) * K, x * w, A)
  BY DebtOfShareWithin
<1> HIDE DEF new
<1>4. dd \in Nat /\ Within((2 * dd) * K, y * w, B)
  BY <1>2, DebtOfShareWithin
<1>5. A + (G + B) < 4 * K
  <2> HIDE DEF P, C
  <2>1. /\ s <= 2 * P /\ s * last <= 2 * (e * P) /\ 10 * total <= P /\ 10 * after <= P
        /\ 2 * (s * after) <= P * e
    BY DEF P
  <2> QED BY <1>1, <2>1, RoundingsAreSmall
<1> HIDE DEF d, dd, P, C
<1>6. /\ K \in Nat /\ A \in Nat /\ B \in Nat /\ W \in Nat /\ w \in Nat
      /\ x \in Nat /\ y \in Nat
  BY <1>1, <1>2, MulNat
<1> HIDE DEF K, A, B, W, x, y, w
<1>7. /\ Within(y * w, x * w, W * w)
      /\ G \in Nat /\ y * w \in Nat /\ x * w \in Nat
      /\ (2 * d) * K \in Nat /\ (2 * dd) * K \in Nat
  BY <1>2, <1>3, <1>4, <1>6, MulNat, WithinProduct DEF w
<1>8. G = W * w
  BY DEF w
<1> HIDE DEF G
<1>9. Within((2 * d) * K, (2 * dd) * K, A + (G + B))
  BY <1>3, <1>4, <1>6, <1>7, <1>8 DEF Within
<1>10. ASSUME NEW i \in Nat, NEW j \in Nat, i * K \in Nat, (2 * i) * K < (2 * j) * K + 4 * K
       PROVE  i <= j + 1
  <2>1. CASE j + 2 <= i
    <3>1. (2 * (j + 2)) * K <= (2 * i) * K
      BY <1>6, <2>1, MulMonotone
    <3>2. (2 * (j + 2)) * K = (2 * j) * K + 4 * K
      BY <1>6
    <3>3. (2 * j) * K \in Nat /\ (2 * i) * K \in Nat
      BY <1>6, MulNat
    <3> QED BY <1>6, <1>10, <3>1, <3>2, <3>3
  <2> QED BY <2>1
<1>11. (2 * d) * K < (2 * dd) * K + 4 * K /\ (2 * dd) * K < (2 * d) * K + 4 * K
  <2> DEFINE u == (2 * d) * K
             v == (2 * dd) * K
             E == A + (G + B)
  <2>1. u \in Nat /\ v \in Nat /\ E \in Nat /\ E < 4 * K /\ Within(u, v, E)
    BY <1>5, <1>6, <1>7, <1>9
  <2> HIDE DEF u, v, E
  <2>2. u < v + 4 * K /\ v < u + 4 * K
    BY <1>6, <2>1 DEF Within
  <2> QED BY <2>2 DEF u, v
<1>12. d <= dd + 1 /\ dd <= d + 1
  BY <1>3, <1>4, <1>6, <1>10, <1>11, MulNat
<1> QED BY <1>12 DEF Within, d, dd, new
------------------------------------------------------------------------------
(* How far a liquidation goes.  Below U is the unit, r the target ratio, p the  *)
(* unit with the penalty, q their product and d what it leaves of the unit; R   *)
(* is the price of the collateral, S its amount, V its value and VV the value   *)
(* of what is left of it, k and mm the debts they allow, g what the debt is     *)
(* above k.                                                                     *)

\* What n units of collateral and the penalty, p with the unit, make of a value.
LEMMA RedeemedIsEnough ==
  ASSUME NEW U \in Nat, NEW p \in Nat, NEW R \in Nat, NEW S \in Nat, NEW rest \in Nat,
         NEW rd \in Nat, S = rest + rd, NEW V \in Nat, NEW VV \in Nat, NEW n \in Nat, NEW x \in Nat,
         2 * (S * R) <= 2 * (V * U) + U, 2 * (VV * U) <= 2 * (rest * R) + U,
         n * p <= rd * U + U, 2 * (x * U) <= 2 * (n * R) + R
  PROVE  2 * (VV * (U * U)) + 2 * (x * (U * p))
           <= 2 * (V * (U * U)) + 2 * (U * U) + R * p + 2 * (U * R)
<1> DEFINE a == n * (R * p)
           b == rd * (U * R)
           c == U * R
           d == x * (U * p)
           e == R * p
           f == S * (U * R)
           g == rest * (U * R)
           h == U * U
           i == V * (U * U)
           j == VV * (U * U)
<1>1. 2 * a <= 2 * b + 2 * c
  <2>1. (n * p) * (2 * R) <= (rd * U + U) * (2 * R)
    BY MulNat, MulMonotone
  <2>2. (n * p) * (2 * R) = 2 * a /\ (rd * U + U) * (2 * R) = 2 * b + 2 * c
    OBVIOUS
  <2> QED BY <2>1, <2>2
<1>2. 2 * d <= 2 * a + e
  <2>1. (2 * (x * U)) * p <= (2 * (n * R) + R) * p
    BY MulNat, MulMonotone
  <2>2. (2 * (x * U)) * p = 2 * d /\ (2 * (n * R) + R) * p = 2 * a + e
    OBVIOUS
  <2> QED BY <2>1, <2>2
<1>3. 2 * f <= 2 * i + h
  <2>1. (2 * (S * R)) * U <= (2 * (V * U) + U) * U
    BY MulNat, MulMonotone
  <2>2. (2 * (S * R)) * U = 2 * f /\ (2 * (V * U) + U) * U = 2 * i + h
    OBVIOUS
  <2> QED BY <2>1, <2>2
<1>4. 2 * j <= 2 * g + h
  <2>1. (2 * (VV * U)) * U <= (2 * (rest * R) + U) * U
    BY MulNat, MulMonotone
  <2>2. (2 * (VV * U)) * U = 2 * j /\ (2 * (rest * R) + U) * U = 2 * g + h
    OBVIOUS
  <2> QED BY <2>1, <2>2
<1>5. f = g + b
  OBVIOUS
<1>6. /\ a \in Nat /\ b \in Nat /\ c \in Nat /\ d \in Nat /\ e \in Nat /\ f \in Nat
      /\ g \in Nat /\ h \in Nat /\ i \in Nat /\ j \in Nat
  BY MulNat
<1> HIDE DEF a, b, c, d, e, f, g, h, i, j
<1>7. 2 * j + 2 * d <= 2 * i + 2 * h + e + 2 * c
  BY <1>1, <1>2, <1>3, <1>4, <1>5, <1>6
<1> QED BY <1>7 DEF c, d, e, h, i, j

\* What is left of the value of the collateral is as much over the target as what
\* is left of the debt: a liquidation of x does not go beyond the target ratio.
LEMMA TargetNotPassed ==
  ASSUME NEW U \in Nat, U > 0, NEW r \in Nat, r <= U, NEW p \in Nat, p * r <= U * U,
         NEW q \in Nat, q * U <= p * r, NEW d \in Nat, U = d + q, NEW R \in Nat,
         NEW V \in Nat, NEW VV \in Nat, NEW x \in Nat,
         NEW mm \in Nat, NEW k \in Nat, NEW g \in Nat,
         2 * (VV * (U * U)) + 2 * (x * (U * p))
           <= 2 * (V * (U * U)) + 2 * (U * U) + R * p + 2 * (U * R),
         mm * U <= VV * r, V * r <= k * U + U, x * d <= g * U
  PROVE  2 * (U * (mm + x)) <= 2 * (U * (k + g)) + 4 * U + 3 * R
<1> DEFINE UU == U * U
           W == U * UU
           A == (VV * r) * UU
           B == x * (U * (p * r))
           C == (V * r) * UU
           E == r * UU
           F == (p * r) * R
           G == r * (U * R)
           H == UU * R
           K == (k * U) * UU
           M == (mm * U) * UU
           X1 == (x * d) * UU
           X2 == (x * q) * UU
           X == (x * U) * UU
           GG == (g * U) * UU
<1>1. UU \in Nat /\ UU > 0
  <2>1. 1 * 1 <= U * 1 /\ U * 1 <= U * U
    BY MulMonotone
  <2> QED BY <2>1, MulNat
<1>2. 2 * A + 2 * B <= 2 * C + 2 * E + F + 2 * G
  <2>1. (2 * (VV * (U * U)) + 2 * (x * (U * p))) * r
          <= (2 * (V * (U * U)) + 2 * (U * U) + R * p + 2 * (U * R)) * r
    BY MulNat, MulMonotone
  <2>2. (2 * (VV * (U * U)) + 2 * (x * (U * p))) * r = 2 * A + 2 * B
    OBVIOUS
  <2>3. (2 * (V * (U * U)) + 2 * (U * U) + R * p + 2 * (U * R)) * r = 2 * C + 2 * E + F + 2 * G
    OBVIOUS
  <2> QED BY <2>1, <2>2, <2>3
<1>3. M <= A /\ C <= K + W
  <2>1. (mm * U) * UU <= (VV * r) * UU /\ (V * r) * UU <= (k * U + U) * UU
    BY <1>1, MulNat, MulMonotone
  <2>2. (k * U + U) * UU = K + W
    OBVIOUS
  <2> QED BY <2>1, <2>2
<1>4. E <= W /\ F <= H /\ G <= H
  <2>1. r * UU <= U * UU /\ (p * r) * R <= UU * R /\ r * (U * R) <= U * (U * R)
    BY <1>1, MulNat, MulMonotone
  <2>2. U * (U * R) = H
    OBVIOUS
  <2> QED BY <2>1, <2>2
<1>5. X = X1 + X2 /\ X1 <= GG /\ X2 <= B
  <2>1. (x * d) * UU <= (g * U) * UU
    BY <1>1, MulNat, MulMonotone
  <2>2. (q * U) * (x * U) <= (p * r) * (x * U)
    BY MulNat, MulMonotone
  <2>3. (q * U) * (x * U) = X2 /\ (p * r) * (x * U) = B
    OBVIOUS
  <2>4. X = X1 + X2
    <3> HIDE DEF UU
    <3>1. x * U = x * d + x * q
      OBVIOUS
    <3> QED BY <1>1, <3>1
  <2> QED BY <2>1, <2>2, <2>3, <2>4
<1>6. /\ W \in Nat /\ A \in Nat /\ B \in Nat /\ C \in Nat /\ E \in Nat /\ F \in Nat
      /\ G \in Nat /\ H \in Nat /\ K \in Nat /\ M \in Nat /\ X1 \in Nat /\ X2 \in Nat
      /\ X \in Nat /\ GG \in Nat
  BY <1>1, MulNat
<1>7. 2 * M + 2 * X <= 2 * K + 2 * GG + 4 * W + 3 * H
  <2> HIDE DEF W, A, B, C, E, F, G, H, K, M, X1, X2, X, GG
  <2> QED BY <1>2, <1>3, <1>4, <1>5, <1>6
<1>8. /\ (2 * (U * (mm + x))) * UU = 2 * M + 2 * X
      /\ (2 * (U * (k + g)) + 4 * U + 3 * R) * UU = 2 * K + 2 * GG + 4 * W + 3 * H
  <2> HIDE DEF UU
  <2> QED BY <1>1
<1>9. 2 * (U * (mm + x)) \in Nat /\ 2 * (U * (k + g)) + 4 * U + 3 * R \in Nat
  BY MulNat
<1> HIDE DEF UU, W, K, M, X, GG, H
<1> QED BY <1>1, <1>7, <1>8, <1>9, CommonFactor

\* What is redeemed is not more than it should be either.
LEMMA RedeemedIsNotTooMuch ==
  ASSUME NEW U \in Nat, NEW p \in Nat, NEW R \in Nat, NEW S \in Nat, NEW rest \in Nat,
         NEW rd \in Nat, S = rest + rd, NEW V \in Nat, NEW VV \in Nat, NEW n \in Nat, NEW x \in Nat,
         2 * (V * U) <= 2 * (S * R) + U, 2 * (rest * R) <= 2 * (VV * U) + U,
         rd * U <= n * p, 2 * (n * R) <= 2 * (x * U) + R
  PROVE  2 * (V * (U * U))
           <= 2 * (VV * (U * U)) + 2 * (x * (U * p)) + 2 * (U * U) + R * p
<1> DEFINE a == n * (R * p)
           b == rd * (U * R)
           d == x * (U * p)
           e == R * p
           f == S * (U * R)
           g == rest * (U * R)
           h == U * U
           i == V * (U * U)
           j == VV * (U * U)
<1>1. 2 * b <= 2 * a
  <2>1. (rd * U) * (2 * R) <= (n * p) * (2 * R)
    BY MulNat, MulMonotone
  <2>2. (n * p) * (2 * R) = 2 * a /\ (rd * U) * (2 * R) = 2 * b
    OBVIOUS
  <2> QED BY <2>1, <2>2
<1>2. 2 * a <= 2 * d + e
  <2>1. (2 * (n * R)) * p <= (2 * (x * U) + R) * p
    BY MulNat, MulMonotone
  <2>2. (2 * (x * U) + R) * p = 2 * d + e /\ (2 * (n * R)) * p = 2 * a
    OBVIOUS
  <2> QED BY <2>1, <2>2
<1>3. 2 * i <= 2 * f + h
  <2>1. (2 * (V * U)) * U <= (2 * (S * R) + U) * U
    BY MulNat, MulMonotone
  <2>2. (2 * (S * R) + U) * U = 2 * f + h /\ (2 * (V * U)) * U = 2 * i
    OBVIOUS
  <2> QED BY <2>1, <2>2
<1>4. 2 * g <= 2 * j + h
  <2>1. (2 * (rest * R)) * U <= (2 * (VV * U) + U) * U
    BY MulNat, MulMonotone
  <2>2. (2 * (VV * U) + U) * U = 2 * j + h /\ (2 * (rest * R)) * U = 2 * g
    OBVIOUS
  <2> QED BY <2>1, <2>2
<1>5. f = g + b
  OBVIOUS
<1>6. /\ a \in Nat /\ b \in Nat /\ d \in Nat /\ e \in Nat /\ f \in Nat
      /\ g \in Nat /\ h \in Nat /\ i \in Nat /\ j \in Nat
  BY MulNat
<1> HIDE DEF a, b, d, e, f, g, h, i, j
<1>7. 2 * i <= 2 * j + 2 * d + 2 * h + e
  BY <1>1, <1>2, <1>3, <1>4, <1>5, <1>6
<1> QED BY <1>7 DEF d, e, h, i, j

\* So a liquidation of all that the target asks for, x, leads to the target. The
\* divisor d is rounded: the larger x, the less exactly.
LEMMA TargetIsReached ==
  ASSUME NEW U \in Nat, U > 0, NEW r \in Nat, r <= U, NEW p \in Nat, p * r <= U * U,
         NEW q \in Nat, p * r <= q * U + U, NEW d \in Nat, U = d + q, NEW R \in Nat,
         NEW V \in Nat, NEW VV \in Nat, NEW x \in Nat,
         NEW mm \in Nat, NEW k \in Nat, NEW g \in Nat,
         2 * (V * (U * U))
           <= 2 * (VV * (U * U)) + 2 * (x * (U * p)) + 2 * (U * U) + R * p,
         VV * r <= mm * U + U, k * U <= V * r, g * U <= x * d + d
  PROVE  2 * (U * (k + g)) <= 2 * (U * (mm + x)) + 6 * U + R + 2 * x
<1> DEFINE UU == U * U
           W == U * UU
           A == (VV * r) * UU
           B == x * (U * (p * r))
           C == (V * r) * UU
           E == r * UU
           F == (p * r) * R
           H == UU * R
           K == (k * U) * UU
           M == (mm * U) * UU
           X1 == (x * d) * UU
           X2 == (x * q) * UU
           X == (x * U) * UU
           Y == x * UU
           GG == (g * U) * UU
<1>1. UU \in Nat /\ UU > 0
  <2>1. 1 * 1 <= U * 1 /\ U * 1 <= U * U
    BY MulMonotone
  <2> QED BY <2>1, MulNat
<1>2. 2 * C <= 2 * A + 2 * B + 2 * E + F
  <2>1. (2 * (V * (U * U))) * r
          <= (2 * (VV * (U * U)) + 2 * (x * (U * p)) + 2 * (U * U) + R * p) * r
    BY MulNat, MulMonotone
  <2>2. (2 * (VV * (U * U)) + 2 * (x * (U * p)) + 2 * (U * U) + R * p) * r
          = 2 * A + 2 * B + 2 * E + F
    OBVIOUS
  <2>3. (2 * (V * (U * U))) * r = 2 * C
    OBVIOUS
  <2> QED BY <2>1, <2>2, <2>3
<1>3. A <= M + W /\ K <= C
  <2>1. (VV * r) * UU <= (mm * U + U) * UU /\ (k * U) * UU <= (V * r) * UU
    BY <1>1, MulNat, MulMonotone
  <2>2. (mm * U + U) * UU = M + W
    OBVIOUS
  <2> QED BY <2>1, <2>2
<1>4. E <= W /\ F <= H
  BY <1>1, MulNat, MulMonotone
<1>5. X = X1 + X2 /\ GG <= X1 + W /\ B <= X2 + Y
  <2>1. (g * U) * UU <= (x * d + d) * UU /\ d * UU <= U * UU
    BY <1>1, MulNat, MulMonotone
  <2>2. (x * d + d) * UU = X1 + d * UU /\ d * UU \in Nat /\ X1 \in Nat
    <3> HIDE DEF UU
    <3> QED BY <1>1, MulNat
  <2>3. (p * r) * (x * U) <= (q * U + U) * (x * U)
    BY MulNat, MulMonotone
  <2>4. (q * U + U) * (x * U) = X2 + Y /\ (p * r) * (x * U) = B
    OBVIOUS
  <2>5. X = X1 + X2
    <3> HIDE DEF UU
    <3>1. x * U = x * d + x * q
      OBVIOUS
    <3> QED BY <1>1, <3>1
  <2>6. W \in Nat /\ GG \in Nat
    BY <1>1, MulNat
  <2>7. GG <= X1 + W
    <3> DEFINE Z == d * UU
    <3>1. GG <= X1 + Z /\ Z <= W /\ Z \in Nat
      BY <2>1, <2>2
    <3> HIDE DEF GG, X1, Z, W
    <3> QED BY <2>2, <2>6, <3>1
  <2> QED BY <2>3, <2>4, <2>5, <2>7
<1>6. /\ W \in Nat /\ A \in Nat /\ B \in Nat /\ C \in Nat /\ E \in Nat /\ F \in Nat
      /\ H \in Nat /\ K \in Nat /\ M \in Nat /\ X1 \in Nat /\ X2 \in Nat
      /\ X \in Nat /\ Y \in Nat /\ GG \in Nat
  BY <1>1, MulNat
<1>7. 2 * K + 2 * GG <= 2 * M + 2 * X + 6 * W + H + 2 * Y
  <2> HIDE DEF W, A, B, C, E, F, H, K, M, X1, X2, X, Y, GG
  <2> QED BY <1>2, <1>3, <1>4, <1>5, <1>6
<1>8. /\ (2 * (U * (k + g))) * UU = 2 * K + 2 * GG
      /\ (2 * (U * (mm + x)) + 6 * U + R + 2 * x) * UU = 2 * M + 2 * X + 6 * W + H + 2 * Y
  <2> HIDE DEF UU
  <2> QED BY <1>1
<1>9. 2 * (U * (mm + x)) + 6 * U + R + 2 * x \in Nat /\ 2 * (U * (k + g)) \in Nat
  BY MulNat
<1> HIDE DEF UU, W, K, M, X, Y, GG, H
<1> QED BY <1>1, <1>7, <1>8, <1>9, CommonFactor

\* What can be liquidated without reaching the target, D, is worth the collateral
\* but for the penalty, or more.
LEMMA CollateralIsShort ==
  ASSUME NEW U \in Nat, U > 0, NEW r \in Nat, r > 0, NEW p \in Nat,
         NEW q \in Nat, q * U <= p * r, NEW d \in Nat, U = d + q,
         NEW D \in Nat, NEW k \in Nat, NEW g \in Nat, D = k + g,
         NEW fix \in Nat, D < fix, fix * d <= g * U,
         NEW V \in Nat, V * r <= k * U + U
  PROVE  V * U <= D * p + p
<1>1. (D + 1) * d <= fix * d /\ (D + 1) * d = D * d + d
  BY MulMonotone
<1>2. /\ D * U = k * U + g * U /\ D * U = D * d + D * q
      /\ (D + 1) * q = D * q + q
  OBVIOUS
<1>3. /\ D * d \in Nat /\ D * q \in Nat /\ D * U \in Nat /\ k * U \in Nat /\ g * U \in Nat
      /\ fix * d \in Nat /\ V * r \in Nat
  BY MulNat
<1>4. V * r <= (D + 1) * q
  BY <1>1, <1>2, <1>3
<1>5. (V * r) * U <= ((D + 1) * q) * U
  BY <1>3, <1>4, MulNat, MulMonotone
<1>6. ((D + 1) * q) * U <= ((D + 1) * p) * r
  <2>1. (q * U) * (D + 1) <= (p * r) * (D + 1)
    BY MulNat, MulMonotone
  <2> QED BY <2>1
<1>7. (V * U) * r <= ((D + 1) * p) * r
  <2>1. (V * r) * U = (V * U) * r
    OBVIOUS
  <2>2. (V * r) * U \in Nat /\ ((D + 1) * q) * U \in Nat /\ ((D + 1) * p) * r \in Nat
    BY MulNat
  <2> QED BY <1>5, <1>6, <2>1, <2>2
<1>8. V * U <= (D + 1) * p
  BY <1>7, MulNat, CommonFactor
<1> QED BY <1>8

\* When all the collateral is sold for D, less the penalty, it is worth D and the
\* penalty; h is the collateral without the penalty.
LEMMA CollateralIsSold ==
  ASSUME NEW U \in Nat, NEW p \in Nat, NEW R \in Nat, NEW S \in Nat, NEW V \in Nat,
         NEW D \in Nat, NEW h \in Nat, h * p <= S * U, S * U <= h * p + p,
         2 * (D * U) <= 2 * (h * R) + U, 2 * (h * R) <= 2 * (D * U) + U,
         2 * (V * U) <= 2 * (S * R) + U, 2 * (S * R) <= 2 * (V * U) + U
  PROVE  /\ 2 * (D * (U * p)) <= 2 * (V * (U * U)) + U * U + U * p
         /\ 2 * (V * (U * U)) <= 2 * (D * (U * p)) + U * p + 2 * (R * p) + U * U
<1> DEFINE a == h * (R * p)
           b == S * (U * R)
           c == V * (U * U)
           d == D * (U * p)
           e == U * U
           f == U * p
           g == R * p
<1>1. a <= b /\ b <= a + g
  <2>1. (h * p) * R <= (S * U) * R /\ (S * U) * R <= (h * p + p) * R
    BY MulNat, MulMonotone
  <2>2. (h * p) * R = a /\ (S * U) * R = b /\ (h * p + p) * R = a + g
    OBVIOUS
  <2> QED BY <2>1, <2>2
<1>2. 2 * d <= 2 * a + f /\ 2 * a <= 2 * d + f
  <2>1. /\ (2 * (D * U)) * p <= (2 * (h * R) + U) * p
        /\ (2 * (h * R)) * p <= (2 * (D * U) + U) * p
    BY MulNat, MulMonotone
  <2>2. /\ (2 * (D * U)) * p = 2 * d /\ (2 * (h * R) + U) * p = 2 * a + f
        /\ (2 * (h * R)) * p = 2 * a /\ (2 * (D * U) + U) * p = 2 * d + f
    OBVIOUS
  <2> QED BY <2>1, <2>2
<1>3. 2 * c <= 2 * b + e /\ 2 * b <= 2 * c + e
  <2>1. /\ (2 * (V * U)) * U <= (2 * (S * R) + U) * U
        /\ (2 * (S * R)) * U <= (2 * (V * U) + U) * U
    BY MulNat, MulMonotone
  <2>2. /\ (2 * (V * U)) * U = 2 * c /\ (2 * (S * R) + U) * U = 2 * b + e
        /\ (2 * (S * R)) * U = 2 * b /\ (2 * (V * U) + U) * U = 2 * c + e
    OBVIOUS
  <2> QED BY <2>1, <2>2
<1>4. /\ a \in Nat /\ b \in Nat /\ c \in Nat /\ d \in Nat /\ e \in Nat /\ f \in Nat /\ g \in Nat
  BY MulNat
<1> HIDE DEF a, b, c, d, e, f, g
<1>5. 2 * d <= 2 * c + e + f /\ 2 * c <= 2 * d + f + 2 * g + e
  BY <1>1, <1>2, <1>3, <1>4
<1> QED BY <1>5 DEF c, d, e, f, g

\* The value V of the collateral against m, the debt with the penalty cut off to
\* a unit.
LEMMA ValueNearPenalised ==
  ASSUME NEW U \in Nat, U > 0, NEW p \in Nat, U <= p, NEW R \in Nat, NEW V \in Nat,
         NEW D \in Nat, NEW m \in Nat, m * U <= D * p, D * p <= m * U + U,
         NEW slack \in Nat,
         2 * (U * U) + 2 * (U * p) + 3 * (R * p) <= 2 * ((U * U) * slack),
         2 * (D * (U * p)) <= 2 * (V * (U * U)) + 2 * (U * p) + 3 * (R * p),
         2 * (V * (U * U)) <= 2 * (D * (U * p)) + 2 * (U * p) + 3 * (R * p)
  PROVE  V <= m + slack /\ m <= V + slack
<1> DEFINE e == U * U
           x == 2 * (U * p) + 3 * (R * p)
           d == D * (U * p)
<1>1. m * e <= d /\ d <= m * e + e
  <2>1. (m * U) * U <= (D * p) * U /\ (D * p) * U <= (m * U + U) * U
    BY MulNat, MulMonotone
  <2>2. (m * U) * U = m * e /\ (D * p) * U = d /\ (m * U + U) * U = m * e + e
    OBVIOUS
  <2> QED BY <2>1, <2>2
<1>2. e \in Nat /\ e > 0 /\ x \in Nat /\ d \in Nat
  <2>1. U * U > 0
    OBVIOUS
  <2> QED BY <2>1, MulNat
<1>3. 2 * e + x <= 2 * (e * slack) /\ 2 * d <= 2 * (V * e) + x /\ 2 * (V * e) <= 2 * d + x
  OBVIOUS
<1> HIDE DEF e, x, d
<1>4. e * slack \in Nat /\ V * e \in Nat /\ m * e \in Nat
  BY <1>2, MulNat
<1>5. V * e <= m * e + e * slack /\ m * e <= V * e + e * slack
  BY <1>1, <1>2, <1>3, <1>4
<1>6. V * e <= (m + slack) * e /\ m * e <= (V + slack) * e
  BY <1>2, <1>5
<1> QED BY <1>2, <1>6, CommonFactor
==============================================================================
