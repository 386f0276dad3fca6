--------------------------- MODULE SafeDecimalMath ---------------------------
(***************************************************************************)
(* The fixed point library every contract computes with                    *)
(* (contracts/SafeDecimalMath.sol).  A decimal x stands for x / UNIT and a *)
(* precise decimal for x / PRECISE_UNIT.  The contracts use UNIT = 10^18   *)
(* and a conversion factor of 10^9; the specifications keep both as        *)
(* constants, multiples of ten because the code divides them by ten before *)
(* rounding.  Numbers are naturals: a subtraction that SafeMath would      *)
(* revert, or a division by zero, is a guard of the action that performs   *)
(* it, and uint256 overflow is out of reach of the amounts modelled.       *)
(***************************************************************************)
EXTENDS Naturals

CONSTANTS UNIT,      \* SafeDecimalMath.unit()
          CONVERSION \* UNIT_TO_HIGH_PRECISION_CONVERSION_FACTOR

ASSUME UnitAssumption ==
  /\ UNIT \in Nat \ {0}
  /\ UNIT % 10 = 0
  /\ CONVERSION \in Nat \ {0}
  /\ CONVERSION % 10 = 0

PRECISE_UNIT == UNIT * CONVERSION

\* Drop the last digit of a number that was computed times ten, rounding half up.
RoundedTenth(q) == (IF q % 10 >= 5 THEN q + 10 ELSE q) \div 10

multiplyDecimal(x, y) == (x * y) \div UNIT

multiplyDecimalRound(x, y) == RoundedTenth((x * y) \div (UNIT \div 10))

multiplyDecimalRoundPrecise(x, y) ==
  RoundedTenth((x * y) \div (PRECISE_UNIT \div 10))

\* The divisions are only evaluated where y > 0: the code reverts otherwise.
divideDecimal(x, y) == (x * UNIT) \div y

divideDecimalRound(x, y) == RoundedTenth((x * (UNIT * 10)) \div y)

divideDecimalRoundPrecise(x, y) == RoundedTenth((x * (PRECISE_UNIT * 10)) \div y)

decimalToPreciseDecimal(i) == i * CONVERSION

preciseDecimalToDecimal(i) == RoundedTenth(i \div (CONVERSION \div 10))
==============================================================================
