-------------------------- MODULE SafeDecimalMath --------------------------
(***************************************************************************)
(* contracts/SafeDecimalMath.sol: fixed-point decimals.  The number that   *)
(* stands for 1.0 (UNIT, 10^18, or PRECISE_UNIT, 10^27) is a parameter, so *)
(* that small instances round as the contracts do.  Rounding is half up:   *)
(* the code keeps one more decimal digit and looks at it.                  *)
(***************************************************************************)
EXTENDS Integers

multiplyDecimal(x, y, unit) == (x * y) \div unit

multiplyDecimalRound(x, y, unit) == (2 * (x * y) + unit) \div (2 * unit)

divideDecimal(x, y, unit) == (x * unit) \div y

divideDecimalRound(x, y, unit) == (2 * (x * unit) + y) \div (2 * y)

floorsub(a, b) == IF b >= a THEN 0 ELSE a - b
=============================================================================
