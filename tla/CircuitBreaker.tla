--------------------------- MODULE CircuitBreaker ---------------------------
(***************************************************************************)
(* contracts/CircuitBreaker.sol: for one oracle, the last value it was     *)
(* probed with and whether its circuit is broken.  Each function is an     *)
(* operator from the record before a call to the record after it; who      *)
(* probes, and what a broken circuit stops, is in the callers.             *)
(***************************************************************************)
EXTENDS SafeDecimalMath

CONSTANTS
  Unit,    \* 1.0
  Factor   \* priceDeviationThresholdFactor, a decimal

ASSUME UnitAssumption == Unit \in Nat \ {0}
ASSUME FactorAssumption == Factor \in Nat

Breaker == [lastValue : Nat, broken : BOOLEAN]

\* An oracle that was never probed.
NewBreaker == [lastValue |-> 0, broken |-> FALSE]

_isDeviationAboveThreshold(base, comparison) ==
  \/ base = 0
  \/ comparison = 0
  \/ divideDecimal(base, comparison, Unit) >= Factor
  \/ divideDecimal(comparison, base, Unit) >= Factor

\* Nothing is out of bounds before there is a value to compare with.
_isRateOutOfBounds(b, current) ==
  b.lastValue > 0 /\ _isDeviationAboveThreshold(b.lastValue, current)

isInvalid(b, value) == b.broken \/ _isRateOutOfBounds(b, value) \/ value = 0

\* A slip: a value within bounds mends the circuit.
ProbeMending(b, value, systemSuspended) ==
  [ lastValue |-> value,
    broken    |-> (value = 0 \/ _isRateOutOfBounds(b, value)) /\ ~systemSuspended ]

\* The value is stored whatever the outcome, during a suspension as well.
probeCircuitBreaker(b, value, systemSuspended) ==
  [ lastValue |-> value,
    broken    |-> \/ b.broken
                  \/ (value = 0 \/ _isRateOutOfBounds(b, value)) /\ ~systemSuspended ]

resetLastValue(value) == [lastValue |-> value, broken |-> FALSE]
=============================================================================
