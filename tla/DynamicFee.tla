----------------------------- MODULE DynamicFee -----------------------------
(***************************************************************************)
(* The fee rate of an exchange (contracts/Exchanger.sol, SIP-184): a base  *)
(* rate per synth, and a dynamic part that follows how much its price has  *)
(* moved over the last rounds, each round weighing less than the next.     *)
(* Above a maximum the exchange is too volatile to take place.             *)
(***************************************************************************)
EXTENDS ExchangeRates

CONSTANTS
  ExchangeFeeRate,       \* exchangeFeeRate of each synth
  MaxDynamicFee,         \* exchangeMaxDynamicFee
  DynamicFeeRounds,      \* exchangeDynamicFeeRounds
  DynamicFeeThreshold,   \* exchangeDynamicFeeThreshold
  WeightDecay            \* exchangeDynamicFeeWeightDecay

ASSUME FeeAssumption ==
  /\ ExchangeFeeRate \in [Synth -> Nat]
  /\ {MaxDynamicFee, DynamicFeeRounds, DynamicFeeThreshold, WeightDecay} \subseteq Nat

_thresholdedAbsDeviationRatio(price, previousPrice) ==
  LET absDelta == IF price > previousPrice THEN price - previousPrice ELSE previousPrice - price
  IN  IF previousPrice = 0 THEN 0
      ELSE floorsub(divideDecimal(absDelta, previousPrice, Unit), DynamicFeeThreshold)

\* prices[1] is the newest.  feeSince[i] is the fee for what happened from the
\* i-th price back.
_dynamicFeeCalculation(prices) ==
  LET feeSince[i \in 1 .. Len(prices)] ==
        IF i = Len(prices) THEN 0
        ELSE multiplyDecimal(feeSince[i + 1], WeightDecay, Unit)
             + _thresholdedAbsDeviationRatio(prices[i], prices[i + 1])
  IN  IF prices = <<>> THEN 0 ELSE feeSince[1]

Capped(fee) == [rate |-> IF fee > MaxDynamicFee THEN MaxDynamicFee ELSE fee,
                tooVolatile |-> fee > MaxDynamicFee]

_dynamicFeeRateForCurrencyRound(rounds, k, roundId) ==
  IF k = zUSD \/ DynamicFeeRounds <= 1
  THEN [rate |-> 0, tooVolatile |-> FALSE]
  ELSE Capped(_dynamicFeeCalculation(LastRates(rounds, k, DynamicFeeRounds, roundId)))

\* roundId 0 stands for the current round in LastRates; exchanges pass the
\* round they read, which exists.
_feeRateForExchangeAtRounds(rounds, src, dest, roundIdForSrc, roundIdForDest) ==
  LET forSrc  == _dynamicFeeRateForCurrencyRound(rounds, src, roundIdForSrc)
      forDest == _dynamicFeeRateForCurrencyRound(rounds, dest, roundIdForDest)
      both    == Capped(forDest.rate + forSrc.rate)
  IN  [ rate        |-> ExchangeFeeRate[src] + ExchangeFeeRate[dest] + both.rate,
        tooVolatile |-> both.tooVolatile \/ forSrc.tooVolatile \/ forDest.tooVolatile ]
=============================================================================
