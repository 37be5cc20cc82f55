---------------------------- MODULE ExchangeRates ----------------------------
(***************************************************************************)
(* contracts/ExchangeRates.sol: prices in zUSD, read from aggregators that *)
(* keep every round they have reported.  rounds[k] is the aggregator of    *)
(* synth k, a sequence indexed by round id; zUSD has none.  What is read   *)
(* from it depends on the time of the call and, for validity, on the       *)
(* circuit breaker of k.  Oracle flags are left out: they only make calls  *)
(* fail that may as well not be made.                                      *)
(***************************************************************************)
EXTENDS Sequences, CircuitBreaker

CONSTANTS
  Synth,        \* currency keys
  zUSD,         \* the key of the synth that prices are in
  StalePeriod   \* rateStalePeriod

ASSUME RatesAssumption == zUSD \in Synth /\ StalePeriod \in Nat

Round == [rate : Nat, time : Nat \ {0}]

\* The keys among ks that have an aggregator.
Priced(ks) == ks \ {zUSD}

_getCurrentRoundId(rounds, k) == Len(rounds[k])

_getRateAndTimestampAtRound(rounds, k, roundId) ==
  CASE k = zUSD                 -> [rate |-> Unit, time |-> 0]
    [] k # zUSD /\ roundId \in DOMAIN rounds[k] -> rounds[k][roundId]
    [] OTHER                    -> [rate |-> 0, time |-> 0]

CurrentRound(rounds, k) ==
  _getRateAndTimestampAtRound(rounds, k, _getCurrentRoundId(rounds, k))

\* A slip: the round that is current when the question is asked.
LatestRoundId(rounds, k, startingRoundId, startingTimestamp, timediff) ==
  _getCurrentRoundId(rounds, k)

\* Starting from a round, the last one reported within timediff: the next one
\* does not exist or came later.
getLastRoundIdBeforeElapsedSecs(rounds, k, startingRoundId, startingTimestamp, timediff) ==
  LET stops(id) == LET next == _getRateAndTimestampAtRound(rounds, k, id + 1).time
                   IN  next = 0 \/ next > startingTimestamp + timediff
  IN  CHOOSE id \in startingRoundId .. (startingRoundId + Len(rounds[k])) :
        stops(id) /\ \A earlier \in startingRoundId .. (id - 1) : ~stops(earlier)

effectiveValueAtRound(rounds, src, amount, dest, roundIdForSrc, roundIdForDest) ==
  LET sourceRate == _getRateAndTimestampAtRound(rounds, src, roundIdForSrc).rate
      destinationRate == _getRateAndTimestampAtRound(rounds, dest, roundIdForDest).rate
      inUSD == multiplyDecimalRound(amount, sourceRate, Unit)
  IN  CASE src = dest                            -> amount
        [] src # dest /\ destinationRate > 0     -> divideDecimalRound(inUSD, destinationRate, Unit)
        [] OTHER                                 -> 0

effectiveValue(rounds, src, amount, dest) ==
  effectiveValueAtRound(rounds, src, amount, dest,
                        _getCurrentRoundId(rounds, src), _getCurrentRoundId(rounds, dest))

_rateIsStaleWithTime(time, now) == time + StalePeriod < now

\* rateWithSafetyChecks: the breaker of k after it was probed with the current
\* rate, and whether that rate is stale.
Probed(breaker, rounds, k, systemSuspended) ==
  probeCircuitBreaker(breaker[k], CurrentRound(rounds, k).rate, systemSuspended)

StaleNow(rounds, k, now) == _rateIsStaleWithTime(CurrentRound(rounds, k).time, now)

anyRateIsInvalidAtRound(rounds, breaker, roundId, now) ==
  \E k \in Priced(DOMAIN roundId) :
    LET round == _getRateAndTimestampAtRound(rounds, k, roundId[k])
    IN  _rateIsStaleWithTime(round.time, now) \/ isInvalid(breaker[k], round.rate)

\* ratesAndUpdatedTimeForCurrencyLastNRounds: the rates of a round and of those
\* before it, newest first; where there are no more, the array keeps its zeros.
LastRates(rounds, k, numRounds, roundId) ==
  [i \in 1 .. numRounds |-> _getRateAndTimestampAtRound(rounds, k, roundId - (i - 1)).rate]
=============================================================================
