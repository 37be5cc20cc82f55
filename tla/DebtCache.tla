------------------------------ MODULE DebtCache ------------------------------
(***************************************************************************)
(* contracts/DebtCache.sol and BaseDebtCache.sol: the cached value of the  *)
(* debt that stakers owe.  The cache is a record; each function of the     *)
(* contract is an operator from the cache before a call to the cache after *)
(* it, next to the condition under which the call does not revert.  The    *)
(* callers (Issuer, Exchanger, keepers, the owner) are in DebtPool, and    *)
(* one transaction of theirs may call the cache several times.             *)
(***************************************************************************)
EXTENDS Integers, FiniteSets, Sums, SafeDecimalMath

CONSTANTS
  Synth,   \* currency keys
  zUSD,    \* the key of the synth debts are counted in
  Unit     \* 1.0, SafeDecimalMath.UNIT

ASSUME SynthAssumption == IsFiniteSet(Synth) /\ zUSD \in Synth
ASSUME UnitAssumption == Unit \in Nat \ {0}

Cache == [ debt      : Nat,              \* _cachedDebt
           synthDebt : [Synth -> Nat],   \* _cachedSynthDebt
           futures   : Nat,              \* _cachedSynthDebt[FUTURES_DEBT_KEY]
           excluded  : Nat,              \* _cachedSynthDebt[EXCLUDED_DEBT_KEY]
           invalid   : BOOLEAN ]         \* _cacheInvalid

NewCache == [ debt |-> 0, synthDebt |-> [k \in Synth |-> 0], futures |-> 0,
              excluded |-> 0, invalid |-> TRUE ]

-----------------------------------------------------------------------------
(* What the pool is worth now *)

\* _issuedSynthValues: the value of every synth at the given rates.
Values(supply, rate) ==
  [k \in Synth |-> multiplyDecimalRound(supply[k], rate[k], Unit)]

\* _totalNonSnxBackedDebt: what collateral and ether wrappers issued, and what
\* the wrappers recorded for the synths that are listed.
totalNonSnxBackedDebt(others, excludedIssued, rate, listed) ==
  others + SumOver(Values(excludedIssued, rate), listed)

currentDebt(values, futures, excluded, listed) ==
  floorsub(SumOver(values, listed) + futures, excluded)

-----------------------------------------------------------------------------
(* The mutative functions *)

takeDebtSnapshot(c, values, futures, excluded, listed, isInvalid) ==
  [ debt      |-> currentDebt(values, futures, excluded, listed),
    synthDebt |-> [k \in Synth |-> IF k \in listed THEN values[k] ELSE c.synthDebt[k]],
    futures   |-> futures,
    excluded  |-> excluded,
    invalid   |-> isInvalid ]

\* The debt follows the difference between the current and the cached values
\* of some synths (a key listed twice counts once: its second difference is 0).
\* The addition comes before the checked subtraction.
CanUpdateCachedSynthDebts(c, keys, values) ==
  c.debt + SumOver(values, keys) >= SumOver(c.synthDebt, keys)

\* A slip: invalid rates are ignored.
UpdateUnflagged(c, keys, values, anyRateIsInvalid) ==
  [c EXCEPT
     !.synthDebt = [k \in Synth |-> IF k \in keys THEN values[k] ELSE @[k]],
     !.debt      = @ + SumOver(values, keys) - SumOver(c.synthDebt, keys)]

_updateCachedSynthDebtsWithRates(c, keys, values, anyRateIsInvalid) ==
  [c EXCEPT
     !.synthDebt = [k \in Synth |-> IF k \in keys THEN values[k] ELSE @[k]],
     !.debt      = @ + SumOver(values, keys) - SumOver(c.synthDebt, keys),
     !.invalid   = @ \/ anyRateIsInvalid]

updateDebtCacheValidity(c, currentlyInvalid) == [c EXCEPT !.invalid = currentlyInvalid]

\* Both the entry of zUSD and the total move by a signed amount.
CanUpdateCachedsUSDDebt(c, amount) ==
  c.synthDebt[zUSD] + amount >= 0 /\ c.debt + amount >= 0

\* A slip: the total stays.
UpdateUSDEntryOnly(c, amount) == [c EXCEPT !.synthDebt[zUSD] = @ + amount]

updateCachedsUSDDebt(c, amount) ==
  [c EXCEPT !.synthDebt[zUSD] = @ + amount, !.debt = @ + amount]

purgeCachedSynthDebt(c, key) == [c EXCEPT !.synthDebt[key] = 0]

-----------------------------------------------------------------------------

\* By how much the cached total exceeds what its parts add up to: the entries
\* of the synths and of futures, less the excluded debt.
Gap(c) == (c.debt + c.excluded) - (SumOf(c.synthDebt) + c.futures)
=============================================================================
