------------------------------ MODULE DebtPool ------------------------------
(***************************************************************************)
(* The debt pool: the synths in circulation and the cache of their value.  *)
(* Issuer lists and removes synths, issues and burns them; Exchanger moves *)
(* value from one synth to another and settles past exchanges; wrappers,   *)
(* loans and futures issue synths that stakers do not owe.  Some of these  *)
(* tell DebtCache what they did, with a partial update; a snapshot reads   *)
(* everything anew.                                                        *)
(***************************************************************************)
EXTENDS DebtCache

CONSTANTS
  Reading,               \* what the oracle may give: a rate, and whether it is invalid
  FirstRate,             \* the rates at the start
  Amount,                \* amounts passed by callers
  Difference,            \* what a settlement adds to a balance, or takes from it
  FirstListed,           \* the synths listed at the start
  WrappedSynth,          \* synths with a wrapper
  SupplyCap,             \* bound on the supply of each synth
  DebtCap,               \* bound on the futures debt and on what a wrapper backs
  OthersCap,             \* bound on what loans and ether wrappers issued
  CacheCap               \* bound on the cached debt

ASSUME RateAssumption == /\ Reading \subseteq [rate : Nat, invalid : BOOLEAN]
                         /\ FirstRate \in [Synth -> Nat]
                         /\ FirstRate[zUSD] = Unit
ASSUME PoolAmountAssumption == Amount \subseteq Nat \ {0} /\ Difference \subseteq Int
ASSUME ListingAssumption == /\ FirstListed \subseteq Synth
                            /\ zUSD \in FirstListed
                            /\ WrappedSynth \subseteq Synth
ASSUME PoolCapAssumption == /\ SupplyCap \in [Synth -> Nat]
                            /\ {DebtCap, OthersCap, CacheCap} \subseteq Nat

VARIABLES
  listed,          \* Issuer.availableSynths
  supply,          \* totalSupply of each synth token, listed or not
  rate,            \* ExchangeRates: the rate of each synth
  rateInvalid,     \* stale, flagged or broken rates
  futuresDebt,     \* FuturesMarketManager.totalDebt
  othersDebt,      \* CollateralManager.totalLong + totalShort, and EtherWrapper's
  excludedIssued,  \* DebtCache._excludedIssuedDebt, recorded by wrappers
  imported,        \* DebtCache.isInitialized
  redemptions,     \* SynthRedeemer: the rate at which each synth was removed, or 0
  cache,           \* the DebtCache contract
  entries,         \* synths some account has unsettled exchanges into
  owing,           \* those of them whose settlement may not come out even,
                   \* because a price has moved since
  undisturbed      \* history: since the last snapshot, which was not cut off at
                   \* zero, nothing happened that the cache is not told exactly:
                   \* no price or debt of others moved, no synth but zUSD was
                   \* bridged, no exchange ended after settling its source, no
                   \* synth that was removed and listed again was redeemed

world == <<rate, rateInvalid, futuresDebt, othersDebt, redemptions>>
settling == <<entries, owing>>
vars == <<listed, supply, rate, rateInvalid, futuresDebt, othersDebt,
          excludedIssued, imported, redemptions, cache, entries, owing, undisturbed>>

values == Values(supply, rate)

excludedDebt == totalNonSnxBackedDebt(othersDebt, excludedIssued, rate, listed)

AnyRateInvalid(keys) == \E k \in keys : rateInvalid[k]

\* The supply after n more (n < 0: less) of synth k, and when there is one.
Moved(s, k, n) == [s EXCEPT ![k] = @ + n]
Fits(s) == \A k \in Synth : s[k] \in 0 .. SupplyCap[k]

\* The bound on what callers may add to the cached debt of zUSD.
Bounded(c) == c.debt <= CacheCap /\ c.synthDebt[zUSD] <= CacheCap

-----------------------------------------------------------------------------

Init ==
  /\ listed = FirstListed
  /\ supply = [k \in Synth |-> 0]
  /\ rate = FirstRate
  /\ rateInvalid = [k \in Synth |-> FALSE]
  /\ futuresDebt = 0
  /\ othersDebt = 0
  /\ excludedIssued = [k \in Synth |-> 0]
  /\ imported = FALSE
  /\ redemptions = [k \in Synth |-> 0]
  /\ cache = NewCache
  /\ entries = {}
  /\ owing = {}
  /\ undisturbed = TRUE

-----------------------------------------------------------------------------
(* Keepers and the owner *)

\* Anyone while the system is active, the owner always.  The rates of futures
\* and of collateral may be invalid on their own.
TakeDebtSnapshot(othersInvalid) ==
  /\ cache' = takeDebtSnapshot(cache, values, futuresDebt, excludedDebt, listed,
                               AnyRateInvalid(listed) \/ othersInvalid)
  /\ undisturbed' = (SumOver(values, listed) + futuresDebt >= excludedDebt)
  /\ UNCHANGED <<listed, supply, world, settling, excludedIssued, imported>>

UpdateCachedSynthDebts(keys) ==
  /\ keys \subseteq listed
  /\ CanUpdateCachedSynthDebts(cache, keys, values)
  /\ cache' = _updateCachedSynthDebtsWithRates(cache, keys, values, AnyRateInvalid(keys))
  /\ UNCHANGED <<listed, supply, world, settling, excludedIssued, imported, undisturbed>>

\* A slip: also of a synth that is listed.
PurgeAnySynthDebt(key) ==
  /\ cache' = purgeCachedSynthDebt(cache, key)
  /\ UNCHANGED <<listed, supply, world, settling, excludedIssued, imported, undisturbed>>

PurgeCachedSynthDebt(key) ==
  /\ key \notin listed
  /\ cache' = purgeCachedSynthDebt(cache, key)
  /\ UNCHANGED <<listed, supply, world, settling, excludedIssued, imported, undisturbed>>

\* Once, the records of the previous cache are added to this one's.
importExcludedIssuedDebts(debts) ==
  /\ ~imported
  /\ imported' = TRUE
  /\ excludedIssued' =
       [k \in Synth |-> excludedIssued[k] + (IF k \in WrappedSynth THEN debts[k] ELSE 0)]
  /\ \A k \in Synth : excludedIssued'[k] <= DebtCap
  /\ undisturbed' = FALSE
  /\ UNCHANGED <<listed, supply, world, settling, cache>>

-----------------------------------------------------------------------------
(* Issuer *)

addSynths(keys) ==
  /\ keys # {} /\ keys \cap listed = {}
  /\ listed' = listed \cup keys
  /\ cache' = updateDebtCacheValidity(cache, TRUE)
  /\ UNCHANGED <<supply, world, settling, excludedIssued, imported, undisturbed>>

\* The cached debts of the synths become zero, the cache is invalidated, and
\* zUSD worth their supplies are issued to SynthRedeemer, in one transaction.
\* SynthRedeemer refuses a synth in circulation that it was given before.
removeSynths(keys) ==
  /\ keys # {} /\ keys \subseteq listed \ {zUSD}
  /\ \A k \in keys : supply[k] > 0 => rate[k] > 0 /\ redemptions[k] = 0
  /\ LET nothing  == [k \in Synth |-> 0]
         cleared  == updateDebtCacheValidity(
                       _updateCachedSynthDebtsWithRates(cache, keys, nothing, FALSE), TRUE)
         redeemed == SumOver(values, keys)
     IN  /\ CanUpdateCachedSynthDebts(cache, keys, nothing)
         /\ supply' = Moved(supply, zUSD, redeemed)
         /\ cache' = updateCachedsUSDDebt(cleared, redeemed)
         /\ Bounded(cache')
  /\ Fits(supply')
  /\ listed' = listed \ keys
  /\ redemptions' = [k \in Synth |-> IF k \in keys /\ supply[k] > 0
                                       THEN rate[k] ELSE redemptions[k]]
  /\ UNCHANGED <<rate, rateInvalid, futuresDebt, othersDebt, settling, excludedIssued,
                 imported, undisturbed>>

\* SynthRedeemer burns a synth that was once removed against zUSD it holds.  It
\* does not ask whether the synth has been listed again since, and tells the
\* cache nothing.
burnForRedemption(k, amount) ==
  /\ redemptions[k] > 0
  /\ multiplyDecimal(amount, redemptions[k], Unit) <= supply[zUSD]
  /\ supply' = Moved(supply, k, -amount)
  /\ Fits(supply')
  /\ undisturbed' = (undisturbed /\ k \notin listed)
  /\ UNCHANGED <<listed, world, settling, excludedIssued, imported, cache>>

issueSynths(amount) ==
  /\ supply' = Moved(supply, zUSD, amount)
  /\ Fits(supply')
  /\ cache' = updateCachedsUSDDebt(cache, amount)
  /\ Bounded(cache')
  /\ UNCHANGED <<listed, world, settling, excludedIssued, imported, undisturbed>>

\* Bridges and FeePool: the value goes to the entry of zUSD.
issueSynthsWithoutDebt(k, amount) ==
  /\ k \in listed
  /\ supply' = Moved(supply, k, amount)
  /\ Fits(supply')
  /\ cache' = updateCachedsUSDDebt(cache, multiplyDecimal(amount, rate[k], Unit))
  /\ Bounded(cache')
  /\ undisturbed' = (undisturbed /\ k = zUSD)
  /\ UNCHANGED <<listed, world, settling, excludedIssued, imported>>

-----------------------------------------------------------------------------
(* Exchanger *)

\* ExchangeSettlementLib.internalSettle with updateCache: what past exchanges
\* into k owe is burnt or issued, and the cached debt of k brought up to date.
CanOwe(k, difference) == k \in owing \/ difference = 0
SettledSupply(k, difference) == Moved(supply, k, difference)
SettledCacheUntold(k, difference) == cache  \* a slip: the cache is not told
SettledCache(k, difference) ==
  IF difference = 0 THEN cache
    ELSE _updateCachedSynthDebtsWithRates(cache, {k},
           Values(SettledSupply(k, difference), rate), rateInvalid[k])
CanSettle(k, difference) ==
  /\ k \in listed
  /\ CanOwe(k, difference)
  /\ Fits(SettledSupply(k, difference))
  /\ difference # 0 =>
       CanUpdateCachedSynthDebts(cache, {k}, Values(SettledSupply(k, difference), rate))

settle(k, difference) ==
  /\ CanSettle(k, difference)
  /\ supply' = SettledSupply(k, difference)
  /\ cache' = SettledCache(k, difference)
  /\ UNCHANGED <<listed, world, settling, excludedIssued, imported, undisturbed>>

\* The source is settled without a cache update, paid is burnt, received is
\* issued, the fee is issued in zUSD; then the cache is told about the source,
\* the destination and zUSD.  The rates of both were checked before.
exchange(source, dest, difference, paid, received, fee) ==
  /\ {source, dest} \subseteq listed /\ source # dest
  /\ ~AnyRateInvalid({source, dest})
  /\ CanOwe(source, difference)
  /\ LET settled == SettledSupply(source, difference)
         burnt   == Moved(settled, source, -paid)
         issued  == Moved(burnt, dest, received)
     IN  /\ Fits(settled) /\ Fits(burnt)
         /\ supply' = Moved(issued, zUSD, fee)
  /\ Fits(supply')
  /\ LET keys  == {source, dest, zUSD}
         after == Values(supply', rate)
     IN  /\ CanUpdateCachedSynthDebts(cache, keys, after)
         /\ cache' = _updateCachedSynthDebtsWithRates(cache, keys, after, FALSE)
  /\ entries' = entries \cup {dest}
  /\ UNCHANGED <<listed, world, owing, excludedIssued, imported, undisturbed>>

\* After the settlement nothing is left to exchange, or the rates have become
\* too volatile: the call returns, and the settlement stays.
exchangeAborted(source, dest, difference) ==
  /\ {source, dest} \subseteq listed /\ source # dest
  /\ ~AnyRateInvalid({source, dest})
  /\ CanOwe(source, difference)
  /\ supply' = SettledSupply(source, difference)
  /\ Fits(supply')
  /\ undisturbed' = (undisturbed /\ difference = 0)
  /\ UNCHANGED <<listed, world, settling, excludedIssued, imported, cache>>

-----------------------------------------------------------------------------
(* Issuer's burns, which settle first *)

\* Voluntary burning of zUSD against debt (difference 0: burning to target).
burnSynths(difference, amount) ==
  /\ CanSettle(zUSD, difference)
  /\ supply' = Moved(SettledSupply(zUSD, difference), zUSD, -amount)
  /\ Fits(supply')
  /\ CanUpdateCachedsUSDDebt(SettledCache(zUSD, difference), -amount)
  /\ cache' = updateCachedsUSDDebt(SettledCache(zUSD, difference), -amount)
  /\ UNCHANGED <<listed, world, settling, excludedIssued, imported, undisturbed>>

burnSynthsWithoutDebt(k, difference, amount) ==
  /\ CanSettle(k, difference)
  /\ supply' = Moved(SettledSupply(k, difference), k, -amount)
  /\ Fits(supply')
  /\ LET settled == SettledCache(k, difference)
         value   == multiplyDecimal(amount, rate[k], Unit)
     IN  /\ CanUpdateCachedsUSDDebt(settled, -value)
         /\ cache' = updateCachedsUSDDebt(settled, -value)
  /\ undisturbed' = (undisturbed /\ k = zUSD)
  /\ UNCHANGED <<listed, world, settling, excludedIssued, imported>>

\* zUSD held by the old CollateralShort are burnt; the cache is not told.
upgradeCollateralShort(difference, amount) ==
  /\ CanSettle(zUSD, difference)
  /\ supply' = Moved(SettledSupply(zUSD, difference), zUSD, -amount)
  /\ Fits(supply')
  /\ cache' = SettledCache(zUSD, difference)
  /\ undisturbed' = FALSE
  /\ UNCHANGED <<listed, world, settling, excludedIssued, imported>>

-----------------------------------------------------------------------------
(* The rest of the system *)

\* A wrapper issues or burns its synth, issues its fee in zUSD, and records
\* what it now backs as excluded; the owner may record a change alone.
recordExcludedDebtChange(k, delta, difference, fee) ==
  /\ excludedIssued[k] + delta \in 0 .. DebtCap
  /\ excludedIssued' = [excludedIssued EXCEPT ![k] = @ + delta]
  /\ supply' = Moved(Moved(supply, k, difference), zUSD, fee)
  /\ Fits(Moved(supply, k, difference)) /\ Fits(supply')
  /\ undisturbed' = FALSE
  /\ UNCHANGED <<listed, world, settling, imported, cache>>

\* Loans, ether wrappers and futures markets issue or burn synths themselves.
othersIssue(futures, others, k, difference) ==
  /\ supply' = Moved(supply, k, difference)
  /\ Fits(supply')
  /\ futuresDebt' = futures
  /\ othersDebt' = others
  /\ undisturbed' = FALSE
  /\ UNCHANGED <<listed, rate, rateInvalid, redemptions, settling, excludedIssued, imported,
                 cache>>

\* The oracle: the rate of zUSD is 1.0 and always valid.
priceMoves(k, reading) ==
  /\ k # zUSD
  /\ rate' = [rate EXCEPT ![k] = reading.rate]
  /\ rateInvalid' = [rateInvalid EXCEPT ![k] = reading.invalid]
  /\ undisturbed' = (undisturbed /\ rate' = rate)
  /\ owing' = IF rate' = rate THEN owing ELSE entries
  /\ UNCHANGED <<listed, supply, futuresDebt, othersDebt, redemptions, excludedIssued,
                 imported, cache, entries>>

Next ==
  \/ \E b \in BOOLEAN : TakeDebtSnapshot(b)
  \/ \E keys \in SUBSET Synth : \/ UpdateCachedSynthDebts(keys)
                                \/ addSynths(keys)
                                \/ removeSynths(keys)
  \/ \E k \in Synth : PurgeCachedSynthDebt(k)
  \/ \E debts \in [WrappedSynth -> 0 .. DebtCap] : importExcludedIssuedDebts(debts)
  \/ \E amount \in Amount : issueSynths(amount)
  \/ \E k \in Synth, amount \in Amount : \/ issueSynthsWithoutDebt(k, amount)
                                         \/ burnForRedemption(k, amount)
  \/ \E difference \in Difference, amount \in Amount :
       \/ burnSynths(difference, amount)
       \/ upgradeCollateralShort(difference, amount)
       \/ \E k \in Synth : burnSynthsWithoutDebt(k, difference, amount)
  \/ \E k \in Synth, difference \in Difference : settle(k, difference)
  \/ \E source, dest \in Synth, difference \in Difference :
       exchangeAborted(source, dest, difference)
  \/ \E k \in WrappedSynth, delta, difference \in Difference, fee \in Amount \cup {0} :
       recordExcludedDebtChange(k, delta, difference, fee)
  \/ \E source, dest \in Synth, difference \in Difference,
        paid, received \in Amount, fee \in Amount \cup {0} :
       exchange(source, dest, difference, paid, received, fee)
  \/ \E futures \in 0 .. DebtCap, others \in 0 .. OthersCap,
        k \in Synth, difference \in Difference :
       othersIssue(futures, others, k, difference)
  \/ \E k \in Synth, reading \in Reading : priceMoves(k, reading)

Spec == Init /\ [][Next]_vars

-----------------------------------------------------------------------------
(* Properties *)

(* Every variable has the type the contracts declare; the rate of zUSD is  *)
(* 1.0 and valid, and zUSD is never removed.                               *)
TypeOK ==
  /\ listed \subseteq Synth /\ zUSD \in listed
  /\ supply \in [Synth -> Nat] /\ Fits(supply)
  /\ rate \in [Synth -> Nat] /\ rate[zUSD] = Unit
  /\ rateInvalid \in [Synth -> BOOLEAN] /\ ~rateInvalid[zUSD]
  /\ futuresDebt \in 0 .. DebtCap /\ othersDebt \in 0 .. OthersCap
  /\ excludedIssued \in [Synth -> 0 .. DebtCap]
  /\ imported \in BOOLEAN /\ undisturbed \in BOOLEAN
  /\ redemptions \in [Synth -> Nat]
  /\ cache \in Cache
  /\ entries \subseteq Synth /\ owing \subseteq entries

(* The cached debt is never less than its parts: it exceeds them only by   *)
(* what the last snapshot cut off at zero.                                 *)
CachedDebtCoversParts == Gap(cache) >= 0

(* No partial update makes the cached total drift from its parts, in       *)
(* whatever order issuing, burning, exchanges, settlements, removals and   *)
(* purges come: only a snapshot resets the difference.                     *)
PartialUpdatesKeepGap ==
  [][\/ cache' = cache
    \/ Gap(cache') = Gap(cache)
    \/ \E b \in BOOLEAN : TakeDebtSnapshot(b)]_vars

(* A synth that is not listed has no cached debt: what listing it again    *)
(* guards against, and purgeCachedSynthDebt is there for, does not happen. *)
UnlistedHaveNoCachedDebt == \A k \in Synth \ listed : cache.synthDebt[k] = 0

(* No debt and no supply is ever negative; the cached total counts every   *)
(* part, and no part that is no synth's.                                   *)
CachedDebtSound == TypeOK /\ CachedDebtCoversParts /\ UnlistedHaveNoCachedDebt

\* A bridge, or FeePool, issues or burns synth k.
Bridged(k) ==
  \E amount \in Amount :
    \/ issueSynthsWithoutDebt(k, amount)
    \/ \E difference \in Difference : burnSynthsWithoutDebt(k, difference, amount)

(* A cache that says it is valid was not told an invalid price, though     *)
(* most callers pass a constant FALSE.  While the rate of a synth is       *)
(* invalid, a step that caches a new value of it leaves the cache marked   *)
(* invalid; and so does one that moves its supply, or removes it, and      *)
(* changes anything in the cache: no other entry, nor the total, takes in  *)
(* value at the invalid rate.  The exception is bridging: what is bridged  *)
(* of the synth is booked under zUSD at whatever rate there is             *)
(* (Issuer.sol:574-575, 595-596) and the cache is not marked.  Only a      *)
(* snapshot with every rate valid makes an invalid cache valid.            *)
InvalidPricesFlagged ==
  \A k \in Synth : rateInvalid[k] /\ ~cache'.invalid =>
    /\ cache'.synthDebt[k] = cache.synthDebt[k]
    /\ \/ supply'[k] = supply[k] /\ (k \in listed => k \in listed')
       \/ cache' = cache
       \/ Bridged(k)
OnlySnapshotRevalidates ==
  cache.invalid /\ ~cache'.invalid => TakeDebtSnapshot(FALSE) /\ ~AnyRateInvalid(listed)
ValidityIsHonest == [][InvalidPricesFlagged /\ OnlySnapshotRevalidates]_vars

(* As long as no price moves and no other debt changes, partial updates    *)
(* keep a valid cache exact: it equals the debt a snapshot would find. Not *)
(* so once another synth than zUSD is bridged, whose value is booked under *)
(* zUSD (Issuer.sol:575), an exchange returns after settling, or a synth   *)
(* that was removed and listed again is redeemed (Issuer.sol:670).         *)
CacheExactWhileUndisturbed ==
  undisturbed /\ ~cache.invalid =>
    cache.debt = currentDebt(values, futuresDebt, excludedDebt, listed)
=============================================================================
