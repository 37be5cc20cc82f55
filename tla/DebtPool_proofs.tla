--------------------------- MODULE DebtPool_proofs ---------------------------
(***************************************************************************)
(* Theorems about DebtPool, for every finite set of synths and every rate. *)
(* First what each function of DebtCache does to the gap between the       *)
(* cached total and its parts, then the actions that call them.            *)
(***************************************************************************)
EXTENDS DebtPool, Arithmetic_proofs

(* The values of the synths are naturals.                                  *)
LEMMA ValuesType ==
  ASSUME NEW s \in [Synth -> Nat], NEW r \in [Synth -> Nat]
  PROVE  Values(s, r) \in [Synth -> Nat]
BY MultiplyDecimalRoundType, UnitAssumption DEF Values

(* The value of zUSD is its supply.                                        *)
LEMMA ValueOfzUSD ==
  ASSUME NEW s \in [Synth -> Nat], NEW r \in [Synth -> Nat], r[zUSD] = Unit
  PROVE  Values(s, r)[zUSD] = s[zUSD]
BY MultiplyByUnit, UnitAssumption, SynthAssumption DEF Values

(* A new cache has no gap.                                                 *)
LEMMA NewCacheHasNoGap ==
  NewCache \in Cache /\ Gap(NewCache) = 0 /\ SumOf(NewCache.synthDebt) = 0
<1> DEFINE zero == [k \in Synth |-> 0]
<1>1. zero \in [Synth -> Nat] /\ \A k \in Synth : zero[k] = 0
  OBVIOUS
<1>2. SumOf(zero) = 0
  BY <1>1, SumOfZero
<1>3. QED
  BY <1>2 DEF NewCache, Cache, Gap

\* d is c after a partial update, whatever becomes of the validity.
Updated(c, keys, v, d) ==
  /\ d = [ debt      |-> c.debt + SumOver(v, keys) - SumOver(c.synthDebt, keys),
           synthDebt |-> [k \in Synth |-> IF k \in keys THEN v[k] ELSE c.synthDebt[k]],
           futures   |-> c.futures,
           excluded  |-> c.excluded,
           invalid   |-> d.invalid ]
  /\ d.invalid \in BOOLEAN

LEMMA UpdateUpdates ==
  ASSUME NEW c \in Cache, NEW keys, NEW v, NEW b \in BOOLEAN,
         NEW d, d = _updateCachedSynthDebtsWithRates(c, keys, v, b)
  PROVE  Updated(c, keys, v, d) /\ d.invalid = (c.invalid \/ b)
BY DEF _updateCachedSynthDebtsWithRates, Cache, Updated

(* A partial update keeps the gap, and writes the entries it was given.    *)
LEMMA UpdateKeepsGap ==
  ASSUME NEW c \in Cache, NEW keys \in SUBSET Synth, NEW v \in [Synth -> Nat],
         CanUpdateCachedSynthDebts(c, keys, v), NEW d, Updated(c, keys, v, d)
  PROVE  /\ d \in Cache
         /\ Gap(d) = Gap(c)
         /\ d.futures = c.futures /\ d.excluded = c.excluded
         /\ \A k \in Synth : d.synthDebt[k] = IF k \in keys THEN v[k] ELSE c.synthDebt[k]
<1> DEFINE e == [k \in Synth |-> IF k \in keys THEN v[k] ELSE c.synthDebt[k]]
           old == c.synthDebt
<1>1. /\ c.debt \in Nat /\ old \in [Synth -> Nat] /\ c.futures \in Nat
      /\ c.excluded \in Nat
  BY DEF Cache
<1>2. e \in [Synth -> Nat] /\ IsFiniteSet(Synth)
  BY <1>1, SynthAssumption
<1>3. SumOver(e, Synth) = SumOver(e, keys) + SumOver(e, Synth \ keys)
  BY <1>2, SumOverPart
<1>4. SumOver(old, Synth) = SumOver(old, keys) + SumOver(old, Synth \ keys)
  BY <1>1, <1>2, SumOverPart
<1>5. SumOver(e, keys) = SumOver(v, keys)
  BY SumOverAgree
<1>6. SumOver(e, Synth \ keys) = SumOver(old, Synth \ keys)
  BY SumOverAgree
<1>7. /\ SumOver(v, keys) \in Nat /\ SumOver(old, keys) \in Nat
      /\ SumOver(old, Synth \ keys) \in Nat
  <2>1. Synth \ keys \in SUBSET Synth
    OBVIOUS
  <2>2. QED
    BY <1>1, <1>2, <2>1, SumOverType
<1>8. SumOf(e) = SumOver(e, Synth) /\ SumOf(old) = SumOver(old, Synth)
  <2>1. DOMAIN e = Synth /\ DOMAIN old = Synth
    BY <1>1
  <2>2. QED
    BY <2>1 DEF SumOf
<1>9. /\ d.synthDebt = e
      /\ d.debt = c.debt + SumOver(v, keys) - SumOver(old, keys)
      /\ d.futures = c.futures /\ d.excluded = c.excluded
      /\ d = [debt |-> d.debt, synthDebt |-> e, futures |-> c.futures,
              excluded |-> c.excluded, invalid |-> d.invalid]
      /\ d.invalid \in BOOLEAN
  BY DEF Updated
<1> HIDE DEF e, old
<1>10. d.debt \in Nat
  BY <1>1, <1>7, <1>9 DEF CanUpdateCachedSynthDebts, old
<1>11. d \in Cache
  BY <1>1, <1>2, <1>9, <1>10 DEF Cache
<1>12. Gap(d) = Gap(c)
  <2>1. SumOf(d.synthDebt) = SumOver(v, keys) + SumOver(old, Synth \ keys)
    BY <1>3, <1>5, <1>6, <1>8, <1>9
  <2>2. SumOf(c.synthDebt) = SumOver(old, keys) + SumOver(old, Synth \ keys)
    BY <1>4, <1>8 DEF old
  <2>3. QED
    BY <1>1, <1>7, <1>9, <2>1, <2>2 DEF Gap
<1>13. QED
  BY <1>9, <1>11, <1>12 DEF e

(* Moving the entry of zUSD and the total together keeps the gap.          *)
LEMMA USDKeepsGap ==
  ASSUME NEW c \in Cache, NEW amount \in Int, CanUpdateCachedsUSDDebt(c, amount),
         NEW d, d = updateCachedsUSDDebt(c, amount)
  PROVE  /\ d \in Cache
         /\ Gap(d) = Gap(c)
         /\ d.futures = c.futures /\ d.excluded = c.excluded /\ d.invalid = c.invalid
         /\ d.synthDebt = [c.synthDebt EXCEPT ![zUSD] = c.synthDebt[zUSD] + amount]
<1> DEFINE old == c.synthDebt
           new == old[zUSD] + amount
           e   == [old EXCEPT ![zUSD] = new]
<1>1. /\ c.debt \in Nat /\ old \in [Synth -> Nat] /\ c.futures \in Nat
      /\ c.excluded \in Nat /\ c.invalid \in BOOLEAN
  BY DEF Cache
<1>2. zUSD \in Synth /\ IsFiniteSet(Synth)
  BY SynthAssumption
<1>3. old[zUSD] \in Nat /\ new \in Nat /\ c.debt + amount \in Nat
  BY <1>1, <1>2 DEF CanUpdateCachedsUSDDebt
<1>4. SumOf(old) \in Nat
  BY <1>1, <1>2, SumOfType
<1>5. /\ d.synthDebt = e /\ d.debt = c.debt + amount
      /\ d.futures = c.futures /\ d.excluded = c.excluded /\ d.invalid = c.invalid
      /\ d = [debt |-> c.debt + amount, synthDebt |-> e, futures |-> c.futures,
              excluded |-> c.excluded, invalid |-> c.invalid]
  BY <1>1, <1>2 DEF updateCachedsUSDDebt, Cache
<1>6. e \in [Synth -> Nat]
  BY <1>1, <1>3
<1> HIDE DEF new
<1>7. SumOf(e) = SumOf(old) - old[zUSD] + new
  BY <1>1, <1>2, <1>3, SumOfUpdate
<1> HIDE DEF e, old
<1>8. Gap(d) = Gap(c)
  BY <1>1, <1>3, <1>4, <1>5, <1>7 DEF Gap, old, new
<1>9. d \in Cache
  BY <1>1, <1>3, <1>5, <1>6 DEF Cache
<1>10. QED
  BY <1>5, <1>8, <1>9 DEF e, new, old

(* A sum of an updated cache over all synths is one over those listed,     *)
(* when the others have no cached debt.                                    *)
LEMMA SumOverListed ==
  ASSUME NEW L \in SUBSET Synth, NEW f \in [Synth -> Nat],
         \A k \in Synth \ L : f[k] = 0
  PROVE  SumOf(f) = SumOver(f, L) /\ SumOver(f, L) \in Nat
<1>1. IsFiniteSet(Synth) /\ Synth \ L \in SUBSET Synth
  BY SynthAssumption
<1>2. SumOver(f, Synth) = SumOver(f, L) + SumOver(f, Synth \ L)
  BY <1>1, SumOverPart
<1>3. SumOver(f, L) \in Nat
  BY <1>1, SumOverType
<1>4. SumOver(f, Synth \ L) = 0
  <2> DEFINE g == [k \in Synth \ L |-> 0]
  <2>1. SumOver(f, Synth \ L) = SumOver(g, Synth \ L)
    BY SumOverAgree
  <2>2. g \in [Synth \ L -> Nat] /\ \A k \in Synth \ L : g[k] = 0
    OBVIOUS
  <2>3. SumOf(g) = 0
    BY <2>2, SumOfZero
  <2>4. QED
    BY <2>1, <2>3 DEF SumOf
<1>5. QED
  BY <1>2, <1>3, <1>4 DEF SumOf

\* d is a snapshot, whatever its validity.
Snapshot(c, v, f, x, L, d) ==
  /\ d = [ debt      |-> currentDebt(v, f, x, L),
           synthDebt |-> [k \in Synth |-> IF k \in L THEN v[k] ELSE c.synthDebt[k]],
           futures   |-> f,
           excluded  |-> x,
           invalid   |-> d.invalid ]
  /\ d.invalid \in BOOLEAN

(* A snapshot leaves a gap of what it cut off at zero.                     *)
LEMMA SnapshotGap ==
  ASSUME NEW c \in Cache, NEW v \in [Synth -> Nat], NEW f \in Nat, NEW x \in Nat,
         NEW L \in SUBSET Synth,
         \A k \in Synth \ L : c.synthDebt[k] = 0,
         NEW d, Snapshot(c, v, f, x, L, d)
  PROVE  /\ d \in Cache
         /\ Gap(d) >= 0
         /\ SumOver(v, L) + f >= x => Gap(d) = 0
         /\ d.futures = f /\ d.excluded = x
         /\ \A k \in Synth : d.synthDebt[k] = IF k \in L THEN v[k] ELSE 0
<1> DEFINE e == [k \in Synth |-> IF k \in L THEN v[k] ELSE c.synthDebt[k]]
           t == SumOver(v, L) + f
<1>1. e \in [Synth -> Nat] /\ \A k \in Synth \ L : e[k] = 0
  BY DEF Cache
<1>2. SumOf(e) = SumOver(e, L) /\ SumOver(e, L) \in Nat
  BY <1>1, SumOverListed
<1>3. SumOver(e, L) = SumOver(v, L)
  BY SumOverAgree
<1>4. /\ d.synthDebt = e /\ d.debt = floorsub(t, x)
      /\ d.futures = f /\ d.excluded = x /\ d.invalid \in BOOLEAN
      /\ d = [debt |-> floorsub(t, x), synthDebt |-> e, futures |-> f,
              excluded |-> x, invalid |-> d.invalid]
  BY DEF Snapshot, currentDebt
<1>5. SumOf(e) + f = t /\ t \in Nat
  BY <1>2, <1>3
<1> HIDE DEF e, t
<1>6. floorsub(t, x) \in Nat /\ (IF x >= t THEN floorsub(t, x) = 0 ELSE floorsub(t, x) = t - x)
  BY <1>5 DEF floorsub
<1>7. Gap(d) = (floorsub(t, x) + x) - t
  BY <1>4, <1>5 DEF Gap
<1>8. Gap(d) >= 0 /\ (t >= x => Gap(d) = 0)
  BY <1>5, <1>6, <1>7
<1>9. d \in Cache
  BY <1>1, <1>4, <1>6 DEF Cache
<1>10. \A k \in Synth : d.synthDebt[k] = IF k \in L THEN v[k] ELSE 0
  BY <1>1, <1>4 DEF e
<1>11. QED
  BY <1>4, <1>8, <1>9, <1>10 DEF t

-----------------------------------------------------------------------------
(* The inductive invariant *)

IInv == TypeOK /\ CachedDebtCoversParts /\ UnlistedHaveNoCachedDebt

\* What a partial update does to the cache.
KeepsCache ==
  /\ cache' \in Cache
  /\ Gap(cache') = Gap(cache)
  /\ \A k \in Synth \ listed' : cache'.synthDebt[k] = 0

SupplyFits == supply' \in [Synth -> Nat] /\ Fits(supply')

LEMMA MovedType ==
  ASSUME NEW s \in [Synth -> Int], NEW k \in Synth, NEW n \in Int
  PROVE  Moved(s, k, n) \in [Synth -> Int]
BY DEF Moved

LEMMA FitsType ==
  ASSUME NEW s \in [Synth -> Int], Fits(s)
  PROVE  s \in [Synth -> Nat]
BY PoolCapAssumption DEF Fits

LEMMA ValuesNow == ASSUME TypeOK PROVE values \in [Synth -> Nat]
BY ValuesType DEF TypeOK, values

LEMMA ExcludedType == ASSUME TypeOK PROVE excludedDebt \in Nat
<1>1. Values(excludedIssued, rate) \in [Synth -> Nat]
  BY ValuesType, PoolCapAssumption DEF TypeOK
<1>2. SumOver(Values(excludedIssued, rate), listed) \in Nat
  BY <1>1, SumOverType, SynthAssumption DEF TypeOK
<1>3. othersDebt \in Nat
  BY PoolCapAssumption DEF TypeOK
<1>4. QED
  BY <1>2, <1>3 DEF excludedDebt, totalNonSnxBackedDebt

(* A settlement brings the cached debt of its synth up to date.            *)
LEMMA SettleKeeps ==
  ASSUME IInv, NEW k \in Synth, NEW difference \in Int, CanSettle(k, difference),
         NEW s, s = SettledSupply(k, difference),
         NEW c, c = SettledCache(k, difference)
  PROVE  /\ k \in listed
         /\ s \in [Synth -> Nat] /\ Fits(s)
         /\ c \in Cache /\ Gap(c) = Gap(cache)
         /\ c.futures = cache.futures /\ c.excluded = cache.excluded
         /\ ~c.invalid => ~cache.invalid /\ (difference # 0 => ~rateInvalid[k])
         /\ cache.invalid => c.invalid
         /\ difference = 0 => s = supply /\ c = cache
         /\ \A j \in Synth : c.synthDebt[j] =
              IF j = k /\ difference # 0 THEN Values(s, rate)[k] ELSE cache.synthDebt[j]
<1>1. /\ k \in listed /\ Fits(s)
      /\ difference # 0 => CanUpdateCachedSynthDebts(cache, {k}, Values(s, rate))
  BY DEF CanSettle
<1>2. supply \in [Synth -> Int] /\ rate \in [Synth -> Nat] /\ cache \in Cache
      /\ rateInvalid[k] \in BOOLEAN
  BY DEF IInv, TypeOK
<1>3. s \in [Synth -> Nat]
  <2>1. s \in [Synth -> Int]
    BY <1>2, MovedType DEF SettledSupply
  <2>2. QED
    BY <1>1, <2>1, FitsType
<1>4. CASE difference = 0
  <2>1. s = supply
    BY <1>2, <1>4 DEF SettledSupply, Moved
  <2>2. c = cache
    BY <1>4 DEF SettledCache
  <2>3. QED
    BY <1>1, <1>2, <1>3, <1>4, <2>1, <2>2
<1>5. CASE difference # 0
  <2> DEFINE v == Values(s, rate)
  <2>1. v \in [Synth -> Nat]
    BY <1>2, <1>3, ValuesType
  <2>2. c = _updateCachedSynthDebtsWithRates(cache, {k}, v, rateInvalid[k])
    BY <1>5 DEF SettledCache
  <2>3. CanUpdateCachedSynthDebts(cache, {k}, v)
    BY <1>1, <1>5
  <2> DEFINE b == rateInvalid[k]
             K == {k}
  <2>4. K \in SUBSET Synth /\ b \in BOOLEAN /\ cache \in Cache
    BY <1>2
  <2>5. c = _updateCachedSynthDebtsWithRates(cache, K, v, b)
    BY <2>2
  <2>6. CanUpdateCachedSynthDebts(cache, K, v)
    BY <2>3
  <2> HIDE DEF v, b, K
  <2>7. Updated(cache, K, v, c) /\ c.invalid = (cache.invalid \/ b)
    BY <2>4, <2>5, UpdateUpdates
  <2>8. /\ c \in Cache /\ Gap(c) = Gap(cache)
        /\ c.futures = cache.futures /\ c.excluded = cache.excluded
        /\ \A j \in Synth : c.synthDebt[j] = IF j \in K THEN v[j] ELSE cache.synthDebt[j]
    BY <2>1, <2>4, <2>6, <2>7, UpdateKeepsGap
  <2>9. QED
    BY <1>1, <1>3, <1>5, <2>7, <2>8 DEF v, b, K
<1>6. QED
  BY <1>4, <1>5

(* Burning after a settlement.                                             *)
LEMMA BurnFits ==
  ASSUME NEW s \in [Synth -> Nat], NEW k \in Synth, NEW n \in Int, Fits(Moved(s, k, n))
  PROVE  Moved(s, k, n) \in [Synth -> Nat]
<1>1. s \in [Synth -> Int]
  OBVIOUS
<1>2. QED
  BY <1>1, MovedType, FitsType

-----------------------------------------------------------------------------
(* Every step keeps the invariant, and all but a snapshot the gap          *)

\* The variables other than the supply and the cache keep their types.
RestTyped ==
  /\ listed' \subseteq Synth /\ zUSD \in listed'
  /\ rate' \in [Synth -> Nat] /\ rate'[zUSD] = Unit
  /\ rateInvalid' \in [Synth -> BOOLEAN] /\ ~rateInvalid'[zUSD]
  /\ futuresDebt' \in 0 .. DebtCap /\ othersDebt' \in 0 .. OthersCap
  /\ redemptions' \in [Synth -> Nat]
  /\ excludedIssued' \in [Synth -> 0 .. DebtCap]
  /\ imported' \in BOOLEAN /\ undisturbed' \in BOOLEAN
  /\ entries' \subseteq Synth /\ owing' \subseteq entries'

Kept == IInv' /\ Gap(cache') = Gap(cache)

LEMMA KeptWhen == ASSUME IInv, KeepsCache, SupplyFits, RestTyped PROVE Kept
<1>1. TypeOK'
  BY DEF KeepsCache, SupplyFits, RestTyped, TypeOK, Fits
<1>2. CachedDebtCoversParts'
  BY DEF IInv, KeepsCache, CachedDebtCoversParts
<1>3. UnlistedHaveNoCachedDebt'
  BY DEF KeepsCache, UnlistedHaveNoCachedDebt
<1>4. QED
  BY <1>1, <1>2, <1>3 DEF Kept, IInv, KeepsCache

LEMMA RestTypedWhen ==
  ASSUME IInv, UNCHANGED <<listed, world, settling, excludedIssued, imported>>,
         undisturbed' \in BOOLEAN
  PROVE  RestTyped
BY DEF IInv, TypeOK, RestTyped, world, settling

LEMMA CacheUnchanged ==
  ASSUME IInv, UNCHANGED <<listed, cache>> PROVE KeepsCache
BY DEF IInv, TypeOK, UnlistedHaveNoCachedDebt, KeepsCache

LEMMA SupplyUnchanged == ASSUME IInv, UNCHANGED supply PROVE SupplyFits
BY DEF IInv, TypeOK, SupplyFits, Fits

LEMMA SupplyMoved ==
  ASSUME NEW s \in [Synth -> Nat], NEW k \in Synth, NEW n \in Int,
         supply' = Moved(s, k, n), Fits(supply')
  PROVE  SupplyFits
BY BurnFits DEF SupplyFits

LEMMA Invalidated ==
  ASSUME NEW c \in Cache, NEW d, d = updateDebtCacheValidity(c, TRUE)
  PROVE  /\ d \in Cache /\ Gap(d) = Gap(c) /\ d.invalid
         /\ d.synthDebt = c.synthDebt /\ d.debt = c.debt
         /\ d.futures = c.futures /\ d.excluded = c.excluded
BY DEF updateDebtCacheValidity, Cache, Gap

LEMMA UpdateStep ==
  ASSUME IInv, NEW keys \in SUBSET Synth, UpdateCachedSynthDebts(keys) PROVE Kept
<1>1. /\ CanUpdateCachedSynthDebts(cache, keys, values) /\ keys \subseteq listed
      /\ cache' = _updateCachedSynthDebtsWithRates(cache, keys, values, AnyRateInvalid(keys))
      /\ UNCHANGED <<listed, supply, world, settling, excludedIssued, imported, undisturbed>>
  BY DEF UpdateCachedSynthDebts
<1>2. values \in [Synth -> Nat] /\ cache \in Cache /\ AnyRateInvalid(keys) \in BOOLEAN
  BY ValuesNow DEF IInv, TypeOK, AnyRateInvalid
<1>3. Updated(cache, keys, values, cache')
  BY <1>1, <1>2, UpdateUpdates
<1>4. /\ cache' \in Cache /\ Gap(cache') = Gap(cache)
      /\ \A k \in Synth : cache'.synthDebt[k] =
           IF k \in keys THEN values[k] ELSE cache.synthDebt[k]
  BY <1>1, <1>2, <1>3, UpdateKeepsGap
<1>5. KeepsCache
  BY <1>1, <1>4 DEF KeepsCache, IInv, UnlistedHaveNoCachedDebt
<1>6. SupplyFits /\ RestTyped
  BY <1>1, SupplyUnchanged, RestTypedWhen DEF IInv, TypeOK
<1>7. QED
  BY <1>5, <1>6, KeptWhen

LEMMA PurgeStep ==
  ASSUME IInv, NEW key \in Synth, PurgeCachedSynthDebt(key) PROVE Kept
<1>1. cache.synthDebt \in [Synth -> Nat] /\ cache.synthDebt[key] = 0 /\ cache \in Cache
  BY DEF IInv, TypeOK, Cache, PurgeCachedSynthDebt, UnlistedHaveNoCachedDebt
<1>2. [cache.synthDebt EXCEPT ![key] = 0] = cache.synthDebt
  BY <1>1
<1>3. cache' = [cache EXCEPT !.synthDebt = cache.synthDebt]
  BY <1>2 DEF PurgeCachedSynthDebt, purgeCachedSynthDebt
<1>4. cache' = cache
  BY <1>1, <1>3 DEF Cache
<1>5. KeepsCache /\ SupplyFits /\ RestTyped
  BY <1>4, CacheUnchanged, SupplyUnchanged, RestTypedWhen
     DEF PurgeCachedSynthDebt, IInv, TypeOK
<1>6. QED
  BY <1>5, KeptWhen

LEMMA ImportStep ==
  ASSUME IInv, NEW debts \in [WrappedSynth -> 0 .. DebtCap],
         importExcludedIssuedDebts(debts)
  PROVE  Kept
<1>1. excludedIssued' \in [Synth -> 0 .. DebtCap]
  <2> DEFINE n(k) == excludedIssued[k] + (IF k \in WrappedSynth THEN debts[k] ELSE 0)
  <2>1. excludedIssued' = [k \in Synth |-> n(k)]
    BY DEF importExcludedIssuedDebts
  <2>2. ASSUME NEW k \in Synth PROVE n(k) \in 0 .. DebtCap
    <3>1. excludedIssued[k] \in 0 .. DebtCap /\ DebtCap \in Nat
      BY PoolCapAssumption DEF IInv, TypeOK
    <3>2. n(k) \in Nat
      BY <3>1
    <3>3. excludedIssued'[k] <= DebtCap
      BY DEF importExcludedIssuedDebts
    <3>4. QED
      BY <2>1, <3>1, <3>2, <3>3
  <2>3. QED
    BY <2>1, <2>2
<1>2. RestTyped
  BY <1>1 DEF IInv, TypeOK, RestTyped, importExcludedIssuedDebts, world, settling
<1>3. KeepsCache /\ SupplyFits
  BY CacheUnchanged, SupplyUnchanged DEF importExcludedIssuedDebts
<1>4. QED
  BY <1>2, <1>3, KeptWhen

LEMMA AddStep == ASSUME IInv, NEW keys \in SUBSET Synth, addSynths(keys) PROVE Kept
<1>1. cache' = updateDebtCacheValidity(cache, TRUE) /\ cache \in Cache
  BY DEF addSynths, IInv, TypeOK
<1>2. cache' \in Cache /\ Gap(cache') = Gap(cache) /\ cache'.synthDebt = cache.synthDebt
  BY <1>1, Invalidated
<1>3. KeepsCache
  BY <1>2 DEF KeepsCache, IInv, UnlistedHaveNoCachedDebt, addSynths
<1>4. RestTyped /\ SupplyFits
  BY SupplyUnchanged DEF IInv, TypeOK, RestTyped, addSynths, world, settling
<1>5. QED
  BY <1>3, <1>4, KeptWhen

LEMMA RemoveStep == ASSUME IInv, NEW keys \in SUBSET Synth, removeSynths(keys) PROVE Kept
<1> DEFINE nothing  == [k \in Synth |-> 0]
           updated  == _updateCachedSynthDebtsWithRates(cache, keys, nothing, FALSE)
           cleared  == updateDebtCacheValidity(updated, TRUE)
           redeemed == SumOver(values, keys)
<1>1. /\ keys \subseteq listed \ {zUSD}
      /\ CanUpdateCachedSynthDebts(cache, keys, nothing)
      /\ supply' = Moved(supply, zUSD, redeemed) /\ Fits(supply')
      /\ cache' = updateCachedsUSDDebt(cleared, redeemed)
      /\ listed' = listed \ keys
      /\ redemptions' = [k \in Synth |-> IF k \in keys /\ supply[k] > 0
                                           THEN rate[k] ELSE redemptions[k]]
      /\ UNCHANGED <<rate, rateInvalid, futuresDebt, othersDebt, settling, excludedIssued,
                     imported, undisturbed>>
  BY DEF removeSynths
<1>2. /\ cache \in Cache /\ nothing \in [Synth -> Nat] /\ redeemed \in Nat
      /\ zUSD \in Synth /\ zUSD \in listed
      /\ \A k \in Synth \ listed : cache.synthDebt[k] = 0
      /\ \A k \in Synth : nothing[k] = 0
  BY ValuesNow, SumOverType, SynthAssumption DEF IInv, TypeOK, UnlistedHaveNoCachedDebt
<1> HIDE DEF nothing, redeemed
<1>3. /\ updated \in Cache /\ Gap(updated) = Gap(cache)
      /\ \A k \in Synth :
           updated.synthDebt[k] = IF k \in keys THEN nothing[k] ELSE cache.synthDebt[k]
  <2>1. cache \in Cache /\ nothing \in [Synth -> Nat]
    BY <1>2
  <2>2. CanUpdateCachedSynthDebts(cache, keys, nothing)
    BY <1>1
  <2>3. updated = _updateCachedSynthDebtsWithRates(cache, keys, nothing, FALSE)
    OBVIOUS
  <2> HIDE DEF updated
  <2>4. Updated(cache, keys, nothing, updated)
    BY <2>1, <2>3 DEF Updated, _updateCachedSynthDebtsWithRates, Cache
  <2>5. QED
    BY <2>1, <2>2, <2>4, UpdateKeepsGap
<1> HIDE DEF updated
<1>4. /\ cleared \in Cache /\ Gap(cleared) = Gap(cache)
      /\ cleared.synthDebt = updated.synthDebt
  BY <1>3, Invalidated
<1> HIDE DEF cleared
<1>5. CanUpdateCachedsUSDDebt(cleared, redeemed)
  BY <1>2, <1>4 DEF CanUpdateCachedsUSDDebt, Cache
<1>6. /\ cache' \in Cache /\ Gap(cache') = Gap(cleared)
      /\ cache'.synthDebt = [cleared.synthDebt EXCEPT ![zUSD] = cleared.synthDebt[zUSD] + redeemed]
  BY <1>1, <1>2, <1>4, <1>5, USDKeepsGap
<1>7. \A k \in Synth \ listed' : cache'.synthDebt[k] = 0
  <2>1. cleared.synthDebt \in [Synth -> Nat]
    BY <1>4 DEF Cache
  <2>2. SUFFICES ASSUME NEW k \in Synth \ listed' PROVE cache'.synthDebt[k] = 0
    OBVIOUS
  <2>3. k # zUSD
    BY <1>1, <1>2
  <2>4. cache'.synthDebt[k] = updated.synthDebt[k]
    BY <1>4, <1>6, <2>1, <2>3
  <2>5. QED
    BY <1>1, <1>2, <1>3, <2>4
<1>8. KeepsCache
  BY <1>4, <1>6, <1>7 DEF KeepsCache
<1>9. supply \in [Synth -> Nat] /\ redeemed \in Int
  BY <1>2 DEF IInv, TypeOK
<1>10. SupplyFits
  BY <1>1, <1>2, <1>9, SupplyMoved
<1>11. RestTyped
  <2>1. redemptions' \in [Synth -> Nat]
    BY <1>1 DEF IInv, TypeOK
  <2>2. QED
    BY <1>1, <2>1 DEF IInv, TypeOK, RestTyped, settling
<1>12. QED
  BY <1>8, <1>10, <1>11, KeptWhen

LEMMA RedeemStep ==
  ASSUME IInv, NEW k \in Synth, NEW amount \in Amount, burnForRedemption(k, amount)
  PROVE  Kept
<1>1. supply \in [Synth -> Nat] /\ -amount \in Int
  BY PoolAmountAssumption DEF IInv, TypeOK
<1>2. SupplyFits
  BY <1>1, SupplyMoved DEF burnForRedemption
<1>3. KeepsCache /\ RestTyped
  BY CacheUnchanged, RestTypedWhen DEF burnForRedemption, IInv, TypeOK
<1>4. QED
  BY <1>2, <1>3, KeptWhen

(* A step that only moves the entry of zUSD and the total of the cache.    *)
LEMMA USDStep ==
  ASSUME IInv, NEW c \in Cache, Gap(c) = Gap(cache),
         \A k \in Synth \ listed : c.synthDebt[k] = 0,
         NEW n \in Int, CanUpdateCachedsUSDDebt(c, n),
         cache' = updateCachedsUSDDebt(c, n), listed' = listed
  PROVE  KeepsCache
<1>1. /\ cache' \in Cache /\ Gap(cache') = Gap(cache)
      /\ cache'.synthDebt = [c.synthDebt EXCEPT ![zUSD] = c.synthDebt[zUSD] + n]
  BY USDKeepsGap
<1>2. c.synthDebt \in [Synth -> Nat] /\ zUSD \in listed
  BY DEF Cache, IInv, TypeOK
<1>3. QED
  BY <1>1, <1>2 DEF KeepsCache

LEMMA IssueStep == ASSUME IInv, NEW amount \in Amount, issueSynths(amount) PROVE Kept
<1>1. /\ supply \in [Synth -> Nat] /\ amount \in Nat /\ zUSD \in Synth
      /\ cache \in Cache /\ \A k \in Synth \ listed : cache.synthDebt[k] = 0
  BY PoolAmountAssumption, SynthAssumption DEF IInv, TypeOK, UnlistedHaveNoCachedDebt
<1>2. CanUpdateCachedsUSDDebt(cache, amount)
  BY <1>1 DEF CanUpdateCachedsUSDDebt, Cache
<1>3. KeepsCache
  BY <1>1, <1>2, USDStep DEF issueSynths
<1>4. SupplyFits /\ RestTyped
  BY <1>1, SupplyMoved, RestTypedWhen DEF issueSynths, IInv, TypeOK
<1>5. QED
  BY <1>3, <1>4, KeptWhen

LEMMA ValueType ==
  ASSUME NEW amount \in Nat, NEW r \in Nat PROVE multiplyDecimal(amount, r, Unit) \in Nat
BY UnitAssumption DEF multiplyDecimal

LEMMA IssueWithoutDebtStep ==
  ASSUME IInv, NEW k \in Synth, NEW amount \in Amount, issueSynthsWithoutDebt(k, amount)
  PROVE  Kept
<1> DEFINE value == multiplyDecimal(amount, rate[k], Unit)
<1>1. /\ supply \in [Synth -> Nat] /\ amount \in Nat /\ value \in Nat
      /\ cache \in Cache /\ \A j \in Synth \ listed : cache.synthDebt[j] = 0
  BY PoolAmountAssumption, ValueType DEF IInv, TypeOK, UnlistedHaveNoCachedDebt
<1>2. cache' = updateCachedsUSDDebt(cache, value)
  BY DEF issueSynthsWithoutDebt
<1> HIDE DEF value
<1>3. CanUpdateCachedsUSDDebt(cache, value)
  BY <1>1, SynthAssumption DEF CanUpdateCachedsUSDDebt, Cache
<1>4. KeepsCache
  BY <1>1, <1>2, <1>3, USDStep DEF issueSynthsWithoutDebt
<1>5. SupplyFits /\ RestTyped
  BY <1>1, SupplyMoved, RestTypedWhen DEF issueSynthsWithoutDebt, IInv, TypeOK
<1>6. QED
  BY <1>4, <1>5, KeptWhen

LEMMA SettleStep ==
  ASSUME IInv, NEW k \in Synth, NEW difference \in Difference, settle(k, difference)
  PROVE  Kept
<1>1. /\ difference \in Int /\ CanSettle(k, difference)
      /\ supply' = SettledSupply(k, difference) /\ cache' = SettledCache(k, difference)
      /\ UNCHANGED <<listed, world, settling, excludedIssued, imported, undisturbed>>
  BY PoolAmountAssumption DEF settle
<1>2. /\ supply' \in [Synth -> Nat] /\ Fits(supply')
      /\ cache' \in Cache /\ Gap(cache') = Gap(cache) /\ k \in listed
      /\ \A j \in Synth : cache'.synthDebt[j] =
           IF j = k /\ difference # 0 THEN Values(supply', rate)[k] ELSE cache.synthDebt[j]
  BY <1>1, SettleKeeps
<1>3. KeepsCache /\ SupplyFits
  BY <1>1, <1>2 DEF KeepsCache, SupplyFits, IInv, UnlistedHaveNoCachedDebt
<1>4. RestTyped
  BY <1>1, RestTypedWhen DEF IInv, TypeOK
<1>5. QED
  BY <1>3, <1>4, KeptWhen

LEMMA ExchangeStep ==
  ASSUME IInv, NEW source \in Synth, NEW dest \in Synth, NEW difference \in Difference,
         NEW paid \in Amount, NEW received \in Amount, NEW fee \in Amount \cup {0},
         exchange(source, dest, difference, paid, received, fee)
  PROVE  Kept
<1> DEFINE settled == SettledSupply(source, difference)
           burnt   == Moved(settled, source, -paid)
           issued  == Moved(burnt, dest, received)
           keys    == {source, dest, zUSD}
           after   == Values(supply', rate)
<1>1. /\ {source, dest} \subseteq listed
      /\ supply' = Moved(issued, zUSD, fee) /\ Fits(supply')
      /\ CanUpdateCachedSynthDebts(cache, keys, after)
      /\ cache' = _updateCachedSynthDebtsWithRates(cache, keys, after, FALSE)
      /\ entries' = entries \cup {dest}
      /\ UNCHANGED <<listed, world, owing, excludedIssued, imported, undisturbed>>
  BY DEF exchange
<1>2. /\ supply \in [Synth -> Int] /\ rate \in [Synth -> Nat] /\ cache \in Cache
      /\ difference \in Int /\ -paid \in Int /\ received \in Int /\ fee \in Int
      /\ zUSD \in Synth /\ zUSD \in listed
      /\ \A k \in Synth \ listed : cache.synthDebt[k] = 0
  BY PoolAmountAssumption, SynthAssumption DEF IInv, TypeOK, UnlistedHaveNoCachedDebt
<1>3. settled \in [Synth -> Int]
  BY <1>2, MovedType DEF SettledSupply
<1>4. burnt \in [Synth -> Int]
  BY <1>2, <1>3, MovedType
<1>5. issued \in [Synth -> Int]
  BY <1>2, <1>4, MovedType
<1> HIDE DEF issued
<1>6. supply' \in [Synth -> Nat]
  <2>1. supply' \in [Synth -> Int]
    BY <1>1, <1>2, <1>5, MovedType
  <2>2. QED
    BY <1>1, <2>1, FitsType
<1>7. after \in [Synth -> Nat]
  BY <1>2, <1>6, ValuesType
<1> HIDE DEF after
<1>8. keys \in SUBSET Synth /\ keys \subseteq listed
  BY <1>1, <1>2
<1> HIDE DEF keys
<1>9. /\ cache' \in Cache /\ Gap(cache') = Gap(cache)
      /\ \A k \in Synth :
           cache'.synthDebt[k] = IF k \in keys THEN after[k] ELSE cache.synthDebt[k]
  <2>1. cache \in Cache
    BY <1>2
  <2>2. CanUpdateCachedSynthDebts(cache, keys, after)
    BY <1>1
  <2>3. Updated(cache, keys, after, cache')
    BY <1>1, <2>1 DEF Updated, _updateCachedSynthDebtsWithRates, Cache
  <2>4. QED
    BY <1>7, <1>8, <2>1, <2>2, <2>3, UpdateKeepsGap
<1>10. KeepsCache
  BY <1>1, <1>2, <1>8, <1>9 DEF KeepsCache
<1>11. SupplyFits
  BY <1>1, <1>6 DEF SupplyFits
<1>12. RestTyped
  BY <1>1 DEF IInv, TypeOK, RestTyped, world
<1>13. QED
  BY <1>10, <1>11, <1>12, KeptWhen

LEMMA AbortedStep ==
  ASSUME IInv, NEW source \in Synth, NEW dest \in Synth, NEW difference \in Difference,
         exchangeAborted(source, dest, difference)
  PROVE  Kept
<1>1. supply \in [Synth -> Nat] /\ difference \in Int
  BY PoolAmountAssumption DEF IInv, TypeOK
<1>2. SupplyFits
  BY <1>1, SupplyMoved DEF exchangeAborted, SettledSupply
<1>3. KeepsCache /\ RestTyped
  BY CacheUnchanged, RestTypedWhen DEF exchangeAborted, IInv, TypeOK
<1>4. QED
  BY <1>2, <1>3, KeptWhen

(* A burn after a settlement, when the cache ends as one that was settled. *)
LEMMA BurnStep ==
  ASSUME IInv, NEW k \in Synth, NEW difference \in Difference, NEW amount \in Amount,
         burnSynths(difference, amount) \/ burnSynthsWithoutDebt(k, difference, amount)
  PROVE  Kept
<1>1. PICK j \in Synth, n \in Int :
        /\ CanSettle(j, difference)
        /\ supply' = Moved(SettledSupply(j, difference), j, -amount) /\ Fits(supply')
        /\ CanUpdateCachedsUSDDebt(SettledCache(j, difference), n)
        /\ cache' = updateCachedsUSDDebt(SettledCache(j, difference), n)
        /\ UNCHANGED <<listed, world, settling, excludedIssued, imported>>
        /\ undisturbed' \in BOOLEAN
  <2>1. CASE burnSynths(difference, amount)
    <3>1. zUSD \in Synth /\ -amount \in Int
      BY SynthAssumption, PoolAmountAssumption
    <3>2. QED
      BY <2>1, <3>1 DEF burnSynths, IInv, TypeOK
  <2>2. CASE burnSynthsWithoutDebt(k, difference, amount)
    <3> DEFINE value == multiplyDecimal(amount, rate[k], Unit)
    <3>1. value \in Nat
      BY PoolAmountAssumption, ValueType DEF IInv, TypeOK
    <3>2. /\ CanSettle(k, difference)
          /\ supply' = Moved(SettledSupply(k, difference), k, -amount) /\ Fits(supply')
          /\ CanUpdateCachedsUSDDebt(SettledCache(k, difference), -value)
          /\ cache' = updateCachedsUSDDebt(SettledCache(k, difference), -value)
          /\ UNCHANGED <<listed, world, settling, excludedIssued, imported>>
          /\ undisturbed' \in BOOLEAN
      BY <2>2 DEF burnSynthsWithoutDebt
    <3> HIDE DEF value
    <3>3. -value \in Int
      BY <3>1
    <3>4. QED
      BY <3>2, <3>3
  <2>3. QED
    BY <2>1, <2>2
<1>2. difference \in Int /\ -amount \in Int
  BY PoolAmountAssumption
<1> DEFINE s == SettledSupply(j, difference)
           c == SettledCache(j, difference)
<1>3. /\ s \in [Synth -> Nat] /\ j \in listed
      /\ c \in Cache /\ Gap(c) = Gap(cache)
      /\ \A i \in Synth : c.synthDebt[i] =
           IF i = j /\ difference # 0 THEN Values(s, rate)[j] ELSE cache.synthDebt[i]
  BY <1>1, <1>2, SettleKeeps
<1>4. \A i \in Synth \ listed : c.synthDebt[i] = 0
  BY <1>3 DEF IInv, UnlistedHaveNoCachedDebt
<1>5. /\ supply' = Moved(s, j, -amount) /\ Fits(supply')
      /\ CanUpdateCachedsUSDDebt(c, n) /\ cache' = updateCachedsUSDDebt(c, n)
      /\ listed' = listed
  BY <1>1
<1> HIDE DEF s, c
<1>6. SupplyFits
  BY <1>2, <1>3, <1>5, SupplyMoved
<1>7. KeepsCache
  BY <1>3, <1>4, <1>5, USDStep
<1>8. RestTyped
  BY <1>1, RestTypedWhen DEF IInv, TypeOK
<1>9. QED
  BY <1>6, <1>7, <1>8, KeptWhen

LEMMA UpgradeStep ==
  ASSUME IInv, NEW difference \in Difference, NEW amount \in Amount,
         upgradeCollateralShort(difference, amount)
  PROVE  Kept
<1>1. difference \in Int /\ -amount \in Int /\ zUSD \in Synth /\ zUSD \in listed
  BY PoolAmountAssumption, SynthAssumption DEF IInv, TypeOK
<1> DEFINE s == SettledSupply(zUSD, difference)
<1>2. /\ CanSettle(zUSD, difference) /\ supply' = Moved(s, zUSD, -amount) /\ Fits(supply')
      /\ cache' = SettledCache(zUSD, difference)
      /\ UNCHANGED <<listed, world, settling, excludedIssued, imported>>
      /\ undisturbed' = FALSE
  BY DEF upgradeCollateralShort
<1>3. /\ s \in [Synth -> Nat]
      /\ cache' \in Cache /\ Gap(cache') = Gap(cache)
      /\ \A i \in Synth : cache'.synthDebt[i] =
           IF i = zUSD /\ difference # 0 THEN Values(s, rate)[zUSD] ELSE cache.synthDebt[i]
  BY <1>1, <1>2, SettleKeeps
<1> HIDE DEF s
<1>4. KeepsCache
  BY <1>1, <1>2, <1>3 DEF KeepsCache, IInv, UnlistedHaveNoCachedDebt
<1>5. SupplyFits
  BY <1>1, <1>2, <1>3, SupplyMoved
<1>6. undisturbed' \in BOOLEAN
  BY <1>2
<1>7. RestTyped
  BY <1>2, <1>6, RestTypedWhen
<1>8. QED
  BY <1>4, <1>5, <1>7, KeptWhen

LEMMA ExcludedStep ==
  ASSUME IInv, NEW k \in WrappedSynth, NEW delta \in Difference,
         NEW difference \in Difference, NEW fee \in Amount \cup {0},
         recordExcludedDebtChange(k, delta, difference, fee)
  PROVE  Kept
<1>1. /\ k \in Synth /\ zUSD \in Synth /\ difference \in Int /\ fee \in Int
      /\ supply \in [Synth -> Nat]
  BY PoolAmountAssumption, SynthAssumption, ListingAssumption DEF IInv, TypeOK
<1> DEFINE s == Moved(supply, k, difference)
<1>2. Fits(s) /\ supply' = Moved(s, zUSD, fee) /\ Fits(supply')
  BY DEF recordExcludedDebtChange
<1>3. s \in [Synth -> Nat]
  BY <1>1, <1>2, BurnFits
<1> HIDE DEF s
<1>4. SupplyFits
  BY <1>1, <1>2, <1>3, SupplyMoved
<1>5. excludedIssued' \in [Synth -> 0 .. DebtCap]
  BY <1>1 DEF recordExcludedDebtChange, IInv, TypeOK
<1>6. RestTyped
  BY <1>5 DEF recordExcludedDebtChange, IInv, TypeOK, RestTyped, world, settling
<1>7. KeepsCache
  BY CacheUnchanged DEF recordExcludedDebtChange
<1>8. QED
  BY <1>4, <1>6, <1>7, KeptWhen

LEMMA OthersStep ==
  ASSUME IInv, NEW futures \in 0 .. DebtCap, NEW others \in 0 .. OthersCap,
         NEW k \in Synth, NEW difference \in Difference,
         othersIssue(futures, others, k, difference)
  PROVE  Kept
<1>1. difference \in Int /\ supply \in [Synth -> Nat]
  BY PoolAmountAssumption DEF IInv, TypeOK
<1>2. SupplyFits
  BY <1>1, SupplyMoved DEF othersIssue
<1>3. KeepsCache
  BY CacheUnchanged DEF othersIssue
<1>4. RestTyped
  BY DEF othersIssue, IInv, TypeOK, RestTyped, settling
<1>5. QED
  BY <1>2, <1>3, <1>4, KeptWhen

LEMMA PriceStep ==
  ASSUME IInv, NEW k \in Synth, NEW reading \in Reading, priceMoves(k, reading)
  PROVE  Kept
<1>1. reading.rate \in Nat /\ reading.invalid \in BOOLEAN /\ k # zUSD
  BY RateAssumption DEF priceMoves
<1>2. KeepsCache /\ SupplyFits
  BY CacheUnchanged, SupplyUnchanged DEF priceMoves
<1>3. rate' \in [Synth -> Nat] /\ rate'[zUSD] = Unit
  BY <1>1, SynthAssumption DEF priceMoves, IInv, TypeOK
<1>4. rateInvalid' \in [Synth -> BOOLEAN] /\ ~rateInvalid'[zUSD]
  BY <1>1, SynthAssumption DEF priceMoves, IInv, TypeOK
<1>5. undisturbed' \in BOOLEAN /\ entries' \subseteq Synth /\ owing' \subseteq entries'
  BY DEF priceMoves, IInv, TypeOK
<1>6. RestTyped
  BY <1>3, <1>4, <1>5 DEF priceMoves, IInv, TypeOK, RestTyped
<1>7. QED
  BY <1>2, <1>6, KeptWhen

LEMMA SnapshotStep ==
  ASSUME IInv, NEW b \in BOOLEAN, TakeDebtSnapshot(b)
  PROVE  /\ IInv'
         /\ undisturbed' => Gap(cache') = 0
         /\ cache'.futures = futuresDebt /\ cache'.excluded = excludedDebt
         /\ cache'.invalid = (AnyRateInvalid(listed) \/ b)
         /\ \A k \in Synth : cache'.synthDebt[k] = IF k \in listed THEN values[k] ELSE 0
<1> DEFINE i == AnyRateInvalid(listed) \/ b
<1>1. /\ cache' = takeDebtSnapshot(cache, values, futuresDebt, excludedDebt, listed, i)
      /\ undisturbed' = (SumOver(values, listed) + futuresDebt >= excludedDebt)
      /\ UNCHANGED <<listed, supply, world, settling, excludedIssued, imported>>
  BY DEF TakeDebtSnapshot
<1>2. /\ cache \in Cache /\ values \in [Synth -> Nat] /\ futuresDebt \in Nat
      /\ excludedDebt \in Nat /\ listed \in SUBSET Synth
      /\ \A k \in Synth \ listed : cache.synthDebt[k] = 0
  BY ValuesNow, ExcludedType, PoolCapAssumption DEF IInv, TypeOK, UnlistedHaveNoCachedDebt
<1>3. i \in BOOLEAN
  OBVIOUS
<1>4. /\ cache' \in Cache
      /\ Gap(cache') >= 0
      /\ SumOver(values, listed) + futuresDebt >= excludedDebt => Gap(cache') = 0
      /\ cache'.futures = futuresDebt /\ cache'.excluded = excludedDebt
      /\ cache'.invalid = i
      /\ \A k \in Synth : cache'.synthDebt[k] = IF k \in listed THEN values[k] ELSE 0
  <2>1. cache' = takeDebtSnapshot(cache, values, futuresDebt, excludedDebt, listed, i)
    BY <1>1
  <2> HIDE DEF i
  <2>2. /\ Snapshot(cache, values, futuresDebt, excludedDebt, listed, cache')
        /\ cache'.invalid = i
    BY <1>3, <2>1 DEF Snapshot, takeDebtSnapshot
  <2>3. Snapshot(cache, values, futuresDebt, excludedDebt, listed, cache')
    BY <2>2
  <2>4. cache' \in Cache /\ Gap(cache') >= 0
    BY <1>2, <2>3, SnapshotGap
  <2>5. SumOver(values, listed) + futuresDebt >= excludedDebt => Gap(cache') = 0
    BY <1>2, <2>3, SnapshotGap
  <2>6. /\ cache'.futures = futuresDebt /\ cache'.excluded = excludedDebt
        /\ \A k \in Synth : cache'.synthDebt[k] = IF k \in listed THEN values[k] ELSE 0
    BY <1>2, <2>3 DEF Snapshot
  <2>7. QED
    BY <2>2, <2>4, <2>5, <2>6
<1>5. TypeOK'
  <2>1. SupplyFits
    BY <1>1, SupplyUnchanged
  <2>2. undisturbed' \in BOOLEAN
    BY <1>1
  <2>3. RestTyped
    BY <1>1, <2>2, RestTypedWhen
  <2>4. QED
    BY <1>4, <2>1, <2>3 DEF SupplyFits, RestTyped, TypeOK, Fits
<1>6. CachedDebtCoversParts' /\ UnlistedHaveNoCachedDebt'
  BY <1>1, <1>4 DEF CachedDebtCoversParts, UnlistedHaveNoCachedDebt
<1>7. QED
  BY <1>1, <1>4, <1>5, <1>6 DEF IInv

(* Every step keeps the invariant, and every one but a snapshot the gap.   *)
LEMMA StepKeeps ==
  ASSUME IInv, Next
  PROVE  IInv' /\ (Gap(cache') = Gap(cache) \/ \E b \in BOOLEAN : TakeDebtSnapshot(b))
<1>1. CASE \E b \in BOOLEAN : TakeDebtSnapshot(b)
  BY <1>1, SnapshotStep
<1>2. CASE Kept
  BY <1>2 DEF Kept
<1>3. ASSUME NEW keys \in SUBSET Synth,
             UpdateCachedSynthDebts(keys) \/ addSynths(keys) \/ removeSynths(keys)
      PROVE  Kept
  BY <1>3, UpdateStep, AddStep, RemoveStep
<1>4. ASSUME NEW k \in Synth, PurgeCachedSynthDebt(k) PROVE Kept
  BY <1>4, PurgeStep
<1>5. ASSUME NEW debts \in [WrappedSynth -> 0 .. DebtCap], importExcludedIssuedDebts(debts)
      PROVE  Kept
  BY <1>5, ImportStep
<1>6. ASSUME NEW amount \in Amount, issueSynths(amount) PROVE Kept
  BY <1>6, IssueStep
<1>7. ASSUME NEW k \in Synth, NEW amount \in Amount,
             issueSynthsWithoutDebt(k, amount) \/ burnForRedemption(k, amount)
      PROVE  Kept
  BY <1>7, IssueWithoutDebtStep, RedeemStep
<1>8. ASSUME NEW difference \in Difference, NEW amount \in Amount,
             \/ burnSynths(difference, amount)
             \/ upgradeCollateralShort(difference, amount)
             \/ \E k \in Synth : burnSynthsWithoutDebt(k, difference, amount)
      PROVE  Kept
  BY <1>8, BurnStep, UpgradeStep, SynthAssumption
<1>9. ASSUME NEW k \in Synth, NEW difference \in Difference, settle(k, difference)
      PROVE  Kept
  BY <1>9, SettleStep
<1>10. ASSUME NEW source \in Synth, NEW dest \in Synth, NEW difference \in Difference,
              exchangeAborted(source, dest, difference)
       PROVE  Kept
  BY <1>10, AbortedStep
<1>11. ASSUME NEW k \in WrappedSynth, NEW delta \in Difference, NEW difference \in Difference,
              NEW fee \in Amount \cup {0},
              recordExcludedDebtChange(k, delta, difference, fee)
       PROVE  Kept
  BY <1>11, ExcludedStep
<1>12. ASSUME NEW source \in Synth, NEW dest \in Synth, NEW difference \in Difference,
              NEW paid \in Amount, NEW received \in Amount, NEW fee \in Amount \cup {0},
              exchange(source, dest, difference, paid, received, fee)
       PROVE  Kept
  BY <1>12, ExchangeStep
<1>13. ASSUME NEW futures \in 0 .. DebtCap, NEW others \in 0 .. OthersCap,
              NEW k \in Synth, NEW difference \in Difference,
              othersIssue(futures, others, k, difference)
       PROVE  Kept
  BY <1>13, OthersStep
<1>14. ASSUME NEW k \in Synth, NEW reading \in Reading, priceMoves(k, reading)
       PROVE  Kept
  BY <1>14, PriceStep
<1>15. QED
  BY <1>1, <1>2, <1>3, <1>4, <1>5, <1>6, <1>7, <1>8, <1>9, <1>10, <1>11, <1>12, <1>13,
     <1>14 DEF Next

LEMMA StutterKeeps == ASSUME IInv, UNCHANGED vars PROVE Kept
<1>1. KeepsCache /\ SupplyFits
  BY CacheUnchanged, SupplyUnchanged DEF vars
<1>2. RestTyped
  BY RestTypedWhen DEF vars, world, settling, IInv, TypeOK
<1>3. QED
  BY <1>1, <1>2, KeptWhen

LEMMA InitIInv == Init => IInv
<1> SUFFICES ASSUME Init PROVE IInv
  OBVIOUS
<1>1. NewCache \in Cache /\ Gap(NewCache) = 0 /\ cache = NewCache
  BY NewCacheHasNoGap DEF Init
<1>2. supply \in [Synth -> Nat] /\ Fits(supply)
  BY PoolCapAssumption DEF Init, Fits
<1>3. TypeOK
  <2>1. listed \subseteq Synth /\ zUSD \in listed /\ rate \in [Synth -> Nat] /\ rate[zUSD] = Unit
    BY RateAssumption, ListingAssumption DEF Init
  <2>2. rateInvalid \in [Synth -> BOOLEAN] /\ ~rateInvalid[zUSD]
    BY SynthAssumption DEF Init
  <2>3. /\ futuresDebt \in 0 .. DebtCap /\ othersDebt \in 0 .. OthersCap
        /\ redemptions \in [Synth -> Nat]
        /\ excludedIssued \in [Synth -> 0 .. DebtCap]
    BY PoolCapAssumption DEF Init
  <2>4. /\ imported \in BOOLEAN /\ undisturbed \in BOOLEAN
        /\ entries \subseteq Synth /\ owing \subseteq entries
    BY DEF Init
  <2>5. QED
    BY <1>1, <1>2, <2>1, <2>2, <2>3, <2>4 DEF TypeOK
<1>4. UnlistedHaveNoCachedDebt /\ CachedDebtCoversParts
  BY <1>1 DEF NewCache, UnlistedHaveNoCachedDebt, CachedDebtCoversParts
<1>5. QED
  BY <1>3, <1>4 DEF IInv

(* The inductive invariant holds in every reachable state.                 *)
THEOREM PoolInvariant == Spec => []IInv
<1>1. IInv /\ [Next]_vars => IInv'
  BY StepKeeps, StutterKeeps DEF Kept
<1>2. QED
  BY <1>1, InitIInv, PTL DEF Spec

(* All variables keep their types: in particular no unsigned subtraction   *)
(* of DebtCache leaves a cached debt below zero.                           *)
THEOREM PoolTypeCorrect == Spec => []TypeOK
BY PoolInvariant, PTL DEF IInv

(* The cached total never falls below the sum of its parts, and a synth    *)
(* that is not listed never has a cached debt.                             *)
THEOREM CachedDebtIsSound == Spec => []CachedDebtSound
<1>1. IInv => CachedDebtSound
  BY DEF IInv, CachedDebtSound
<1>2. QED
  BY <1>1, PoolInvariant, PTL

(* Only a snapshot changes the difference between the cached total and the *)
(* sum of its parts: no partial update of any caller does.                 *)
THEOREM NoDrift == Spec => PartialUpdatesKeepGap
<1>1. IInv /\ [Next]_vars =>
        [\/ cache' = cache
         \/ Gap(cache') = Gap(cache)
         \/ \E b \in BOOLEAN : TakeDebtSnapshot(b)]_vars
  BY StepKeeps
<1>2. QED
  BY <1>1, PoolInvariant, PTL DEF Spec, PartialUpdatesKeepGap

-----------------------------------------------------------------------------
(* When the cache is exact *)

\* While nothing disturbs it, a valid cache is what a snapshot would write.
Exact ==
  undisturbed /\ ~cache.invalid =>
    /\ Gap(cache) = 0 /\ cache.futures = futuresDebt /\ cache.excluded = excludedDebt
    /\ \A k \in listed : cache.synthDebt[k] = values[k]

\* The total then follows from the parts.
LEMMA ExactTotal ==
  ASSUME IInv, Exact
  PROVE  CacheExactWhileUndisturbed
<1> SUFFICES ASSUME undisturbed, ~cache.invalid
             PROVE  cache.debt = currentDebt(values, futuresDebt, excludedDebt, listed)
  BY DEF CacheExactWhileUndisturbed
<1>1. /\ Gap(cache) = 0 /\ cache.futures = futuresDebt /\ cache.excluded = excludedDebt
      /\ \A k \in listed : cache.synthDebt[k] = values[k]
  BY DEF Exact
<1>2. /\ cache.synthDebt \in [Synth -> Nat] /\ cache.debt \in Nat /\ futuresDebt \in Nat
      /\ listed \in SUBSET Synth /\ excludedDebt \in Nat
      /\ \A k \in Synth \ listed : cache.synthDebt[k] = 0
  BY ExcludedType, PoolCapAssumption DEF IInv, TypeOK, Cache, UnlistedHaveNoCachedDebt
<1>3. SumOf(cache.synthDebt) = SumOver(cache.synthDebt, listed)
      /\ SumOver(cache.synthDebt, listed) \in Nat
  BY <1>2, SumOverListed
<1>4. SumOver(cache.synthDebt, listed) = SumOver(values, listed)
  BY <1>1, SumOverAgree
<1>5. cache.debt + excludedDebt = SumOver(values, listed) + futuresDebt
      /\ SumOver(values, listed) \in Nat
  <2>1. Gap(cache) = (cache.debt + cache.excluded) - (SumOf(cache.synthDebt) + cache.futures)
    BY DEF Gap
  <2>2. QED
    BY <1>1, <1>2, <1>3, <1>4, <2>1
<1>6. cache.debt = floorsub(SumOver(values, listed) + futuresDebt, excludedDebt)
  BY <1>2, <1>5 DEF floorsub
<1>7. QED
  BY <1>6 DEF currentDebt

\* A partial update of an exact cache by what the supplies moved.
LEMMA ExactWhen ==
  ASSUME Exact, UNCHANGED <<listed, world, excludedIssued>>,
         undisturbed' /\ ~cache'.invalid =>
           /\ undisturbed /\ ~cache.invalid
           /\ Gap(cache') = Gap(cache)
           /\ cache'.futures = cache.futures /\ cache'.excluded = cache.excluded
           /\ \A k \in listed : \/ cache'.synthDebt[k] = Values(supply', rate)[k]
                                \/ /\ cache'.synthDebt[k] = cache.synthDebt[k]
                                   /\ Values(supply', rate)[k] = values[k]
  PROVE  Exact'
<1>1. excludedDebt' = excludedDebt /\ futuresDebt' = futuresDebt /\ rate' = rate
  BY DEF world, excludedDebt
<1>2. values' = Values(supply', rate)
  BY <1>1 DEF values
<1>3. QED
  BY <1>1, <1>2 DEF Exact

\* Calls that the cache is not told, and that its parts do not depend on.
LEMMA ExactUntold ==
  ASSUME Exact, UNCHANGED <<listed, world, excludedIssued, cache>>,
         undisturbed' => undisturbed /\ \A k \in listed : Values(supply', rate)[k] = values[k]
  PROVE  Exact'
BY ExactWhen

LEMMA ValueOfMoved ==
  ASSUME IInv, NEW s \in [Synth -> Nat], s = supply'
  PROVE  /\ Values(supply', rate)[zUSD] = supply'[zUSD] /\ values[zUSD] = supply[zUSD]
         /\ \A k \in Synth : supply'[k] = supply[k] => Values(supply', rate)[k] = values[k]
<1>1. rate \in [Synth -> Nat] /\ rate[zUSD] = Unit /\ supply \in [Synth -> Nat]
  BY DEF IInv, TypeOK
<1>2. Values(s, rate)[zUSD] = s[zUSD] /\ Values(supply, rate)[zUSD] = supply[zUSD]
  BY <1>1, ValueOfzUSD
<1>3. \A k \in Synth : s[k] = supply[k] => Values(s, rate)[k] = Values(supply, rate)[k]
  BY DEF Values
<1>4. QED
  BY <1>2, <1>3 DEF values

(* The steps that the cache is told exactly.                               *)
LEMMA ExactIssue ==
  ASSUME IInv, Exact, NEW amount \in Amount,
         issueSynths(amount) \/ \E k \in Synth : issueSynthsWithoutDebt(k, amount)
  PROVE  Exact'
<1>1. /\ supply \in [Synth -> Nat] /\ amount \in Nat /\ zUSD \in Synth /\ rate[zUSD] = Unit
      /\ cache \in Cache /\ listed \subseteq Synth
  BY PoolAmountAssumption, SynthAssumption DEF IInv, TypeOK
<1>2. multiplyDecimal(amount, Unit, Unit) = amount
  BY <1>1, UnitAssumption, MultiplyByUnit
<1>3. /\ UNCHANGED <<listed, world, excludedIssued>>
      /\ undisturbed' => /\ undisturbed /\ supply' = Moved(supply, zUSD, amount)
                         /\ cache' = updateCachedsUSDDebt(cache, amount)
  <2>1. CASE issueSynths(amount)
    BY <2>1 DEF issueSynths
  <2>2. CASE \E k \in Synth : issueSynthsWithoutDebt(k, amount)
    <3>1. PICK k \in Synth : issueSynthsWithoutDebt(k, amount)
      BY <2>2
    <3>2. /\ undisturbed' = (undisturbed /\ k = zUSD)
          /\ supply' = Moved(supply, k, amount)
          /\ cache' = updateCachedsUSDDebt(cache, multiplyDecimal(amount, rate[k], Unit))
          /\ UNCHANGED <<listed, world, excludedIssued>>
      BY <3>1 DEF issueSynthsWithoutDebt
    <3>3. ASSUME k = zUSD
          PROVE  cache' = updateCachedsUSDDebt(cache, amount)
      <4>1. rate[k] = Unit
        BY <1>1, <3>3
      <4>2. QED
        BY <1>2, <3>2, <4>1
    <3>4. QED
      BY <3>2, <3>3
  <2>3. QED
    BY <2>1, <2>2
<1>4. ASSUME undisturbed', ~cache'.invalid
      PROVE  /\ undisturbed /\ ~cache.invalid
             /\ Gap(cache') = Gap(cache)
             /\ cache'.futures = cache.futures /\ cache'.excluded = cache.excluded
             /\ \A k \in listed : \/ cache'.synthDebt[k] = Values(supply', rate)[k]
                                  \/ /\ cache'.synthDebt[k] = cache.synthDebt[k]
                                     /\ Values(supply', rate)[k] = values[k]
  <2>1. undisturbed /\ supply' = Moved(supply, zUSD, amount)
        /\ cache' = updateCachedsUSDDebt(cache, amount)
    BY <1>3, <1>4
  <2>2. CanUpdateCachedsUSDDebt(cache, amount) /\ amount \in Int
    BY <1>1 DEF CanUpdateCachedsUSDDebt, Cache
  <2>3. /\ Gap(cache') = Gap(cache)
        /\ cache'.futures = cache.futures /\ cache'.excluded = cache.excluded
        /\ cache'.invalid = cache.invalid
        /\ cache'.synthDebt = [cache.synthDebt EXCEPT ![zUSD] = cache.synthDebt[zUSD] + amount]
    BY <1>1, <2>1, <2>2, USDKeepsGap
  <2>4. /\ supply' \in [Synth -> Nat] /\ supply'[zUSD] = supply[zUSD] + amount
        /\ \A k \in Synth : k # zUSD => supply'[k] = supply[k]
    BY <1>1, <2>1 DEF Moved
  <2>5. /\ Values(supply', rate)[zUSD] = supply'[zUSD] /\ values[zUSD] = supply[zUSD]
        /\ \A k \in Synth : supply'[k] = supply[k] => Values(supply', rate)[k] = values[k]
    BY <2>4, ValueOfMoved
  <2>6. cache.synthDebt[zUSD] = values[zUSD]
    BY <1>4, <2>1, <2>3 DEF Exact, IInv, TypeOK
  <2>7. cache.synthDebt \in [Synth -> Nat]
    BY <1>1 DEF Cache
  <2>8. ASSUME NEW k \in listed
        PROVE  \/ cache'.synthDebt[k] = Values(supply', rate)[k]
               \/ /\ cache'.synthDebt[k] = cache.synthDebt[k]
                  /\ Values(supply', rate)[k] = values[k]
    <3>1. CASE k = zUSD
      BY <1>1, <2>3, <2>4, <2>5, <2>6, <2>7, <3>1
    <3>2. CASE k # zUSD
      BY <1>1, <2>3, <2>4, <2>5, <2>7, <3>2
    <3>3. QED
      BY <3>1, <3>2
  <2>9. QED
    BY <1>4, <2>1, <2>3, <2>8
<1>5. QED
  BY <1>3, <1>4, ExactWhen

(* A settlement leaves an exact cache exact.                               *)
LEMMA SettledIsExact ==
  ASSUME IInv, NEW k \in Synth, NEW difference \in Int, CanSettle(k, difference),
         NEW s, s = SettledSupply(k, difference),
         NEW c, c = SettledCache(k, difference),
         \A j \in listed : cache.synthDebt[j] = values[j]
  PROVE  \A j \in listed : c.synthDebt[j] = Values(s, rate)[j]
<1>1. /\ \A j \in Synth : c.synthDebt[j] =
           IF j = k /\ difference # 0 THEN Values(s, rate)[k] ELSE cache.synthDebt[j]
      /\ difference = 0 => s = supply
  BY SettleKeeps
<1>2. listed \subseteq Synth /\ supply \in [Synth -> Nat]
  BY DEF IInv, TypeOK
<1>3. \A j \in Synth : j # k => s[j] = supply[j]
  BY <1>2 DEF SettledSupply, Moved
<1>4. \A j \in Synth : s[j] = supply[j] => Values(s, rate)[j] = values[j]
  BY DEF values, Values
<1>5. ASSUME NEW j \in listed PROVE c.synthDebt[j] = Values(s, rate)[j]
  <2>1. CASE j = k /\ difference # 0
    BY <1>1, <1>2, <2>1
  <2>2. CASE j # k
    BY <1>1, <1>2, <1>3, <1>4, <2>2
  <2>3. CASE difference = 0
    BY <1>1, <1>2, <1>4, <2>3
  <2>4. QED
    BY <2>1, <2>2, <2>3
<1>6. QED
  BY <1>5

LEMMA ExactSettle ==
  ASSUME IInv, Exact, NEW k \in Synth, NEW difference \in Difference, settle(k, difference)
  PROVE  Exact'
<1>1. /\ difference \in Int /\ CanSettle(k, difference)
      /\ supply' = SettledSupply(k, difference) /\ cache' = SettledCache(k, difference)
      /\ UNCHANGED <<listed, world, settling, excludedIssued, imported, undisturbed>>
  BY PoolAmountAssumption DEF settle
<1>2. /\ Gap(cache') = Gap(cache)
      /\ cache'.futures = cache.futures /\ cache'.excluded = cache.excluded
      /\ ~cache'.invalid => ~cache.invalid
  BY <1>1, SettleKeeps
<1>3. ASSUME undisturbed, ~cache.invalid
      PROVE  \A j \in listed : cache'.synthDebt[j] = Values(supply', rate)[j]
  <2>1. \A j \in listed : cache.synthDebt[j] = values[j]
    BY <1>3 DEF Exact
  <2>2. QED
    BY <1>1, <2>1, SettledIsExact
<1>4. QED
  BY <1>1, <1>2, <1>3, ExactWhen

\* Burning zUSD after a settlement.
LEMMA ExactBurn ==
  ASSUME IInv, Exact, NEW k \in Synth, NEW difference \in Difference, NEW amount \in Amount,
         burnSynths(difference, amount) \/ burnSynthsWithoutDebt(k, difference, amount)
  PROVE  Exact'
<1>1. /\ amount \in Nat /\ difference \in Int /\ zUSD \in Synth /\ rate[zUSD] = Unit
      /\ zUSD \in listed /\ listed \subseteq Synth /\ rate \in [Synth -> Nat]
  BY PoolAmountAssumption, SynthAssumption DEF IInv, TypeOK
<1>2. multiplyDecimal(amount, Unit, Unit) = amount
  BY <1>1, UnitAssumption, MultiplyByUnit
<1>3. /\ UNCHANGED <<listed, world, excludedIssued>>
      /\ undisturbed' => burnSynths(difference, amount)
  <2>1. CASE burnSynths(difference, amount)
    BY <2>1 DEF burnSynths
  <2>2. CASE burnSynthsWithoutDebt(k, difference, amount)
    <3>1. /\ undisturbed' = (undisturbed /\ k = zUSD)
          /\ UNCHANGED <<listed, world, settling, excludedIssued, imported>>
      BY <2>2 DEF burnSynthsWithoutDebt
    <3>2. ASSUME undisturbed'
          PROVE  burnSynths(difference, amount)
      <4> DEFINE value == multiplyDecimal(amount, rate[zUSD], Unit)
                 settled == SettledCache(zUSD, difference)
      <4>1. k = zUSD /\ undisturbed /\ undisturbed' = undisturbed
        BY <3>1, <3>2
      <4>2. /\ CanSettle(zUSD, difference)
            /\ supply' = Moved(SettledSupply(zUSD, difference), zUSD, -amount)
            /\ Fits(supply')
            /\ CanUpdateCachedsUSDDebt(settled, -value)
            /\ cache' = updateCachedsUSDDebt(settled, -value)
        BY <2>2, <4>1 DEF burnSynthsWithoutDebt
      <4>3. value = amount
        BY <1>1, <1>2
      <4> HIDE DEF value
      <4>4. QED
        BY <3>1, <4>1, <4>2, <4>3 DEF burnSynths
    <3>3. QED
      BY <3>1, <3>2
  <2>3. QED
    BY <2>1, <2>2
<1>4. ASSUME undisturbed', ~cache'.invalid
      PROVE  /\ undisturbed /\ ~cache.invalid
             /\ Gap(cache') = Gap(cache)
             /\ cache'.futures = cache.futures /\ cache'.excluded = cache.excluded
             /\ \A j \in listed : cache'.synthDebt[j] = Values(supply', rate)[j]
  <2> DEFINE s == SettledSupply(zUSD, difference)
             c == SettledCache(zUSD, difference)
             n == -amount
  <2>1. /\ undisturbed /\ CanSettle(zUSD, difference) /\ supply' = Moved(s, zUSD, n)
        /\ Fits(supply')
        /\ CanUpdateCachedsUSDDebt(c, n) /\ cache' = updateCachedsUSDDebt(c, n)
    BY <1>3, <1>4 DEF burnSynths
  <2>2. /\ s \in [Synth -> Nat] /\ c \in Cache /\ Gap(c) = Gap(cache)
        /\ c.futures = cache.futures /\ c.excluded = cache.excluded
        /\ ~c.invalid => ~cache.invalid
    BY <1>1, <2>1, SettleKeeps
  <2>3. (\A j \in listed : cache.synthDebt[j] = values[j]) =>
          \A j \in listed : c.synthDebt[j] = Values(s, rate)[j]
    BY <1>1, <2>1, SettledIsExact
  <2>4. n \in Int
    BY <1>1
  <2> HIDE DEF s, c, n
  <2>5. /\ Gap(cache') = Gap(c)
        /\ cache'.futures = c.futures /\ cache'.excluded = c.excluded
        /\ cache'.invalid = c.invalid
        /\ cache'.synthDebt = [c.synthDebt EXCEPT ![zUSD] = c.synthDebt[zUSD] + n]
    BY <2>1, <2>2, <2>4, USDKeepsGap
  <2>6. ~cache.invalid
    BY <1>4, <2>2, <2>5
  <2>7. \A j \in listed : c.synthDebt[j] = Values(s, rate)[j]
    BY <2>1, <2>3, <2>6 DEF Exact
  <2>8. /\ supply' \in [Synth -> Nat] /\ supply'[zUSD] = s[zUSD] + n
        /\ \A j \in Synth : j # zUSD => supply'[j] = s[j]
    <3>1. supply' \in [Synth -> Nat]
      BY <1>1, <2>1, <2>2, <2>4, BurnFits
    <3>2. QED
      BY <1>1, <2>1, <2>2, <3>1 DEF Moved
  <2>9. c.synthDebt \in [Synth -> Nat]
    BY <2>2 DEF Cache
  <2>10. Values(supply', rate)[zUSD] = supply'[zUSD] /\ Values(s, rate)[zUSD] = s[zUSD]
    BY <1>1, <2>2, <2>8, ValueOfMoved, ValueOfzUSD
  <2>11. \A j \in Synth : supply'[j] = s[j] => Values(supply', rate)[j] = Values(s, rate)[j]
    BY DEF Values
  <2>12. ASSUME NEW j \in listed PROVE cache'.synthDebt[j] = Values(supply', rate)[j]
    <3>1. CASE j = zUSD
      BY <1>1, <2>5, <2>7, <2>8, <2>9, <2>10, <3>1
    <3>2. CASE j # zUSD
      BY <1>1, <2>5, <2>7, <2>8, <2>9, <2>11, <3>2
    <3>3. QED
      BY <3>1, <3>2
  <2>13. QED
    BY <2>1, <2>2, <2>5, <2>6, <2>12
<1>5. QED
  BY <1>3, <1>4, ExactWhen

LEMMA ExactUpdate ==
  ASSUME IInv, Exact, NEW keys \in SUBSET Synth, UpdateCachedSynthDebts(keys)
  PROVE  Exact'
<1>1. /\ CanUpdateCachedSynthDebts(cache, keys, values)
      /\ cache' = _updateCachedSynthDebtsWithRates(cache, keys, values, AnyRateInvalid(keys))
      /\ UNCHANGED <<listed, supply, world, settling, excludedIssued, imported, undisturbed>>
  BY DEF UpdateCachedSynthDebts
<1>2. /\ values \in [Synth -> Nat] /\ cache \in Cache /\ AnyRateInvalid(keys) \in BOOLEAN
      /\ listed \subseteq Synth
  BY ValuesNow DEF IInv, TypeOK, AnyRateInvalid
<1>3. /\ Updated(cache, keys, values, cache')
      /\ cache'.invalid = (cache.invalid \/ AnyRateInvalid(keys))
  BY <1>1, <1>2, UpdateUpdates
<1>4. /\ Gap(cache') = Gap(cache)
      /\ cache'.futures = cache.futures /\ cache'.excluded = cache.excluded
      /\ \A j \in Synth : cache'.synthDebt[j] =
           IF j \in keys THEN values[j] ELSE cache.synthDebt[j]
  BY <1>1, <1>2, <1>3, UpdateKeepsGap
<1>5. Values(supply', rate) = values
  BY <1>1 DEF values
<1>6. QED
  BY <1>1, <1>2, <1>3, <1>4, <1>5, ExactWhen

LEMMA ExactExchange ==
  ASSUME IInv, Exact, NEW source \in Synth, NEW dest \in Synth, NEW difference \in Difference,
         NEW paid \in Amount, NEW received \in Amount, NEW fee \in Amount \cup {0},
         exchange(source, dest, difference, paid, received, fee)
  PROVE  Exact'
<1> DEFINE settled == SettledSupply(source, difference)
           burnt   == Moved(settled, source, -paid)
           issued  == Moved(burnt, dest, received)
           keys    == {source, dest, zUSD}
           after   == Values(supply', rate)
<1>1. /\ supply' = Moved(issued, zUSD, fee) /\ Fits(supply')
      /\ CanUpdateCachedSynthDebts(cache, keys, after)
      /\ cache' = _updateCachedSynthDebtsWithRates(cache, keys, after, FALSE)
      /\ UNCHANGED <<listed, world, owing, excludedIssued, imported, undisturbed>>
  BY DEF exchange
<1>2. /\ supply \in [Synth -> Int] /\ rate \in [Synth -> Nat] /\ cache \in Cache
      /\ difference \in Int /\ -paid \in Int /\ received \in Int /\ fee \in Int
      /\ zUSD \in Synth /\ listed \subseteq Synth
  BY PoolAmountAssumption, SynthAssumption DEF IInv, TypeOK
<1>3. settled \in [Synth -> Int]
  BY <1>2, MovedType DEF SettledSupply
<1>4. burnt \in [Synth -> Int]
  BY <1>2, <1>3, MovedType
<1>5. issued \in [Synth -> Int]
  BY <1>2, <1>4, MovedType
<1>6. \A j \in Synth : j \notin {source, dest} => issued[j] = supply[j]
  BY <1>2, <1>3, <1>4 DEF Moved, SettledSupply
<1> HIDE DEF issued
<1>7. \A j \in Synth \ keys : supply'[j] = supply[j]
  BY <1>1, <1>2, <1>5, <1>6 DEF Moved
<1>8. supply' \in [Synth -> Nat]
  <2>1. supply' \in [Synth -> Int]
    BY <1>1, <1>2, <1>5, MovedType
  <2>2. QED
    BY <1>1, <2>1, FitsType
<1>9. after \in [Synth -> Nat]
  BY <1>2, <1>8, ValuesType
<1>10. \A j \in Synth \ keys : after[j] = values[j]
  BY <1>7, <1>8, ValueOfMoved
<1>11. keys \in SUBSET Synth
  BY <1>2
<1> HIDE DEF after, keys
<1>12. /\ Gap(cache') = Gap(cache)
       /\ cache'.futures = cache.futures /\ cache'.excluded = cache.excluded
       /\ cache'.invalid = cache.invalid
       /\ \A j \in Synth : cache'.synthDebt[j] = IF j \in keys THEN after[j] ELSE cache.synthDebt[j]
  <2>1. /\ cache \in Cache /\ CanUpdateCachedSynthDebts(cache, keys, after)
        /\ FALSE \in BOOLEAN
    BY <1>1, <1>2
  <2>2. cache.invalid \in BOOLEAN
    BY <2>1 DEF Cache
  <2>3. Updated(cache, keys, after, cache') /\ cache'.invalid = (cache.invalid \/ FALSE)
    BY <1>1, <2>1, UpdateUpdates
  <2>4. /\ Gap(cache') = Gap(cache)
        /\ cache'.futures = cache.futures /\ cache'.excluded = cache.excluded
        /\ \A j \in Synth : cache'.synthDebt[j] = IF j \in keys THEN after[j] ELSE cache.synthDebt[j]
    BY <1>9, <1>11, <2>1, <2>3, UpdateKeepsGap
  <2>5. QED
    BY <2>2, <2>3, <2>4
<1>13. ASSUME NEW j \in listed
       PROVE  \/ cache'.synthDebt[j] = Values(supply', rate)[j]
              \/ /\ cache'.synthDebt[j] = cache.synthDebt[j]
                 /\ Values(supply', rate)[j] = values[j]
  BY <1>2, <1>10, <1>12 DEF after
<1>14. UNCHANGED <<listed, world, excludedIssued>> /\ undisturbed' = undisturbed
  BY <1>1
<1>15. QED
  BY <1>12, <1>13, <1>14, ExactWhen

(* Steps that the cache is not told of, and after which it is exact only   *)
(* if it need not be.                                                      *)
LEMMA ExactRedeem ==
  ASSUME IInv, Exact, NEW k \in Synth, NEW amount \in Amount, burnForRedemption(k, amount)
  PROVE  Exact'
<1>1. /\ supply' = Moved(supply, k, -amount) /\ Fits(supply')
      /\ undisturbed' = (undisturbed /\ k \notin listed)
      /\ UNCHANGED <<listed, world, settling, excludedIssued, imported, cache>>
      /\ supply \in [Synth -> Nat] /\ -amount \in Int /\ listed \subseteq Synth
  BY PoolAmountAssumption DEF burnForRedemption, IInv, TypeOK
<1>2. supply' \in [Synth -> Nat]
  BY <1>1, BurnFits
<1>3. \A j \in Synth : j # k => supply'[j] = supply[j]
  BY <1>1 DEF Moved
<1>4. k \notin listed => \A j \in listed : Values(supply', rate)[j] = values[j]
  BY <1>1, <1>2, <1>3, ValueOfMoved
<1>5. undisturbed' => undisturbed /\ k \notin listed
  BY <1>1
<1>6. QED
  BY <1>1, <1>4, <1>5, ExactUntold

LEMMA ExactAborted ==
  ASSUME IInv, Exact, NEW source \in Synth, NEW dest \in Synth, NEW difference \in Difference,
         exchangeAborted(source, dest, difference)
  PROVE  Exact'
<1>1. /\ supply' = Moved(supply, source, difference)
      /\ undisturbed' = (undisturbed /\ difference = 0)
      /\ UNCHANGED <<listed, world, settling, excludedIssued, imported, cache>>
      /\ supply \in [Synth -> Nat]
  BY DEF exchangeAborted, SettledSupply, IInv, TypeOK
<1>2. ASSUME difference = 0
      PROVE  Values(supply', rate) = values
  <2>1. supply' = supply
    BY <1>1, <1>2 DEF Moved
  <2>2. QED
    BY <2>1 DEF values
<1>3. QED
  BY <1>1, <1>2, ExactUntold

LEMMA ExactSame ==
  ASSUME Exact, UNCHANGED <<listed, supply, world, excludedIssued, cache>>,
         undisturbed' => undisturbed
  PROVE  Exact'
<1>1. Values(supply', rate) = values
  BY DEF values
<1>2. QED
  BY <1>1, ExactUntold

LEMMA ExactPurge ==
  ASSUME IInv, Exact, NEW key \in Synth, PurgeCachedSynthDebt(key)
  PROVE  Exact'
<1>1. cache.synthDebt \in [Synth -> Nat] /\ cache.synthDebt[key] = 0 /\ cache \in Cache
  BY DEF IInv, TypeOK, Cache, PurgeCachedSynthDebt, UnlistedHaveNoCachedDebt
<1>2. [cache.synthDebt EXCEPT ![key] = 0] = cache.synthDebt
  BY <1>1
<1>3. cache' = [cache EXCEPT !.synthDebt = cache.synthDebt]
  BY <1>2 DEF PurgeCachedSynthDebt, purgeCachedSynthDebt
<1>4. cache' = cache
  BY <1>1, <1>3 DEF Cache
<1>5. QED
  BY <1>4, ExactSame DEF PurgeCachedSynthDebt

LEMMA ExactPrice ==
  ASSUME IInv, Exact, NEW k \in Synth, NEW reading \in Reading, priceMoves(k, reading)
  PROVE  Exact'
<1>1. /\ undisturbed' = (undisturbed /\ rate' = rate)
      /\ UNCHANGED <<listed, supply, futuresDebt, othersDebt, excludedIssued, cache>>
  BY DEF priceMoves
<1>2. ASSUME undisturbed', ~cache'.invalid
      PROVE  /\ Gap(cache') = 0 /\ cache'.futures = futuresDebt'
             /\ cache'.excluded = excludedDebt'
             /\ \A j \in listed' : cache'.synthDebt[j] = values'[j]
  <2>1. rate' = rate /\ undisturbed /\ ~cache.invalid
    BY <1>1, <1>2
  <2>2. values' = values /\ excludedDebt' = excludedDebt
    BY <1>1, <2>1 DEF values, excludedDebt
  <2>3. QED
    BY <1>1, <2>1, <2>2 DEF Exact
<1>3. QED
  BY <1>2 DEF Exact

\* Steps after which nothing is promised.
Promised == undisturbed /\ ~cache.invalid

LEMMA ExactVoid == ASSUME ~Promised' PROVE Exact'
BY DEF Promised, Exact

LEMMA AddInvalidates == ASSUME IInv, NEW keys, addSynths(keys) PROVE cache'.invalid
<1>1. cache' = updateDebtCacheValidity(cache, TRUE) /\ cache \in Cache
  BY DEF addSynths, IInv, TypeOK
<1>2. QED
  BY <1>1, Invalidated

LEMMA RemoveInvalidates ==
  ASSUME IInv, NEW keys \in SUBSET Synth, removeSynths(keys) PROVE cache'.invalid
<1> DEFINE nothing  == [k \in Synth |-> 0]
           updated  == _updateCachedSynthDebtsWithRates(cache, keys, nothing, FALSE)
           cleared  == updateDebtCacheValidity(updated, TRUE)
           redeemed == SumOver(values, keys)
<1>1. cache' = updateCachedsUSDDebt(cleared, redeemed) /\ cache \in Cache
  BY DEF removeSynths, IInv, TypeOK
<1>2. DOMAIN cache = {"debt", "synthDebt", "futures", "excluded", "invalid"}
  BY <1>1 DEF Cache
<1>3. DOMAIN updated = DOMAIN cache
  BY DEF _updateCachedSynthDebtsWithRates
<1> HIDE DEF updated
<1>4. DOMAIN cleared = DOMAIN cache /\ cleared.invalid
  BY <1>2, <1>3 DEF updateDebtCacheValidity
<1> HIDE DEF cleared, redeemed
<1>5. QED
  BY <1>1, <1>2, <1>4 DEF updateCachedsUSDDebt

(* Every step keeps the cache exact.                                       *)
LEMMA StepKeepsExact == ASSUME IInv, Exact, Next PROVE Exact'
<1>1. ASSUME NEW b \in BOOLEAN, TakeDebtSnapshot(b) PROVE Exact'
  <2>1. /\ undisturbed' => Gap(cache') = 0
        /\ cache'.futures = futuresDebt /\ cache'.excluded = excludedDebt
        /\ \A k \in Synth : cache'.synthDebt[k] = IF k \in listed THEN values[k] ELSE 0
    BY <1>1, SnapshotStep
  <2>2. UNCHANGED <<listed, supply, world, excludedIssued>> /\ listed \subseteq Synth
    BY <1>1 DEF TakeDebtSnapshot, IInv, TypeOK
  <2>3. values' = values /\ excludedDebt' = excludedDebt /\ futuresDebt' = futuresDebt
    BY <2>2 DEF values, excludedDebt, world
  <2>4. QED
    BY <2>1, <2>2, <2>3 DEF Exact
<1>2. ASSUME NEW keys \in SUBSET Synth,
             UpdateCachedSynthDebts(keys) \/ addSynths(keys) \/ removeSynths(keys)
      PROVE  Exact'
  BY <1>2, ExactUpdate, AddInvalidates, RemoveInvalidates, ExactVoid DEF Promised
<1>3. ASSUME NEW k \in Synth, PurgeCachedSynthDebt(k) PROVE Exact'
  BY <1>3, ExactPurge
<1>4. ASSUME NEW debts \in [WrappedSynth -> 0 .. DebtCap], importExcludedIssuedDebts(debts)
      PROVE  Exact'
  BY <1>4, ExactVoid DEF importExcludedIssuedDebts, Promised
<1>5. ASSUME NEW amount \in Amount, issueSynths(amount) PROVE Exact'
  BY <1>5, ExactIssue
<1>6. ASSUME NEW k \in Synth, NEW amount \in Amount,
             issueSynthsWithoutDebt(k, amount) \/ burnForRedemption(k, amount)
      PROVE  Exact'
  BY <1>6, ExactIssue, ExactRedeem
<1>7. ASSUME NEW difference \in Difference, NEW amount \in Amount,
             \/ burnSynths(difference, amount)
             \/ \E k \in Synth : burnSynthsWithoutDebt(k, difference, amount)
      PROVE  Exact'
  BY <1>7, ExactBurn, SynthAssumption
<1>8. ASSUME NEW difference \in Difference, NEW amount \in Amount,
             upgradeCollateralShort(difference, amount)
      PROVE  Exact'
  BY <1>8, ExactVoid DEF upgradeCollateralShort, Promised
<1>9. ASSUME NEW k \in Synth, NEW difference \in Difference, settle(k, difference)
      PROVE  Exact'
  BY <1>9, ExactSettle
<1>10. ASSUME NEW source \in Synth, NEW dest \in Synth, NEW difference \in Difference,
              exchangeAborted(source, dest, difference)
       PROVE  Exact'
  BY <1>10, ExactAborted
<1>11. ASSUME NEW k \in WrappedSynth, NEW delta \in Difference, NEW difference \in Difference,
              NEW fee \in Amount \cup {0},
              recordExcludedDebtChange(k, delta, difference, fee)
       PROVE  Exact'
  BY <1>11, ExactVoid DEF recordExcludedDebtChange, Promised
<1>12. ASSUME NEW source \in Synth, NEW dest \in Synth, NEW difference \in Difference,
              NEW paid \in Amount, NEW received \in Amount, NEW fee \in Amount \cup {0},
              exchange(source, dest, difference, paid, received, fee)
       PROVE  Exact'
  BY <1>12, ExactExchange
<1>13. ASSUME NEW futures \in 0 .. DebtCap, NEW others \in 0 .. OthersCap,
              NEW k \in Synth, NEW difference \in Difference,
              othersIssue(futures, others, k, difference)
       PROVE  Exact'
  BY <1>13, ExactVoid DEF othersIssue, Promised
<1>14. ASSUME NEW k \in Synth, NEW reading \in Reading, priceMoves(k, reading)
       PROVE  Exact'
  BY <1>14, ExactPrice
<1>15. QED
  BY <1>1, <1>2, <1>3, <1>4, <1>5, <1>6, <1>7, <1>8, <1>9, <1>10, <1>11, <1>12, <1>13,
     <1>14 DEF Next

(* Since a snapshot, while no price and no debt of others moves, a valid   *)
(* cache equals the debt a snapshot would find, whatever synths are issued,*)
(* burnt, exchanged or settled in between, and removed ones redeemed.  The *)
(* redemption of a synth that is listed again ends the promise, as the     *)
(* bridging of another synth than zUSD does: the code tells the cache      *)
(* nothing of the one, and books the other elsewhere.                      *)
THEOREM CacheStaysExact == Spec => []CacheExactWhileUndisturbed
<1>1. Init => Exact
  <2>1. Init => cache.invalid
    BY DEF Init, NewCache
  <2>2. QED
    BY <2>1 DEF Exact
<1>2. IInv /\ Exact /\ [Next]_vars => Exact'
  <2>1. ASSUME IInv, Exact, UNCHANGED vars PROVE Exact'
    BY <2>1, ExactSame DEF vars, world
  <2>2. QED
    BY <2>1, StepKeepsExact
<1>3. IInv /\ Exact => CacheExactWhileUndisturbed
  BY ExactTotal
<1>4. QED
  BY <1>1, <1>2, <1>3, PoolInvariant, PTL DEF Spec

-----------------------------------------------------------------------------
(* When the cache says it is valid *)

\* What every step but a snapshot does to the validity.
Honest ==
  /\ cache.invalid => cache'.invalid
  /\ \A k \in Synth :
       rateInvalid[k] /\ cache'.synthDebt[k] # cache.synthDebt[k] => cache'.invalid

LEMMA HonestUntold == ASSUME UNCHANGED cache PROVE Honest
BY DEF Honest

LEMMA HonestVoid == ASSUME cache'.invalid PROVE Honest
BY DEF Honest

LEMMA HonestUpdate ==
  ASSUME IInv, NEW keys \in SUBSET Synth, UpdateCachedSynthDebts(keys) PROVE Honest
<1>1. cache' = _updateCachedSynthDebtsWithRates(cache, keys, values, AnyRateInvalid(keys))
      /\ cache \in Cache /\ AnyRateInvalid(keys) \in BOOLEAN
  BY DEF UpdateCachedSynthDebts, IInv, TypeOK, AnyRateInvalid
<1>2. /\ Updated(cache, keys, values, cache')
      /\ cache'.invalid = (cache.invalid \/ AnyRateInvalid(keys))
  BY <1>1, UpdateUpdates
<1>3. \A k \in Synth : k \notin keys => cache'.synthDebt[k] = cache.synthDebt[k]
  BY <1>2 DEF Updated
<1>4. \A k \in keys : rateInvalid[k] => AnyRateInvalid(keys)
  BY DEF AnyRateInvalid
<1>5. QED
  BY <1>2, <1>3, <1>4 DEF Honest

\* Only the entry of zUSD moves, whose rate is always valid.
LEMMA HonestUSD ==
  ASSUME IInv, NEW c \in Cache, NEW n \in Int, CanUpdateCachedsUSDDebt(c, n),
         cache' = updateCachedsUSDDebt(c, n),
         cache.invalid => c.invalid,
         \A k \in Synth : rateInvalid[k] /\ c.synthDebt[k] # cache.synthDebt[k] => c.invalid
  PROVE  Honest
<1>1. /\ cache'.invalid = c.invalid
      /\ cache'.synthDebt = [c.synthDebt EXCEPT ![zUSD] = c.synthDebt[zUSD] + n]
  BY USDKeepsGap
<1>2. c.synthDebt \in [Synth -> Nat] /\ ~rateInvalid[zUSD]
  BY DEF Cache, IInv, TypeOK
<1>3. QED
  BY <1>1, <1>2 DEF Honest

LEMMA HonestIssue ==
  ASSUME IInv, NEW amount \in Amount,
         issueSynths(amount) \/ \E k \in Synth : issueSynthsWithoutDebt(k, amount)
  PROVE  Honest
<1>1. PICK n \in Nat : cache' = updateCachedsUSDDebt(cache, n)
  <2>1. CASE issueSynths(amount)
    BY <2>1, PoolAmountAssumption DEF issueSynths
  <2>2. CASE \E k \in Synth : issueSynthsWithoutDebt(k, amount)
    <3>1. PICK k \in Synth : issueSynthsWithoutDebt(k, amount)
      BY <2>2
    <3>2. multiplyDecimal(amount, rate[k], Unit) \in Nat
      BY ValueType, PoolAmountAssumption DEF IInv, TypeOK
    <3>3. QED
      BY <3>1, <3>2 DEF issueSynthsWithoutDebt
  <2>3. QED
    BY <2>1, <2>2
<1>2. cache \in Cache
  BY DEF IInv, TypeOK
<1>3. CanUpdateCachedsUSDDebt(cache, n)
  BY <1>2, SynthAssumption DEF CanUpdateCachedsUSDDebt, Cache
<1>4. QED
  BY <1>1, <1>2, <1>3, HonestUSD

LEMMA SettledIsHonest ==
  ASSUME IInv, NEW k \in Synth, NEW difference \in Int, CanSettle(k, difference),
         NEW c, c = SettledCache(k, difference)
  PROVE  /\ c \in Cache
         /\ cache.invalid => c.invalid
         /\ \A j \in Synth :
              rateInvalid[j] /\ c.synthDebt[j] # cache.synthDebt[j] => c.invalid
<1> DEFINE s == SettledSupply(k, difference)
<1>1. /\ c \in Cache
      /\ ~c.invalid => ~cache.invalid /\ (difference # 0 => ~rateInvalid[k])
      /\ cache.invalid => c.invalid
      /\ \A j \in Synth : c.synthDebt[j] =
           IF j = k /\ difference # 0 THEN Values(s, rate)[k] ELSE cache.synthDebt[j]
  BY SettleKeeps
<1>2. QED
  BY <1>1

LEMMA HonestSettle ==
  ASSUME IInv, NEW k \in Synth, NEW difference \in Difference, settle(k, difference)
  PROVE  Honest
<1>1. /\ difference \in Int /\ CanSettle(k, difference)
      /\ cache' = SettledCache(k, difference)
  BY PoolAmountAssumption DEF settle
<1>2. QED
  BY <1>1, SettledIsHonest DEF Honest

LEMMA HonestBurn ==
  ASSUME IInv, NEW k \in Synth, NEW difference \in Difference, NEW amount \in Amount,
         \/ burnSynths(difference, amount)
         \/ burnSynthsWithoutDebt(k, difference, amount)
         \/ upgradeCollateralShort(difference, amount)
  PROVE  Honest
<1>1. CASE upgradeCollateralShort(difference, amount)
  <2>1. /\ difference \in Int /\ CanSettle(zUSD, difference)
        /\ cache' = SettledCache(zUSD, difference) /\ zUSD \in Synth
    BY <1>1, PoolAmountAssumption, SynthAssumption DEF upgradeCollateralShort
  <2>2. QED
    BY <2>1, SettledIsHonest DEF Honest
<1>2. CASE burnSynths(difference, amount) \/ burnSynthsWithoutDebt(k, difference, amount)
  <2>1. PICK j \in Synth, n \in Int :
          /\ CanSettle(j, difference)
          /\ CanUpdateCachedsUSDDebt(SettledCache(j, difference), n)
          /\ cache' = updateCachedsUSDDebt(SettledCache(j, difference), n)
    <3>1. CASE burnSynths(difference, amount)
      <4>1. zUSD \in Synth /\ -amount \in Int
        BY SynthAssumption, PoolAmountAssumption
      <4>2. QED
        BY <3>1, <4>1 DEF burnSynths
    <3>2. CASE burnSynthsWithoutDebt(k, difference, amount)
      <4> DEFINE value == multiplyDecimal(amount, rate[k], Unit)
      <4>1. value \in Nat
        BY PoolAmountAssumption, ValueType DEF IInv, TypeOK
      <4>2. /\ CanSettle(k, difference)
            /\ CanUpdateCachedsUSDDebt(SettledCache(k, difference), -value)
            /\ cache' = updateCachedsUSDDebt(SettledCache(k, difference), -value)
        BY <3>2 DEF burnSynthsWithoutDebt
      <4> HIDE DEF value
      <4>3. -value \in Int
        BY <4>1
      <4>4. QED
        BY <4>2, <4>3
    <3>3. QED
      BY <1>2, <3>1, <3>2
  <2> DEFINE c == SettledCache(j, difference)
  <2>2. /\ c \in Cache
        /\ cache.invalid => c.invalid
        /\ \A i \in Synth :
             rateInvalid[i] /\ c.synthDebt[i] # cache.synthDebt[i] => c.invalid
    BY <2>1, SettledIsHonest, PoolAmountAssumption
  <2>3. CanUpdateCachedsUSDDebt(c, n) /\ cache' = updateCachedsUSDDebt(c, n)
    BY <2>1
  <2> HIDE DEF c
  <2>4. QED
    BY <2>2, <2>3, HonestUSD
<1>3. QED
  BY <1>1, <1>2

LEMMA HonestExchange ==
  ASSUME IInv, NEW source \in Synth, NEW dest \in Synth, NEW difference \in Difference,
         NEW paid \in Amount, NEW received \in Amount, NEW fee \in Amount \cup {0},
         exchange(source, dest, difference, paid, received, fee)
  PROVE  Honest
<1> DEFINE keys  == {source, dest, zUSD}
           after == Values(supply', rate)
<1>1. /\ ~AnyRateInvalid({source, dest})
      /\ cache' = _updateCachedSynthDebtsWithRates(cache, keys, after, FALSE)
      /\ cache \in Cache
  BY DEF exchange, IInv, TypeOK
<1>2. \A k \in keys : ~rateInvalid[k]
  BY <1>1 DEF AnyRateInvalid, IInv, TypeOK
<1> HIDE DEF keys, after
<1>3. Updated(cache, keys, after, cache') /\ cache'.invalid = (cache.invalid \/ FALSE)
  BY <1>1, UpdateUpdates
<1>4. \A k \in Synth : k \notin keys => cache'.synthDebt[k] = cache.synthDebt[k]
  BY <1>3 DEF Updated
<1>5. QED
  BY <1>2, <1>3, <1>4 DEF Honest

LEMMA HonestPurge ==
  ASSUME IInv, NEW key \in Synth, PurgeCachedSynthDebt(key) PROVE Honest
<1>1. cache.synthDebt \in [Synth -> Nat] /\ cache.synthDebt[key] = 0 /\ cache \in Cache
  BY DEF IInv, TypeOK, Cache, PurgeCachedSynthDebt, UnlistedHaveNoCachedDebt
<1>2. cache'.invalid = cache.invalid
      /\ cache'.synthDebt = [cache.synthDebt EXCEPT ![key] = 0]
  BY <1>1 DEF PurgeCachedSynthDebt, purgeCachedSynthDebt, Cache
<1>3. QED
  BY <1>1, <1>2 DEF Honest

LEMMA StepIsHonest ==
  ASSUME IInv, Next, \A b \in BOOLEAN : ~TakeDebtSnapshot(b) PROVE Honest
<1>1. ASSUME NEW keys \in SUBSET Synth,
             UpdateCachedSynthDebts(keys) \/ addSynths(keys) \/ removeSynths(keys)
      PROVE  Honest
  <2>1. CASE UpdateCachedSynthDebts(keys)
    BY <2>1, HonestUpdate
  <2>2. CASE addSynths(keys)
    BY <2>2, AddInvalidates, HonestVoid
  <2>3. CASE removeSynths(keys)
    BY <2>3, RemoveInvalidates, HonestVoid
  <2>4. QED
    BY <1>1, <2>1, <2>2, <2>3
<1>2. ASSUME NEW k \in Synth, PurgeCachedSynthDebt(k) PROVE Honest
  BY <1>2, HonestPurge
<1>3. ASSUME NEW debts \in [WrappedSynth -> 0 .. DebtCap], importExcludedIssuedDebts(debts)
      PROVE  Honest
  BY <1>3, HonestUntold DEF importExcludedIssuedDebts
<1>4. ASSUME NEW amount \in Amount, issueSynths(amount) PROVE Honest
  BY <1>4, HonestIssue
<1>5. ASSUME NEW k \in Synth, NEW amount \in Amount,
             issueSynthsWithoutDebt(k, amount) \/ burnForRedemption(k, amount)
      PROVE  Honest
  BY <1>5, HonestIssue, HonestUntold DEF burnForRedemption
<1>6. ASSUME NEW difference \in Difference, NEW amount \in Amount,
             \/ burnSynths(difference, amount)
             \/ upgradeCollateralShort(difference, amount)
             \/ \E k \in Synth : burnSynthsWithoutDebt(k, difference, amount)
      PROVE  Honest
  BY <1>6, HonestBurn, SynthAssumption
<1>7. ASSUME NEW k \in Synth, NEW difference \in Difference, settle(k, difference)
      PROVE  Honest
  BY <1>7, HonestSettle
<1>8. ASSUME NEW source \in Synth, NEW dest \in Synth, NEW difference \in Difference,
             exchangeAborted(source, dest, difference)
      PROVE  Honest
  BY <1>8, HonestUntold DEF exchangeAborted
<1>9. ASSUME NEW k \in WrappedSynth, NEW delta \in Difference, NEW difference \in Difference,
             NEW fee \in Amount \cup {0},
             recordExcludedDebtChange(k, delta, difference, fee)
      PROVE  Honest
  BY <1>9, HonestUntold DEF recordExcludedDebtChange
<1>10. ASSUME NEW source \in Synth, NEW dest \in Synth, NEW difference \in Difference,
              NEW paid \in Amount, NEW received \in Amount, NEW fee \in Amount \cup {0},
              exchange(source, dest, difference, paid, received, fee)
       PROVE  Honest
  BY <1>10, HonestExchange
<1>11. ASSUME NEW futures \in 0 .. DebtCap, NEW others \in 0 .. OthersCap,
              NEW k \in Synth, NEW difference \in Difference,
              othersIssue(futures, others, k, difference)
       PROVE  Honest
  BY <1>11, HonestUntold DEF othersIssue
<1>12. ASSUME NEW k \in Synth, NEW reading \in Reading, priceMoves(k, reading)
       PROVE  Honest
  BY <1>12, HonestUntold DEF priceMoves
<1>13. QED
  BY <1>1, <1>2, <1>3, <1>4, <1>5, <1>6, <1>7, <1>8, <1>9, <1>10, <1>11, <1>12 DEF Next

-----------------------------------------------------------------------------
(* What is taken in at an invalid rate *)

\* No value at an invalid rate is taken in unmarked, but for what is bridged.
Unbooked ==
  \A k \in Synth : rateInvalid[k] /\ ~cache'.invalid =>
    \/ supply'[k] = supply[k] /\ (k \in listed => k \in listed')
    \/ cache' = cache
    \/ Bridged(k)

\* Steps that list nothing and move only some supplies.
MovesOnly(S) == listed' = listed /\ \A k \in Synth \ S : supply'[k] = supply[k]

LEMMA UnbookedUntold == ASSUME UNCHANGED cache PROVE Unbooked
BY DEF Unbooked

LEMMA UnbookedVoid == ASSUME cache'.invalid PROVE Unbooked
BY DEF Unbooked

LEMMA UnbookedWhen ==
  ASSUME NEW S, MovesOnly(S),
         \A k \in S : rateInvalid[k] /\ ~cache'.invalid => Bridged(k)
  PROVE  Unbooked
BY DEF MovesOnly, Unbooked

LEMMA MovedMoves ==
  ASSUME IInv, NEW k \in Synth, NEW n, NEW m, listed' = listed,
         supply' = Moved(Moved(supply, k, n), k, m) \/ supply' = Moved(supply, k, n)
  PROVE  MovesOnly({k})
<1>1. supply \in [Synth -> Nat]
  BY DEF IInv, TypeOK
<1>2. \A j \in Synth \ {k} : supply'[j] = supply[j]
  BY <1>1 DEF Moved
<1>3. QED
  BY <1>2 DEF MovesOnly

(* The rate of zUSD is always valid: a step that moves no other supply     *)
(* takes in nothing at an invalid rate.                                    *)
LEMMA UnbookedUSD == ASSUME IInv, MovesOnly({zUSD}) PROVE Unbooked
<1>1. ~rateInvalid[zUSD]
  BY DEF IInv, TypeOK
<1>2. QED
  BY <1>1, UnbookedWhen

LEMMA UnbookedBridge ==
  ASSUME IInv, NEW k \in Synth, NEW difference \in Difference, NEW amount \in Amount,
         issueSynthsWithoutDebt(k, amount) \/ burnSynthsWithoutDebt(k, difference, amount)
  PROVE  Unbooked
<1>1. Bridged(k)
  BY DEF Bridged
<1>2. MovesOnly({k})
  BY MovedMoves DEF issueSynthsWithoutDebt, burnSynthsWithoutDebt, SettledSupply
<1>3. QED
  BY <1>1, <1>2, UnbookedWhen

LEMMA UnbookedUSDSteps ==
  ASSUME IInv, NEW difference \in Difference, NEW amount \in Amount,
         \/ issueSynths(amount)
         \/ burnSynths(difference, amount)
         \/ upgradeCollateralShort(difference, amount)
  PROVE  Unbooked
<1>1. zUSD \in Synth
  BY SynthAssumption
<1>2. MovesOnly({zUSD})
  <2>1. CASE issueSynths(amount)
    BY <1>1, <2>1, MovedMoves DEF issueSynths
  <2>2. CASE burnSynths(difference, amount)
    BY <1>1, <2>2, MovedMoves DEF burnSynths, SettledSupply
  <2>3. CASE upgradeCollateralShort(difference, amount)
    BY <1>1, <2>3, MovedMoves DEF upgradeCollateralShort, SettledSupply
  <2>4. QED
    BY <2>1, <2>2, <2>3
<1>3. QED
  BY <1>2, UnbookedUSD

\* A settlement that moves the supply marks what it caches.
LEMMA UnbookedSettle ==
  ASSUME IInv, NEW k \in Synth, NEW difference \in Difference, settle(k, difference)
  PROVE  Unbooked
<1>1. /\ difference \in Int /\ CanSettle(k, difference) /\ listed' = listed
      /\ supply' = SettledSupply(k, difference) /\ cache' = SettledCache(k, difference)
  BY PoolAmountAssumption DEF settle
<1>2. /\ ~cache'.invalid => (difference # 0 => ~rateInvalid[k])
      /\ difference = 0 => supply' = supply /\ cache' = cache
  BY <1>1, SettleKeeps
<1>3. CASE difference = 0
  BY <1>2, <1>3, UnbookedUntold
<1>4. CASE difference # 0
  <2>1. MovesOnly({k})
    BY <1>1, MovedMoves DEF SettledSupply
  <2>2. QED
    BY <1>2, <1>4, <2>1, UnbookedWhen
<1>5. QED
  BY <1>3, <1>4

\* The rates of the source and of the destination were checked.
LEMMA UnbookedExchange ==
  ASSUME IInv, NEW source \in Synth, NEW dest \in Synth, NEW difference \in Difference,
         NEW paid \in Amount, NEW received \in Amount, NEW fee \in Amount \cup {0},
         exchange(source, dest, difference, paid, received, fee)
  PROVE  Unbooked
<1> DEFINE settled == Moved(supply, source, difference)
           burnt   == Moved(settled, source, -paid)
           issued  == Moved(burnt, dest, received)
<1>1. /\ ~AnyRateInvalid({source, dest}) /\ listed' = listed
      /\ supply' = Moved(issued, zUSD, fee)
  BY DEF exchange, SettledSupply
<1>2. supply \in [Synth -> Nat] /\ ~rateInvalid[zUSD]
  BY DEF IInv, TypeOK
<1>3. \A k \in {source, dest, zUSD} : ~rateInvalid[k]
  BY <1>1, <1>2 DEF AnyRateInvalid
<1>4. \A k \in Synth \ {source, dest, zUSD} : supply'[k] = supply[k]
  <2>1. \A k \in Synth \ {source} : burnt[k] = supply[k]
    BY <1>2 DEF Moved
  <2>2. DOMAIN burnt = Synth
    BY <1>2 DEF Moved
  <2> HIDE DEF burnt
  <2>3. \A k \in Synth \ {dest} : issued[k] = burnt[k]
    BY <2>2 DEF Moved
  <2>4. DOMAIN issued = Synth
    BY <2>2 DEF Moved
  <2> HIDE DEF issued
  <2>5. \A k \in Synth \ {zUSD} : supply'[k] = issued[k]
    BY <1>1, <2>4 DEF Moved
  <2>6. QED
    BY <2>1, <2>3, <2>5
<1> DEFINE moved == {source, dest, zUSD}
<1>5. MovesOnly(moved) /\ \A k \in moved : rateInvalid[k] /\ ~cache'.invalid => Bridged(k)
  BY <1>1, <1>3, <1>4 DEF MovesOnly
<1> HIDE DEF moved
<1>6. QED
  BY <1>5, UnbookedWhen

LEMMA StepIsUnbooked ==
  ASSUME IInv, Next PROVE Unbooked
<1>1. ASSUME NEW b \in BOOLEAN, TakeDebtSnapshot(b) PROVE Unbooked
  BY <1>1 DEF TakeDebtSnapshot, Unbooked
<1>2. ASSUME NEW keys \in SUBSET Synth,
             UpdateCachedSynthDebts(keys) \/ addSynths(keys) \/ removeSynths(keys)
      PROVE  Unbooked
  <2>1. CASE UpdateCachedSynthDebts(keys)
    BY <2>1 DEF UpdateCachedSynthDebts, Unbooked
  <2>2. CASE addSynths(keys)
    BY <2>2, AddInvalidates, UnbookedVoid
  <2>3. CASE removeSynths(keys)
    BY <2>3, RemoveInvalidates, UnbookedVoid
  <2>4. QED
    BY <1>2, <2>1, <2>2, <2>3
<1>3. ASSUME NEW k \in Synth, PurgeCachedSynthDebt(k) PROVE Unbooked
  BY <1>3 DEF PurgeCachedSynthDebt, Unbooked
<1>4. ASSUME NEW debts \in [WrappedSynth -> 0 .. DebtCap], importExcludedIssuedDebts(debts)
      PROVE  Unbooked
  BY <1>4, UnbookedUntold DEF importExcludedIssuedDebts
<1>5. ASSUME NEW amount \in Amount, issueSynths(amount) PROVE Unbooked
  <2>1. zUSD \in Synth
    BY SynthAssumption
  <2>2. MovesOnly({zUSD})
    BY <1>5, <2>1, MovedMoves DEF issueSynths
  <2>3. QED
    BY <2>2, UnbookedUSD
<1>6. ASSUME NEW k \in Synth, NEW amount \in Amount,
             issueSynthsWithoutDebt(k, amount) \/ burnForRedemption(k, amount)
      PROVE  Unbooked
  <2>1. CASE issueSynthsWithoutDebt(k, amount)
    <3>1. Bridged(k)
      BY <2>1 DEF Bridged
    <3>2. MovesOnly({k})
      BY <2>1, MovedMoves DEF issueSynthsWithoutDebt
    <3>3. QED
      BY <3>1, <3>2, UnbookedWhen
  <2>2. CASE burnForRedemption(k, amount)
    BY <2>2, UnbookedUntold DEF burnForRedemption
  <2>3. QED
    BY <1>6, <2>1, <2>2
<1>7. ASSUME NEW difference \in Difference, NEW amount \in Amount,
             \/ burnSynths(difference, amount)
             \/ upgradeCollateralShort(difference, amount)
             \/ \E k \in Synth : burnSynthsWithoutDebt(k, difference, amount)
      PROVE  Unbooked
  BY <1>7, UnbookedUSDSteps, UnbookedBridge
<1>8. ASSUME NEW k \in Synth, NEW difference \in Difference, settle(k, difference)
      PROVE  Unbooked
  BY <1>8, UnbookedSettle
<1>9. ASSUME NEW source \in Synth, NEW dest \in Synth, NEW difference \in Difference,
             exchangeAborted(source, dest, difference)
      PROVE  Unbooked
  BY <1>9, UnbookedUntold DEF exchangeAborted
<1>10. ASSUME NEW k \in WrappedSynth, NEW delta \in Difference, NEW difference \in Difference,
              NEW fee \in Amount \cup {0},
              recordExcludedDebtChange(k, delta, difference, fee)
       PROVE  Unbooked
  BY <1>10, UnbookedUntold DEF recordExcludedDebtChange
<1>11. ASSUME NEW source \in Synth, NEW dest \in Synth, NEW difference \in Difference,
              NEW paid \in Amount, NEW received \in Amount, NEW fee \in Amount \cup {0},
              exchange(source, dest, difference, paid, received, fee)
       PROVE  Unbooked
  BY <1>11, UnbookedExchange
<1>12. ASSUME NEW futures \in 0 .. DebtCap, NEW others \in 0 .. OthersCap,
              NEW k \in Synth, NEW difference \in Difference,
              othersIssue(futures, others, k, difference)
       PROVE  Unbooked
  BY <1>12, UnbookedUntold DEF othersIssue
<1>13. ASSUME NEW k \in Synth, NEW reading \in Reading, priceMoves(k, reading)
       PROVE  Unbooked
  BY <1>13, UnbookedUntold DEF priceMoves
<1>14. QED
  BY <1>1, <1>2, <1>3, <1>4, <1>5, <1>6, <1>7, <1>8, <1>9, <1>10, <1>11, <1>12, <1>13 DEF Next

-----------------------------------------------------------------------------

LEMMA SnapshotIsHonest ==
  ASSUME IInv, NEW b \in BOOLEAN, TakeDebtSnapshot(b)
  PROVE  /\ OnlySnapshotRevalidates
         /\ \A k \in Synth :
              rateInvalid[k] /\ cache'.synthDebt[k] # cache.synthDebt[k] => cache'.invalid
<1>1. /\ cache'.invalid = (AnyRateInvalid(listed) \/ b)
      /\ \A k \in Synth : cache'.synthDebt[k] = IF k \in listed THEN values[k] ELSE 0
  BY SnapshotStep
<1>2. \A k \in Synth \ listed : cache.synthDebt[k] = 0
  BY DEF IInv, UnlistedHaveNoCachedDebt
<1>3. \A k \in listed : rateInvalid[k] => AnyRateInvalid(listed)
  BY DEF AnyRateInvalid
<1>4. \A k \in Synth :
        rateInvalid[k] /\ cache'.synthDebt[k] # cache.synthDebt[k] => cache'.invalid
  BY <1>1, <1>2, <1>3
<1>5. ASSUME ~cache'.invalid PROVE TakeDebtSnapshot(FALSE) /\ ~AnyRateInvalid(listed)
  <2>1. ~AnyRateInvalid(listed) /\ b = FALSE
    BY <1>1, <1>5
  <2>2. QED
    BY <2>1
<1>6. QED
  BY <1>4, <1>5 DEF OnlySnapshotRevalidates

(* A cache that says it is valid was told no invalid price: whatever a     *)
(* partial update or a call passing a constant FALSE did, no entry and no  *)
(* part of the total is taken in at an invalid rate without the mark, but  *)
(* for what is bridged of a synth whose rate is invalid, which is booked   *)
(* under zUSD unmarked; and only a snapshot at valid rates unmarks it.     *)
THEOREM CacheIsHonest == Spec => ValidityIsHonest
<1>1. IInv /\ [Next]_vars => [InvalidPricesFlagged /\ OnlySnapshotRevalidates]_vars
  <2>1. SUFFICES ASSUME IInv, Next PROVE InvalidPricesFlagged /\ OnlySnapshotRevalidates
    OBVIOUS
  <2>2. /\ OnlySnapshotRevalidates
        /\ \A k \in Synth :
             rateInvalid[k] /\ cache'.synthDebt[k] # cache.synthDebt[k] => cache'.invalid
    <3>1. CASE \E b \in BOOLEAN : TakeDebtSnapshot(b)
      BY <2>1, <3>1, SnapshotIsHonest
    <3>2. CASE \A b \in BOOLEAN : ~TakeDebtSnapshot(b)
      BY <2>1, <3>2, StepIsHonest DEF Honest, OnlySnapshotRevalidates
    <3>3. QED
      BY <3>1, <3>2
  <2>3. Unbooked
    BY <2>1, StepIsUnbooked
  <2>4. QED
    BY <2>2, <2>3 DEF Unbooked, InvalidPricesFlagged
<1>2. QED
  BY <1>1, PoolInvariant, PTL DEF Spec, ValidityIsHonest
=============================================================================
