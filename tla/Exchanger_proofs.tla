---------------------------- MODULE Exchanger_proofs ----------------------------
(***************************************************************************)
(* Theorems about Exchanger, for any synths, accounts, prices, fees and    *)
(* waiting periods.  First prices and fees, then the difference a          *)
(* settlement makes and when it may still change, then the actions.        *)
(***************************************************************************)
EXTENDS Exchanger, Arithmetic_proofs

-----------------------------------------------------------------------------
(* Prices *)

Rounds == [Synth -> Seq(Round)]

LEMMA RateType ==
  ASSUME NEW r \in Rounds, NEW k \in Synth, NEW id
  PROVE  _getRateAndTimestampAtRound(r, k, id).rate \in Nat
<1>1. CASE k = zUSD
  BY <1>1, UnitAssumption DEF _getRateAndTimestampAtRound
<1>2. CASE k # zUSD /\ id \in DOMAIN r[k]
  <2>1. r[k] \in Seq(Round)
    BY DEF Rounds
  <2>2. r[k][id] \in Round
    BY <1>2, <2>1
  <2>3. QED
    BY <1>2, <2>2 DEF _getRateAndTimestampAtRound, Round
<1>3. CASE k # zUSD /\ id \notin DOMAIN r[k]
  BY <1>3 DEF _getRateAndTimestampAtRound
<1>4. QED
  BY <1>1, <1>2, <1>3

LEMMA EffectiveValueType ==
  ASSUME NEW r \in Rounds, NEW src \in Synth, NEW dest \in Synth, NEW amount \in Nat,
         NEW i, NEW j
  PROVE  effectiveValueAtRound(r, src, amount, dest, i, j) \in Nat
<1> DEFINE sourceRate      == _getRateAndTimestampAtRound(r, src, i).rate
           destinationRate == _getRateAndTimestampAtRound(r, dest, j).rate
           inUSD           == multiplyDecimalRound(amount, sourceRate, Unit)
<1>1. sourceRate \in Nat /\ destinationRate \in Nat
  BY RateType
<1>2. inUSD \in Nat
  <2> HIDE DEF sourceRate
  <2>1. QED
    BY <1>1, MultiplyDecimalRoundType, UnitAssumption
<1>3. destinationRate > 0 => divideDecimalRound(inUSD, destinationRate, Unit) \in Nat
  <2> HIDE DEF inUSD, destinationRate
  <2>1. QED
    BY <1>1, <1>2, DivideDecimalRoundType, UnitAssumption
<1>4. effectiveValueAtRound(r, src, amount, dest, i, j) =
        CASE src = dest                        -> amount
          [] src # dest /\ destinationRate > 0 -> divideDecimalRound(inUSD, destinationRate, Unit)
          [] OTHER                             -> 0
  BY DEF effectiveValueAtRound
<1> HIDE DEF inUSD, destinationRate
<1>5. QED
  BY <1>3, <1>4

(* What is left after a fee of at most 1.0.                                *)
LEMMA DeductedType ==
  ASSUME NEW amount \in Nat, NEW rate \in Nat, rate <= Unit
  PROVE  /\ _deductFeesFromAmount(amount, rate) \in Nat
         /\ _deductFeesFromAmount(amount, rate) <= amount
<1>1. Unit - rate \in Nat /\ Unit \in Nat \ {0}
  BY UnitAssumption
<1> DEFINE p == amount * (Unit - rate)
           q == p \div Unit
<1>2. p \in Nat
  BY <1>1, ProductType
<1>3. p <= Unit * amount
  <2>1. Unit * amount = p + amount * rate
    BY <1>1
  <2>2. amount * rate \in Nat /\ Unit * amount \in Nat
    BY <1>1, ProductType
  <2> HIDE DEF p
  <2>3. QED
    BY <1>2, <2>1, <2>2
<1> HIDE DEF p
<1>4. q \in Nat /\ Unit * q <= p
  BY <1>1, <1>2, QuotientBound
<1> HIDE DEF q
<1>5. Unit * q <= Unit * amount
  <2>1. Unit * q \in Nat /\ Unit * amount \in Nat
    BY <1>1, <1>4, ProductType
  <2>2. QED
    BY <1>2, <1>3, <1>4, <2>1
<1>6. q <= amount
  BY <1>1, <1>4, <1>5
<1>7. _deductFeesFromAmount(amount, rate) = q
  BY DEF _deductFeesFromAmount, multiplyDecimal, p, q
<1>8. QED
  BY <1>4, <1>6, <1>7

-----------------------------------------------------------------------------
(* The dynamic fee *)

LEMMA DeviationType ==
  ASSUME NEW x \in Nat, NEW y \in Nat
  PROVE  _thresholdedAbsDeviationRatio(x, y) \in Nat
<1> DEFINE absDelta == IF x > y THEN x - y ELSE y - x
<1>1. absDelta \in Nat
  OBVIOUS
<1> HIDE DEF absDelta
<1>2. y # 0 => divideDecimal(absDelta, y, Unit) \in Nat
  BY <1>1, DivideDecimalType, UnitAssumption
<1>3. y # 0 => floorsub(divideDecimal(absDelta, y, Unit), DynamicFeeThreshold) \in Nat
  BY <1>2, FloorsubType, FeeAssumption
<1>4. QED
  BY <1>3 DEF _thresholdedAbsDeviationRatio, absDelta

Decayed(fee) == multiplyDecimal(fee, WeightDecay, Unit)

(* The fees since each of the prices: the last has none, and the others     *)
(* what the next has, decayed, and their own deviation.                    *)
IsFeeSince(g, w, first, L) ==
  \A i \in first .. L : g[i] = IF i = L THEN 0 ELSE Decayed(g[i + 1]) + w[i]

LEMMA DecayedType == ASSUME NEW n \in Nat PROVE Decayed(n) \in Nat
BY MultiplyDecimalType, UnitAssumption, FeeAssumption DEF Decayed

LEMMA FeeSinceExists ==
  ASSUME NEW L \in Nat \ {0}, NEW w, \A i \in 1 .. (L - 1) : w[i] \in Nat
  PROVE  \E g \in [1 .. L -> Nat] : IsFeeSince(g, w, 1, L)
<1> DEFINE done == {n \in Nat : n < L => \E g \in [L - n .. L -> Nat] : IsFeeSince(g, w, L - n, L)}
<1>1. 0 \in done
  <2> DEFINE g == [i \in L .. L |-> 0]
  <2>1. g \in [L - 0 .. L -> Nat] /\ IsFeeSince(g, w, L - 0, L)
    BY DEF IsFeeSince
  <2>2. QED
    BY <2>1
<1>2. ASSUME NEW n \in Nat, n \in done PROVE n + 1 \in done
  <2>1. SUFFICES ASSUME n + 1 < L
                 PROVE  \E g \in [L - (n + 1) .. L -> Nat] : IsFeeSince(g, w, L - (n + 1), L)
    OBVIOUS
  <2>2. PICK g \in [L - n .. L -> Nat] : IsFeeSince(g, w, L - n, L)
    BY <1>2, <2>1
  <2> DEFINE first == L - (n + 1)
             own   == Decayed(g[first + 1]) + w[first]
             h     == [i \in first .. L |-> IF i = first THEN own ELSE g[i]]
  <2>3. first \in 1 .. (L - 1) /\ first + 1 = L - n /\ first + 1 \in L - n .. L
    BY <2>1
  <2>4. own \in Nat
    <3> HIDE DEF first
    <3>1. g[first + 1] \in Nat
      BY <2>3
    <3>2. w[first] \in Nat
      BY <2>3
    <3>3. Decayed(g[first + 1]) \in Nat
      BY <3>1, DecayedType
    <3>4. QED
      BY <3>2, <3>3
  <2> HIDE DEF own
  <2>5. \A i \in first .. L : i # first => i \in L - n .. L /\ (i # L => i + 1 \in L - n .. L)
    BY <2>3
  <2>6. h \in [first .. L -> Nat]
    BY <2>4, <2>5
  <2>7. h[first] = own /\ h[first + 1] = g[first + 1] /\ first # L
    BY <2>3
  <2>8. ASSUME NEW i \in first .. L
        PROVE  h[i] = IF i = L THEN 0 ELSE Decayed(h[i + 1]) + w[i]
    <3>1. CASE i = first
      BY <2>7, <3>1 DEF own
    <3>2. CASE i # first
      <4>1. /\ i \in L - n .. L /\ h[i] = g[i]
            /\ i # L => i + 1 \in first .. L /\ i + 1 # first /\ h[i + 1] = g[i + 1]
        BY <2>3, <2>5, <3>2
      <4>2. QED
        BY <2>2, <4>1 DEF IsFeeSince
    <3>3. QED
      BY <3>1, <3>2
  <2>9. IsFeeSince(h, w, first, L)
    BY <2>8 DEF IsFeeSince
  <2>10. QED
    BY <2>6, <2>9
<1>3. L - 1 \in done
  <2> HIDE DEF done
  <2>1. QED
    BY <1>1, <1>2, InductionOverSet
<1>4. QED
  <2>1. L - 1 \in Nat /\ L - 1 < L /\ L - (L - 1) = 1
    OBVIOUS
  <2>2. QED
    BY <1>3, <2>1

(* The recursion gives naturals.                                           *)
LEMMA FeeSinceType ==
  ASSUME NEW L \in Nat \ {0}, NEW w, \A i \in 1 .. (L - 1) : w[i] \in Nat,
         NEW f, IsFeeSince(f, w, 1, L)
  PROVE  f[1] \in Nat
<1> DEFINE done == {n \in Nat : n < L => f[L - n] \in Nat}
<1>1. 0 \in done
  BY DEF IsFeeSince
<1>2. ASSUME NEW n \in Nat, n \in done PROVE n + 1 \in done
  <2>1. SUFFICES ASSUME n + 1 < L PROVE f[L - (n + 1)] \in Nat
    OBVIOUS
  <2>2. /\ L - (n + 1) \in 1 .. L /\ L - (n + 1) # L /\ L - (n + 1) \in 1 .. (L - 1)
        /\ (L - (n + 1)) + 1 = L - n
    BY <2>1
  <2>3. f[L - n] \in Nat
    BY <1>2, <2>1
  <2>4. f[L - (n + 1)] = Decayed(f[L - n]) + w[L - (n + 1)]
    BY <2>2 DEF IsFeeSince
  <2>5. QED
    BY <2>2, <2>3, <2>4, DecayedType
<1>3. L - 1 \in done
  <2> HIDE DEF done
  <2>1. QED
    BY <1>1, <1>2, InductionOverSet
<1>4. L - 1 \in Nat /\ L - 1 < L /\ L - (L - 1) = 1
  OBVIOUS
<1>5. QED
  BY <1>3, <1>4

LEMMA DynamicFeeType ==
  ASSUME NEW prices \in Seq(Nat)
  PROVE  _dynamicFeeCalculation(prices) \in Nat
<1> DEFINE L == Len(prices)
           w == [i \in 1 .. (L - 1) |-> _thresholdedAbsDeviationRatio(prices[i], prices[i + 1])]
           F(g) == [i \in 1 .. L |->
                      IF i = L THEN 0
                      ELSE multiplyDecimal(g[i + 1], WeightDecay, Unit)
                           + _thresholdedAbsDeviationRatio(prices[i], prices[i + 1])]
           f == CHOOSE g : g = F(g)
<1>1. CASE prices = <<>>
  BY <1>1 DEF _dynamicFeeCalculation
<1>2. CASE prices # <<>>
  <2>1. L \in Nat \ {0}
    BY <1>2
  <2>2. \A i \in 1 .. (L - 1) : w[i] \in Nat
    <3>1. \A i \in 1 .. (L - 1) : prices[i] \in Nat /\ prices[i + 1] \in Nat
      OBVIOUS
    <3>2. QED
      BY <3>1, DeviationType
  <2>3. PICK g \in [1 .. L -> Nat] : IsFeeSince(g, w, 1, L)
    <3> HIDE DEF L, w
    <3>1. QED
      BY <2>1, <2>2, FeeSinceExists
  <2>4. g = F(g)
    <3>1. ASSUME NEW i \in 1 .. L PROVE g[i] = F(g)[i]
      <4>1. CASE i = L
        BY <2>3, <4>1 DEF IsFeeSince
      <4>2. CASE i # L
        <5>1. i \in 1 .. (L - 1)
          BY <2>1, <4>2
        <5>2. w[i] = _thresholdedAbsDeviationRatio(prices[i], prices[i + 1])
          BY <5>1
        <5>3. g[i] = Decayed(g[i + 1]) + w[i]
          BY <2>3, <4>2 DEF IsFeeSince
        <5>4. QED
          BY <4>2, <5>2, <5>3 DEF Decayed
      <4>3. QED
        BY <4>1, <4>2
    <3>2. QED
      BY <3>1
  <2>5. f = F(f)
    BY <2>4
  <2>6. IsFeeSince(f, w, 1, L)
    <3> HIDE DEF f
    <3>1. QED
      BY <2>1, <2>5 DEF IsFeeSince, Decayed
  <2>7. f[1] \in Nat
    <3> HIDE DEF L, w, f
    <3>1. QED
      BY <2>1, <2>2, <2>6, FeeSinceType
  <2>8. _dynamicFeeCalculation(prices) = f[1]
    BY <1>2 DEF _dynamicFeeCalculation
  <2>9. QED
    BY <2>7, <2>8
<1>3. QED
  BY <1>1, <1>2

LEMMA FeeRateType ==
  ASSUME NEW src \in Synth, NEW dest \in Synth, rounds \in Rounds
  PROVE  FeeRate(src, dest).rate \in Nat
<1>1. ASSUME NEW fee \in Nat PROVE Capped(fee).rate \in Nat
  BY FeeAssumption DEF Capped
<1>2. ASSUME NEW k \in Synth, NEW id
      PROVE  _dynamicFeeRateForCurrencyRound(rounds, k, id).rate \in Nat
  <2>1. LastRates(rounds, k, DynamicFeeRounds, id) \in Seq(Nat)
    <3>1. \A i \in 1 .. DynamicFeeRounds :
            _getRateAndTimestampAtRound(rounds, k, id - (i - 1)).rate \in Nat
      BY RateType
    <3>2. DynamicFeeRounds \in Nat
      BY FeeAssumption
    <3>3. QED
      BY <3>1, <3>2 DEF LastRates
  <2>2. _dynamicFeeCalculation(LastRates(rounds, k, DynamicFeeRounds, id)) \in Nat
    BY <2>1, DynamicFeeType
  <2>3. QED
    BY <1>1, <2>2 DEF _dynamicFeeRateForCurrencyRound
<1> DEFINE forSrc  == _dynamicFeeRateForCurrencyRound(rounds, src, _getCurrentRoundId(rounds, src)).rate
           forDest == _dynamicFeeRateForCurrencyRound(rounds, dest, _getCurrentRoundId(rounds, dest)).rate
<1>3. forSrc \in Nat /\ forDest \in Nat
  BY <1>2
<1>4. FeeRate(src, dest).rate
        = ExchangeFeeRate[src] + ExchangeFeeRate[dest] + Capped(forDest + forSrc).rate
  BY DEF FeeRate, _feeRateForExchangeAtRounds
<1> HIDE DEF forSrc, forDest
<1>5. Capped(forDest + forSrc).rate \in Nat
  BY <1>1, <1>3
<1>6. QED
  BY <1>4, <1>5, FeeAssumption

-----------------------------------------------------------------------------
(* What a settlement finds: with the rounds r and the waiting period w.      *)

\* The rates of fees fit, and the rounds that were read exist.
Known(r, e, k) ==
  /\ e.exchangeFeeRate <= Unit
  /\ e.roundIdForSrc <= Len(r[e.src])
  /\ e.roundIdForDest <= Len(r[k])

RoundAtEnd(r, w, k, start, e) == getLastRoundIdBeforeElapsedSecs(r, k, start, e.timestamp, w)
ShouldAt(r, w, e, k) ==
  _deductFeesFromAmount(
    effectiveValueAtRound(r, e.src, e.amount, k, RoundAtEnd(r, w, e.src, e.roundIdForSrc, e),
                          RoundAtEnd(r, w, k, e.roundIdForDest, e)),
    e.exchangeFeeRate)
DifferenceAt(r, w, e, k) ==
  IF _isDeviationAboveThreshold(e.amountReceived, ShouldAt(r, w, e, k)) THEN 0
  ELSE ShouldAt(r, w, e, k) - e.amountReceived

\* What an entry takes away and what it adds, and the most it may still take
\* away at t: while the price may move, all that the exchange gave.
Taken(r, w, e, k) == floorsub(0, DifferenceAt(r, w, e, k))
Given(r, w, e, k) == floorsub(DifferenceAt(r, w, e, k), 0)
MayTake(t, r, w, e, k) == IF t < e.timestamp + w THEN e.amountReceived ELSE Taken(r, w, e, k)

LEMMA ShouldType ==
  ASSUME NEW r \in Rounds, NEW w, NEW k \in Synth, NEW e \in ExchangeEntry, Known(r, e, k)
  PROVE  ShouldAt(r, w, e, k) \in Nat
<1> DEFINE i == RoundAtEnd(r, w, e.src, e.roundIdForSrc, e)
           j == RoundAtEnd(r, w, k, e.roundIdForDest, e)
           value == effectiveValueAtRound(r, e.src, e.amount, k, i, j)
<1>1. e.src \in Synth /\ e.amount \in Nat /\ e.exchangeFeeRate \in Nat /\ e.exchangeFeeRate <= Unit
  BY DEF ExchangeEntry, Known
<1>2. value \in Nat
  <2> HIDE DEF i, j
  <2>1. QED
    BY <1>1, EffectiveValueType
<1>3. ShouldAt(r, w, e, k) = _deductFeesFromAmount(value, e.exchangeFeeRate)
  BY DEF ShouldAt
<1> HIDE DEF value
<1>4. QED
  BY <1>1, <1>2, <1>3, DeductedType

(* An entry never takes away more than the exchange gave.                  *)
LEMMA DifferenceType ==
  ASSUME NEW r \in Rounds, NEW w, NEW k \in Synth, NEW e \in ExchangeEntry, Known(r, e, k)
  PROVE  /\ DifferenceAt(r, w, e, k) \in Int
         /\ Taken(r, w, e, k) \in Nat /\ Taken(r, w, e, k) <= e.amountReceived
         /\ Given(r, w, e, k) \in Nat
<1> DEFINE should == ShouldAt(r, w, e, k)
<1>1. should \in Nat /\ e.amountReceived \in Nat
  BY ShouldType DEF ExchangeEntry
<1>2. DifferenceAt(r, w, e, k) = 0 \/ DifferenceAt(r, w, e, k) = should - e.amountReceived
  BY DEF DifferenceAt
<1> HIDE DEF should
<1>3. QED
  BY <1>1, <1>2 DEF Taken, Given, floorsub

LEMMA MayTakeType ==
  ASSUME NEW t, NEW r \in Rounds, NEW w, NEW k \in Synth, NEW e \in ExchangeEntry, Known(r, e, k)
  PROVE  /\ MayTake(t, r, w, e, k) \in Nat
         /\ Taken(r, w, e, k) <= MayTake(t, r, w, e, k)
         /\ MayTake(t, r, w, e, k) <= e.amountReceived
<1>1. e.amountReceived \in Nat
  BY DEF ExchangeEntry
<1>2. QED
  BY <1>1, DifferenceType DEF MayTake

IsNewRound(r, q, j, round) == q = [r EXCEPT ![j] = Append(@, round)]

(* A round that comes when a period is over is not the last one within it. *)
LEMMA SameRoundAtEnd ==
  ASSUME NEW r \in Rounds, NEW q \in Rounds, NEW j \in Synth \ {zUSD}, NEW round \in Round,
         IsNewRound(r, q, j, round),
         NEW k \in Synth, NEW start \in Nat, start <= Len(r[k]),
         NEW from \in Nat, NEW period \in Nat, round.time > from + period
  PROVE  LET id == getLastRoundIdBeforeElapsedSecs(r, k, start, from, period)
         IN  /\ getLastRoundIdBeforeElapsedSecs(q, k, start, from, period) = id
             /\ _getRateAndTimestampAtRound(q, k, id) = _getRateAndTimestampAtRound(r, k, id)
<1> DEFINE L == Len(r[k])
           M == Len(q[k])
           R(i) == _getRateAndTimestampAtRound(r, k, i)
           Q(i) == _getRateAndTimestampAtRound(q, k, i)
           stopsR(i) == R(i + 1).time = 0 \/ R(i + 1).time > from + period
           stopsQ(i) == Q(i + 1).time = 0 \/ Q(i + 1).time > from + period
           firstR(i) == stopsR(i) /\ \A earlier \in start .. (i - 1) : ~stopsR(earlier)
           firstQ(i) == stopsQ(i) /\ \A earlier \in start .. (i - 1) : ~stopsQ(earlier)
<1>1. /\ L \in Nat /\ R(L + 1).time = 0 /\ M \in L .. (L + 1)
      /\ Q(L + 1) = R(L + 1) \/ Q(L + 1) = round
      /\ \A i \in Nat : i # L + 1 => Q(i) = R(i)
  <2>1. r[k] \in Seq(Round) /\ q[k] \in Seq(Round)
    BY DEF Rounds
  <2>2. L \in Nat /\ R(L + 1).time = 0
    BY <2>1 DEF _getRateAndTimestampAtRound
  <2>3. CASE k # j
    <3>1. q[k] = r[k]
      BY <2>3 DEF Rounds, IsNewRound
    <3>2. QED
      BY <2>2, <3>1 DEF _getRateAndTimestampAtRound
  <2>4. CASE k = j
    <3>1. k # zUSD /\ q[k] = Append(r[k], round) /\ M = L + 1
      BY <2>1, <2>4 DEF Rounds, IsNewRound
    <3>2. /\ DOMAIN r[k] = 1 .. L /\ DOMAIN q[k] = 1 .. (L + 1) /\ q[k][L + 1] = round
          /\ \A i \in 1 .. L : q[k][i] = r[k][i]
      BY <2>1, <3>1
    <3>3. \A i \in Nat : i # L + 1 => Q(i) = R(i)
      BY <2>2, <3>1, <3>2 DEF _getRateAndTimestampAtRound
    <3>4. Q(L + 1) = round
      BY <2>2, <3>1, <3>2 DEF _getRateAndTimestampAtRound
    <3>5. QED
      BY <2>2, <3>1, <3>3, <3>4
  <2>5. QED
    BY <2>3, <2>4
<1> HIDE DEF R, Q, M
<1>2. ASSUME NEW i \in Nat PROVE stopsQ(i) <=> stopsR(i)
  <2>1. CASE i = L
    BY <1>1, <2>1
  <2>2. CASE i # L
    <3>1. i + 1 \in Nat /\ i + 1 # L + 1
      BY <1>1, <2>2
    <3>2. QED
      BY <1>1, <3>1
  <2>3. QED
    BY <2>1, <2>2
<1>3. stopsR(L)
  BY <1>1
<1> HIDE DEF stopsR, stopsQ
<1>4. PICK m \in start .. L : firstR(m)
  <2> DEFINE S == {i \in start .. L : stopsR(i)}
  <2>1. S \in SUBSET Nat /\ L \in S
    BY <1>1, <1>3
  <2> HIDE DEF S
  <2>2. PICK m \in S : \A i \in S : m <= i
    BY <2>1, LeastOf
  <2>3. m \in start .. L /\ stopsR(m)
    BY <2>2 DEF S
  <2>4. \A i \in start .. (m - 1) : i \in start .. L /\ ~(m <= i)
    BY <1>1, <2>3
  <2>5. \A i \in start .. (m - 1) : ~stopsR(i)
    BY <2>2, <2>4 DEF S
  <2>6. QED
    BY <2>3, <2>5
<1>5. firstQ(m)
  <2>1. m \in Nat /\ \A i \in start .. (m - 1) : i \in Nat
    BY <1>1
  <2>2. QED
    BY <1>2, <1>4, <2>1
<1>6. \A i \in start .. (start + L) : firstR(i) => i = m
  <2>1. SUFFICES ASSUME NEW i \in start .. (start + L), firstR(i), i # m PROVE FALSE
    OBVIOUS
  <2>2. i \in start .. (m - 1) \/ m \in start .. (i - 1)
    BY <1>1, <2>1
  <2>3. QED
    BY <1>4, <2>1, <2>2
<1>7. \A i \in start .. (start + M) : firstQ(i) => i = m
  <2>1. SUFFICES ASSUME NEW i \in start .. (start + M), firstQ(i), i # m PROVE FALSE
    OBVIOUS
  <2>2. i \in start .. (m - 1) \/ m \in start .. (i - 1)
    BY <1>1, <2>1
  <2>3. QED
    BY <1>5, <2>1, <2>2
<1>8. m \in Nat /\ m \in start .. (start + L) /\ m \in start .. (start + M) /\ m # L + 1
  BY <1>1
<1> DEFINE idR == getLastRoundIdBeforeElapsedSecs(r, k, start, from, period)
           idQ == getLastRoundIdBeforeElapsedSecs(q, k, start, from, period)
<1>9. idR = CHOOSE i \in start .. (start + L) : firstR(i)
  BY DEF getLastRoundIdBeforeElapsedSecs, stopsR, R
<1>10. idQ = CHOOSE i \in start .. (start + M) : firstQ(i)
  BY DEF getLastRoundIdBeforeElapsedSecs, stopsQ, Q, M
<1> HIDE DEF firstR, firstQ, idR, idQ
<1>11. idR = m
  BY <1>4, <1>6, <1>8, <1>9
<1>12. idQ = m
  BY <1>5, <1>7, <1>8, <1>10
<1>13. Q(m) = R(m)
  BY <1>1, <1>8
<1>14. QED
  BY <1>11, <1>12, <1>13 DEF idR, idQ, Q, R

(* What is settled is the same before and after such a round.              *)
LEMMA SameDifference ==
  ASSUME NEW r \in Rounds, NEW q \in Rounds, NEW j \in Synth \ {zUSD}, NEW round \in Round,
         IsNewRound(r, q, j, round), NEW w \in Nat,
         NEW k \in Synth, NEW e \in ExchangeEntry, Known(r, e, k), round.time > e.timestamp + w
  PROVE  DifferenceAt(q, w, e, k) = DifferenceAt(r, w, e, k)
<1> DEFINE i == RoundAtEnd(r, w, e.src, e.roundIdForSrc, e)
           l == RoundAtEnd(r, w, k, e.roundIdForDest, e)
<1>1. /\ e.src \in Synth /\ e.timestamp \in Nat /\ e.roundIdForSrc \in Nat /\ e.roundIdForDest \in Nat
      /\ e.roundIdForSrc <= Len(r[e.src]) /\ e.roundIdForDest <= Len(r[k])
  BY DEF ExchangeEntry, Known
<1>2. /\ RoundAtEnd(q, w, e.src, e.roundIdForSrc, e) = i
      /\ _getRateAndTimestampAtRound(q, e.src, i) = _getRateAndTimestampAtRound(r, e.src, i)
  BY <1>1, SameRoundAtEnd DEF RoundAtEnd
<1>3. /\ RoundAtEnd(q, w, k, e.roundIdForDest, e) = l
      /\ _getRateAndTimestampAtRound(q, k, l) = _getRateAndTimestampAtRound(r, k, l)
  BY <1>1, SameRoundAtEnd DEF RoundAtEnd
<1> HIDE DEF i, l
<1>4. effectiveValueAtRound(q, e.src, e.amount, k, i, l) = effectiveValueAtRound(r, e.src, e.amount, k, i, l)
  BY <1>2, <1>3 DEF effectiveValueAtRound
<1>5. ShouldAt(q, w, e, k) = ShouldAt(r, w, e, k)
  BY <1>2, <1>3, <1>4 DEF ShouldAt, i, l
<1>6. QED
  BY <1>5 DEF DifferenceAt

-----------------------------------------------------------------------------
(* Queues *)

Queue == Seq(ExchangeEntry)
QueueKnown(r, q, k) == \A i \in DOMAIN q : Known(r, q[i], k)

Takes(r, w, q, k) == [i \in DOMAIN q |-> Taken(r, w, q[i], k)]
Gives(r, w, q, k) == [i \in DOMAIN q |-> Given(r, w, q[i], k)]
MayTakes(t, r, w, q, k) == [i \in DOMAIN q |-> MayTake(t, r, w, q[i], k)]

LEMMA EntriesType ==
  ASSUME NEW q \in Queue
  PROVE  /\ DOMAIN q = 1 .. Len(q) /\ Len(q) \in Nat /\ IsFiniteSet(DOMAIN q)
         /\ \A i \in DOMAIN q : q[i] \in ExchangeEntry
<1>1. DOMAIN q = 1 .. Len(q) /\ Len(q) \in Nat /\ \A i \in DOMAIN q : q[i] \in ExchangeEntry
  BY DEF Queue
<1>2. QED
  BY <1>1, FS_Interval

LEMMA QueueSums ==
  ASSUME NEW t, NEW r \in Rounds, NEW w, NEW k \in Synth, NEW q \in Queue, QueueKnown(r, q, k)
  PROVE  /\ Takes(r, w, q, k) \in [DOMAIN q -> Nat]
         /\ MayTakes(t, r, w, q, k) \in [DOMAIN q -> Nat]
         /\ SumOf(Takes(r, w, q, k)) \in Nat /\ SumOf(Gives(r, w, q, k)) \in Nat
         /\ SumOf(MayTakes(t, r, w, q, k)) \in Nat
         /\ SumOf(Takes(r, w, q, k)) <= SumOf(MayTakes(t, r, w, q, k))
<1>1. /\ IsFiniteSet(DOMAIN q)
      /\ \A i \in DOMAIN q : q[i] \in ExchangeEntry /\ Known(r, q[i], k)
  BY EntriesType DEF QueueKnown
<1>2. \A i \in DOMAIN q : /\ Taken(r, w, q[i], k) \in Nat /\ Given(r, w, q[i], k) \in Nat
                          /\ MayTake(t, r, w, q[i], k) \in Nat
                          /\ Taken(r, w, q[i], k) <= MayTake(t, r, w, q[i], k)
  BY <1>1, DifferenceType, MayTakeType
<1>3. /\ Takes(r, w, q, k) \in [DOMAIN q -> Nat] /\ Gives(r, w, q, k) \in [DOMAIN q -> Nat]
      /\ MayTakes(t, r, w, q, k) \in [DOMAIN q -> Nat]
      /\ \A i \in DOMAIN q : Takes(r, w, q, k)[i] <= MayTakes(t, r, w, q, k)[i]
  BY <1>2 DEF Takes, Gives, MayTakes
<1>4. SumOf(Takes(r, w, q, k)) \in Nat /\ SumOf(Gives(r, w, q, k)) \in Nat
      /\ SumOf(MayTakes(t, r, w, q, k)) \in Nat
  BY <1>1, <1>3, SumOfType
<1>5. SumOf(Takes(r, w, q, k)) <= SumOf(MayTakes(t, r, w, q, k))
  BY <1>1, <1>3, SumOfMonotone
<1>6. QED
  BY <1>3, <1>4, <1>5

LEMMA EmptySums ==
  ASSUME NEW t, NEW r, NEW w, NEW k
  PROVE  /\ SumOf(Takes(r, w, <<>>, k)) = 0 /\ SumOf(Gives(r, w, <<>>, k)) = 0
         /\ SumOf(MayTakes(t, r, w, <<>>, k)) = 0
<1>1. DOMAIN <<>> = {}
  OBVIOUS
<1>2. \A f : f \in [{} -> Nat] => SumOf(f) = 0
  BY SumOfZero
<1>3. QED
  BY <1>1, <1>2 DEF Takes, Gives, MayTakes

(* One entry more.                                                         *)
LEMMA SumOfAppended ==
  ASSUME NEW n \in Nat, NEW f \in [1 .. n -> Nat], NEW g \in [1 .. n + 1 -> Nat],
         \A i \in 1 .. n : g[i] = f[i]
  PROVE  SumOf(g) = SumOf(f) + g[n + 1]
<1>1. IsFiniteSet(1 .. n + 1) /\ n + 1 \in 1 .. n + 1
  BY FS_Interval
<1>2. SumOver(g, 1 .. n + 1) = g[n + 1] + SumOver(g, (1 .. n + 1) \ {n + 1})
      /\ SumOver(g, (1 .. n + 1) \ {n + 1}) \in Nat
  BY <1>1, SumOverSplit
<1>3. (1 .. n + 1) \ {n + 1} = 1 .. n
  OBVIOUS
<1>4. SumOver(g, 1 .. n) = SumOver(f, 1 .. n)
  BY SumOverAgree
<1>5. g[n + 1] \in Nat /\ DOMAIN g = 1 .. n + 1 /\ DOMAIN f = 1 .. n
  OBVIOUS
<1>6. SumOf(g) = SumOver(g, 1 .. n + 1) /\ SumOf(f) = SumOver(f, 1 .. n)
  BY <1>5 DEF SumOf
<1>7. SumOver(g, 1 .. n + 1) = g[n + 1] + SumOver(f, 1 .. n) /\ SumOver(f, 1 .. n) \in Nat
  BY <1>2, <1>3, <1>4
<1>8. QED
  BY <1>5, <1>6, <1>7

LEMMA AppendedIs ==
  ASSUME NEW q \in Queue, NEW e \in ExchangeEntry, NEW p, p = Append(q, e)
  PROVE  /\ p \in Queue /\ Len(p) = Len(q) + 1 /\ p[Len(p)] = e
         /\ DOMAIN p = 1 .. Len(q) + 1 /\ p[Len(q) + 1] = e
         /\ \A i \in 1 .. Len(q) : p[i] = q[i]
<1>1. DOMAIN q = 1 .. Len(q) /\ Len(q) \in Nat
  BY EntriesType
<1>2. QED
  BY <1>1 DEF Queue

LEMMA AppendedKnown ==
  ASSUME NEW r, NEW k, NEW q \in Queue, QueueKnown(r, q, k),
         NEW e \in ExchangeEntry, Known(r, e, k), NEW p, p = Append(q, e)
  PROVE  QueueKnown(r, p, k)
<1>1. DOMAIN q = 1 .. Len(q) /\ Len(q) \in Nat
  BY EntriesType
<1>2. /\ DOMAIN p = 1 .. Len(q) + 1 /\ p[Len(q) + 1] = e
      /\ \A i \in 1 .. Len(q) : p[i] = q[i]
  BY AppendedIs
<1>3. QED
  BY <1>1, <1>2 DEF QueueKnown

LEMMA AppendedMayTake ==
  ASSUME NEW t, NEW r \in Rounds, NEW w, NEW k \in Synth, NEW q \in Queue, QueueKnown(r, q, k),
         NEW e \in ExchangeEntry, Known(r, e, k), NEW p, p = Append(q, e)
  PROVE  SumOf(MayTakes(t, r, w, p, k)) <= SumOf(MayTakes(t, r, w, q, k)) + e.amountReceived
<1> DEFINE n == Len(q)
           f == MayTakes(t, r, w, q, k)
           g == MayTakes(t, r, w, p, k)
<1>1. DOMAIN q = 1 .. n /\ n \in Nat
  BY EntriesType
<1>2. /\ p \in Queue /\ DOMAIN p = 1 .. n + 1 /\ Len(p) = n + 1 /\ p[n + 1] = e
      /\ \A i \in 1 .. n : p[i] = q[i]
  BY <1>1 DEF Queue
<1>3. QueueKnown(r, p, k)
  BY AppendedKnown
<1>4. f \in [1 .. n -> Nat] /\ g \in [1 .. n + 1 -> Nat] /\ SumOf(f) \in Nat
  <2>1. f \in [DOMAIN q -> Nat] /\ SumOf(f) \in Nat
    BY QueueSums
  <2>2. g \in [DOMAIN p -> Nat]
    BY <1>2, <1>3, QueueSums
  <2>3. QED
    BY <1>1, <1>2, <2>1, <2>2
<1>5. \A i \in 1 .. n : g[i] = f[i]
  BY <1>1, <1>2 DEF MayTakes
<1>6. g[n + 1] <= e.amountReceived /\ g[n + 1] \in Nat /\ e.amountReceived \in Nat
  <2>1. g[n + 1] = MayTake(t, r, w, e, k)
    BY <1>1, <1>2 DEF MayTakes
  <2>2. QED
    BY <2>1, MayTakeType DEF ExchangeEntry
<1> HIDE DEF f, g, n
<1>7. SumOf(g) = SumOf(f) + g[n + 1]
  BY <1>1, <1>4, <1>5, SumOfAppended
<1>8. SumOf(g) <= SumOf(f) + e.amountReceived
  BY <1>4, <1>6, <1>7
<1>9. QED
  BY <1>8 DEF f, g

(* When the waiting is over, what may be taken is what is taken.           *)
LEMMA OverTakes ==
  ASSUME NEW t \in Nat, NEW r, NEW w \in Nat, NEW q \in Queue, NEW k,
         \A i \in DOMAIN q : t >= q[i].timestamp + w
  PROVE  MayTakes(t, r, w, q, k) = Takes(r, w, q, k)
<1>1. \A i \in DOMAIN q : q[i].timestamp \in Nat
  BY EntriesType DEF ExchangeEntry
<1>2. \A i \in DOMAIN q : ~(t < q[i].timestamp + w)
  BY <1>1
<1>3. QED
  BY <1>2 DEF MayTakes, Takes, MayTake

(* Later there is no more to be taken: a waiting entry gives at most all    *)
(* that it was.                                                            *)
LEMMA LaterTakesLess ==
  ASSUME NEW t \in Nat, NEW r \in Rounds, NEW w \in Nat, NEW k \in Synth, NEW q \in Queue,
         QueueKnown(r, q, k)
  PROVE  SumOf(MayTakes(t + 1, r, w, q, k)) <= SumOf(MayTakes(t, r, w, q, k))
<1>1. /\ IsFiniteSet(DOMAIN q)
      /\ \A i \in DOMAIN q : q[i] \in ExchangeEntry /\ Known(r, q[i], k) /\ q[i].timestamp \in Nat
  BY EntriesType DEF QueueKnown, ExchangeEntry
<1>2. \A i \in DOMAIN q : MayTake(t + 1, r, w, q[i], k) <= MayTake(t, r, w, q[i], k)
  <2>1. SUFFICES ASSUME NEW i \in DOMAIN q
                 PROVE  MayTake(t + 1, r, w, q[i], k) <= MayTake(t, r, w, q[i], k)
    OBVIOUS
  <2>2. /\ MayTake(t + 1, r, w, q[i], k) \in Nat
        /\ MayTake(t + 1, r, w, q[i], k) <= q[i].amountReceived /\ q[i].amountReceived \in Nat
    BY <1>1, MayTakeType DEF ExchangeEntry
  <2>3. CASE t < q[i].timestamp + w
    BY <2>2, <2>3 DEF MayTake
  <2>4. CASE ~(t < q[i].timestamp + w)
    <3>1. ~(t + 1 < q[i].timestamp + w)
      BY <1>1, <2>4
    <3>2. MayTake(t + 1, r, w, q[i], k) = MayTake(t, r, w, q[i], k)
      BY <2>4, <3>1 DEF MayTake
    <3>3. QED
      BY <2>2, <3>2
  <2>5. QED
    BY <2>3, <2>4
<1> DEFINE f == MayTakes(t, r, w, q, k)
           g == MayTakes(t + 1, r, w, q, k)
<1>3. f \in [DOMAIN q -> Nat] /\ g \in [DOMAIN q -> Nat]
  BY QueueSums
<1>4. \A i \in DOMAIN q : g[i] <= f[i]
  BY <1>2 DEF MayTakes
<1> HIDE DEF f, g
<1>5. SumOf(g) <= SumOf(f)
  BY <1>1, <1>3, <1>4, SumOfMonotone
<1>6. QED
  BY <1>5 DEF f, g

(* A round that comes when no period ends changes nothing of what may be   *)
(* taken, and nothing at all once all periods have ended.                  *)
LEMMA RoundTakesSame ==
  ASSUME NEW t \in Nat, NEW r \in Rounds, NEW s \in Rounds, NEW j \in Synth \ {zUSD},
         NEW round \in Round, round.time = t, IsNewRound(r, s, j, round),
         NEW w \in Nat, NEW k \in Synth, NEW q \in Queue, QueueKnown(r, q, k),
         \A i \in DOMAIN q : t # q[i].timestamp + w
  PROVE  MayTakes(t, s, w, q, k) = MayTakes(t, r, w, q, k)
<1>1. ASSUME NEW i \in DOMAIN q PROVE MayTake(t, s, w, q[i], k) = MayTake(t, r, w, q[i], k)
  <2>1. /\ q[i] \in ExchangeEntry /\ Known(r, q[i], k) /\ q[i].timestamp \in Nat
        /\ t # q[i].timestamp + w
    BY EntriesType DEF QueueKnown, ExchangeEntry
  <2>2. CASE t < q[i].timestamp + w
    BY <2>2 DEF MayTake
  <2>3. CASE ~(t < q[i].timestamp + w)
    <3>1. round.time > q[i].timestamp + w
      BY <2>1, <2>3
    <3>2. DifferenceAt(s, w, q[i], k) = DifferenceAt(r, w, q[i], k)
      BY <2>1, <3>1, SameDifference
    <3>3. QED
      BY <2>3, <3>2 DEF MayTake, Taken
  <2>4. QED
    BY <2>2, <2>3
<1>2. QED
  BY <1>1 DEF MayTakes

LEMMA RoundSettlesSame ==
  ASSUME NEW t \in Nat, NEW r \in Rounds, NEW s \in Rounds, NEW j \in Synth \ {zUSD},
         NEW round \in Round, round.time = t, IsNewRound(r, s, j, round),
         NEW w \in Nat, NEW k \in Synth, NEW q \in Queue, QueueKnown(r, q, k),
         \A i \in DOMAIN q : t > q[i].timestamp + w
  PROVE  Takes(s, w, q, k) = Takes(r, w, q, k) /\ Gives(s, w, q, k) = Gives(r, w, q, k)
<1>1. ASSUME NEW i \in DOMAIN q PROVE DifferenceAt(s, w, q[i], k) = DifferenceAt(r, w, q[i], k)
  <2>1. q[i] \in ExchangeEntry /\ Known(r, q[i], k) /\ round.time > q[i].timestamp + w
    BY EntriesType DEF QueueKnown
  <2>2. QED
    BY <2>1, SameDifference
<1>2. QED
  BY <1>1 DEF Takes, Gives, Taken, Given

LEMMA RoundKnown ==
  ASSUME NEW r \in Rounds, NEW s \in Rounds, NEW j \in Synth, NEW round \in Round,
         IsNewRound(r, s, j, round), NEW k \in Synth, NEW q \in Queue,
         QueueKnown(r, q, k)
  PROVE  QueueKnown(s, q, k)
<1>1. \A l \in Synth : Len(r[l]) \in Nat /\ Len(s[l]) \in Nat /\ Len(r[l]) <= Len(s[l])
  BY DEF Rounds, IsNewRound
<1>2. ASSUME NEW i \in DOMAIN q PROVE Known(s, q[i], k)
  <2>1. /\ q[i].src \in Synth /\ q[i].roundIdForSrc \in Nat /\ q[i].roundIdForDest \in Nat
        /\ Known(r, q[i], k)
    BY EntriesType DEF QueueKnown, ExchangeEntry
  <2>2. QED
    BY <1>1, <2>1 DEF Known
<1>3. QED
  BY <1>2 DEF QueueKnown

-----------------------------------------------------------------------------
(* The invariant *)

Balances == [Holder -> [Synth -> Nat]]

AllMayTake(a, k) == SumOf(MayTakes(now, rounds, waitingPeriod, exchanges[a][k], k))

QueuesKnown == \A a \in Holder, k \in Synth : QueueKnown(rounds, exchanges[a][k], k)
Covered == \A a \in Holder, k \in Synth : AllMayTake(a, k) <= balanceOf[a][k]
NoFeeQueue == \A k \in Synth : exchanges[FEE_ADDRESS][k] = <<>>

IInv == TypeOK /\ QueuesKnown /\ (undisturbed => Covered /\ NoFeeQueue /\ FeesPooled)

(* The amounts of the module are the sums above, before and after a step.  *)
LEMMA AmountsAre ==
  ASSUME NEW a, NEW k
  PROVE  /\ reclaimAmount(a, k) = SumOf(Takes(rounds, waitingPeriod, exchanges[a][k], k))
         /\ rebateAmount(a, k) = SumOf(Gives(rounds, waitingPeriod, exchanges[a][k], k))
         /\ reclaimAmount(a, k)' = SumOf(Takes(rounds', waitingPeriod', exchanges'[a][k], k))
         /\ rebateAmount(a, k)' = SumOf(Gives(rounds', waitingPeriod', exchanges'[a][k], k))
         /\ AllMayTake(a, k)'
              = SumOf(MayTakes(now', rounds', waitingPeriod', exchanges'[a][k], k))
BY DEF reclaimAmount, rebateAmount, AllMayTake, Takes, Gives, Taken, Given, Difference,
       DifferenceAt, amountShouldHaveReceived, ShouldAt, RoundIdAtPeriodEnd, RoundAtEnd

LEMMA StateType ==
  ASSUME IInv, NEW a \in Holder, NEW k \in Synth
  PROVE  /\ exchanges[a][k] \in Queue /\ QueueKnown(rounds, exchanges[a][k], k)
         /\ rounds \in Rounds /\ balanceOf[a][k] \in Nat /\ balanceOf \in Balances
         /\ exchanges \in [Holder -> [Synth -> Queue]]
         /\ now \in Nat /\ now > 0 /\ waitingPeriod \in Nat
         /\ Len(exchanges[a][k]) <= maxEntriesInQueue /\ Len(exchanges[a][k]) \in Nat
<1>1. now \in Nat /\ now > 0 /\ waitingPeriod \in Nat
  BY SettingAssumption DEF IInv, TypeOK
<1>2. /\ exchanges \in [Holder -> [Synth -> Queue]] /\ rounds \in Rounds /\ balanceOf \in Balances
      /\ QueueKnown(rounds, exchanges[a][k], k) /\ Len(exchanges[a][k]) <= maxEntriesInQueue
  BY DEF IInv, TypeOK, Queue, Rounds, QueuesKnown, Balances
<1>3. exchanges[a][k] \in Queue /\ balanceOf[a][k] \in Nat
  BY <1>2 DEF Balances
<1>4. QED
  BY <1>1, <1>2, <1>3, EntriesType

LEMMA AmountsType ==
  ASSUME IInv, NEW a \in Holder, NEW k \in Synth
  PROVE  /\ reclaimAmount(a, k) \in Nat /\ rebateAmount(a, k) \in Nat
         /\ AllMayTake(a, k) \in Nat /\ reclaimAmount(a, k) <= AllMayTake(a, k)
         /\ WaitingIsOver(a, k) => AllMayTake(a, k) = reclaimAmount(a, k)
<1>1. /\ exchanges[a][k] \in Queue /\ QueueKnown(rounds, exchanges[a][k], k) /\ rounds \in Rounds
      /\ now \in Nat /\ waitingPeriod \in Nat
  BY StateType
<1>2. WaitingIsOver(a, k) =>
        MayTakes(now, rounds, waitingPeriod, exchanges[a][k], k)
          = Takes(rounds, waitingPeriod, exchanges[a][k], k)
  BY <1>1, OverTakes DEF WaitingIsOver
<1>3. /\ reclaimAmount(a, k) = SumOf(Takes(rounds, waitingPeriod, exchanges[a][k], k))
      /\ rebateAmount(a, k) = SumOf(Gives(rounds, waitingPeriod, exchanges[a][k], k))
      /\ AllMayTake(a, k) = SumOf(MayTakes(now, rounds, waitingPeriod, exchanges[a][k], k))
  BY AmountsAre DEF AllMayTake
<1>4. /\ reclaimAmount(a, k) \in Nat /\ rebateAmount(a, k) \in Nat
      /\ AllMayTake(a, k) \in Nat /\ reclaimAmount(a, k) <= AllMayTake(a, k)
  <2> DEFINE takes == Takes(rounds, waitingPeriod, exchanges[a][k], k)
             gives == Gives(rounds, waitingPeriod, exchanges[a][k], k)
             may   == MayTakes(now, rounds, waitingPeriod, exchanges[a][k], k)
  <2>1. SumOf(takes) \in Nat /\ SumOf(gives) \in Nat /\ SumOf(may) \in Nat
        /\ SumOf(takes) <= SumOf(may)
    BY <1>1, QueueSums
  <2> HIDE DEF takes, gives, may
  <2>2. reclaimAmount(a, k) = SumOf(takes) /\ rebateAmount(a, k) = SumOf(gives)
        /\ AllMayTake(a, k) = SumOf(may)
    BY <1>3 DEF takes, gives, may
  <2>3. QED
    BY <2>1, <2>2
<1>5. QED
  BY <1>2, <1>3, <1>4

(* Settling leaves a natural, and never takes what is not owed.            *)
LEMMA SettledType ==
  ASSUME IInv, NEW a \in Holder, NEW k \in Synth
  PROVE  /\ SettledBalance(a, k) \in Int
         /\ CanSettle(a, k) => SettledBalance(a, k) \in Nat
<1>1. reclaimAmount(a, k) \in Nat /\ rebateAmount(a, k) \in Nat /\ balanceOf[a][k] \in Nat
  BY AmountsType, StateType
<1>2. QED
  BY <1>1 DEF SettledBalance, CanSettle, reclaimed, floorsub

-----------------------------------------------------------------------------
(* Balances and queues, cell by cell *)

LEMMA CreditedIs ==
  ASSUME NEW b \in Balances, NEW a \in Holder, NEW k \in Synth, NEW n \in Nat
  PROVE  /\ Credited(b, a, k, n) \in Balances
         /\ \A h \in Holder, j \in Synth :
              Credited(b, a, k, n)[h][j] = IF h = a /\ j = k THEN b[a][k] + n ELSE b[h][j]
BY DEF Credited, Balances

LEMMA DebitedIs ==
  ASSUME NEW b \in Balances, NEW a \in Holder, NEW k \in Synth, NEW n \in Nat, n <= b[a][k]
  PROVE  /\ Debited(b, a, k, n) \in Balances
         /\ \A h \in Holder, j \in Synth :
              Debited(b, a, k, n)[h][j] = IF h = a /\ j = k THEN b[a][k] - n ELSE b[h][j]
<1>1. b[a][k] - n \in Nat
  BY DEF Balances
<1>2. QED
  BY <1>1 DEF Debited, Balances

(* n of k leaves an account, m of j goes to another or to the same.        *)
LEMMA MovedIs ==
  ASSUME NEW b \in Balances, NEW from \in Holder, NEW k \in Synth, NEW n \in Nat, n <= b[from][k],
         NEW to \in Holder, NEW j \in Synth, NEW m \in Nat,
         NEW c, c = Credited(Debited(b, from, k, n), to, j, m)
  PROVE  /\ c \in Balances
         /\ from # to \/ k # j => c[from][k] = b[from][k] - n /\ c[to][j] = b[to][j] + m
         /\ from = to /\ k = j => c[from][k] = (b[from][k] - n) + m
         /\ \A h \in Holder, l \in Synth : h # from \/ l # k => c[h][l] >= b[h][l]
<1> DEFINE d == Debited(b, from, k, n)
<1>1. /\ d \in Balances
      /\ \A h \in Holder, l \in Synth : d[h][l] = IF h = from /\ l = k THEN b[from][k] - n ELSE b[h][l]
  BY DebitedIs
<1> HIDE DEF d
<1>2. /\ Credited(d, to, j, m) \in Balances
      /\ \A h \in Holder, l \in Synth :
           Credited(d, to, j, m)[h][l] = IF h = to /\ l = j THEN d[to][j] + m ELSE d[h][l]
  BY <1>1, CreditedIs
<1>3. c = Credited(d, to, j, m)
  BY DEF d
<1>4. \A h \in Holder, l \in Synth : b[h][l] \in Nat /\ d[h][l] \in Nat
  BY <1>1 DEF Balances
<1>5. \A h \in Holder, l \in Synth : c[h][l] = IF h = to /\ l = j THEN d[to][j] + m ELSE d[h][l]
  BY <1>2, <1>3
<1>6. d[from][k] = b[from][k] - n
  BY <1>1
<1>7. from # to \/ k # j => c[from][k] = b[from][k] - n /\ c[to][j] = b[to][j] + m
  BY <1>1, <1>5
<1>8. from = to /\ k = j => c[from][k] = (b[from][k] - n) + m
  BY <1>5, <1>6
<1>9. \A h \in Holder, l \in Synth : h # from \/ l # k => c[h][l] >= b[h][l]
  <2>1. SUFFICES ASSUME NEW h \in Holder, NEW l \in Synth, h # from \/ l # k
                 PROVE  c[h][l] >= b[h][l]
    OBVIOUS
  <2>2. d[h][l] = b[h][l] /\ b[h][l] \in Nat
    BY <1>1, <1>4, <2>1
  <2>3. c[h][l] = d[h][l] + m \/ c[h][l] = d[h][l]
    BY <1>5
  <2>4. QED
    BY <2>2, <2>3
<1>10. QED
  BY <1>2, <1>3, <1>7, <1>8, <1>9

LEMMA SettledIs ==
  ASSUME IInv, NEW a \in Holder, NEW k \in Synth, CanSettle(a, k)
  PROVE  /\ Settled(a, k) \in Balances
         /\ Settled(a, k)[a][k] = SettledBalance(a, k)
         /\ \A h \in Holder, j \in Synth :
              h # a \/ j # k => Settled(a, k)[h][j] = balanceOf[h][j]
<1>1. SettledBalance(a, k) \in Nat /\ balanceOf \in Balances
  BY SettledType DEF IInv, TypeOK, Balances
<1>2. QED
  BY <1>1 DEF Settled, Balances

LEMMA RemovedIs ==
  ASSUME IInv, NEW a \in Holder, NEW k \in Synth
  PROVE  /\ EntriesRemoved(a, k) \in [Holder -> [Synth -> Queue]]
         /\ EntriesRemoved(a, k)[a][k] = <<>>
         /\ \A h \in Holder, j \in Synth :
              h # a \/ j # k => EntriesRemoved(a, k)[h][j] = exchanges[h][j]
<1>1. <<>> \in Queue /\ exchanges \in [Holder -> [Synth -> Queue]]
  BY StateType DEF Queue
<1>2. QED
  BY <1>1 DEF EntriesRemoved

LEMMA PriceOfRound ==
  ASSUME IInv, NEW k \in Synth PROVE CurrentRound(rounds, k).rate \in Nat
BY RateType DEF CurrentRound, IInv, TypeOK, Rounds

LEMMA ProbedType ==
  ASSUME IInv, NEW k \in Synth PROVE Probed(breaker, rounds, k, systemSuspended) \in Breaker
<1>1. breaker[k].broken \in BOOLEAN /\ CurrentRound(rounds, k).rate \in Nat
  BY PriceOfRound DEF IInv, TypeOK, Breaker
<1>2. ASSUME NEW b, NEW v \in Nat, b.broken \in BOOLEAN
      PROVE  probeCircuitBreaker(b, v, systemSuspended) \in Breaker
  BY <1>2 DEF probeCircuitBreaker, Breaker
<1>3. QED
  BY <1>1, <1>2 DEF Probed

LEMMA ProbedBreakersType ==
  ASSUME IInv, NEW src \in Synth, NEW dest \in Synth
  PROVE  ProbedBreakers(src, dest) \in [Synth -> Breaker]
<1>1. breaker \in [Synth -> Breaker]
  BY DEF IInv, TypeOK
<1>2. QED
  BY <1>1, ProbedType DEF ProbedBreakers

-----------------------------------------------------------------------------
(* What every call of holders and keepers does to each balance and queue *)

\* The price an entry was exchanged at is no jump.
NotJump(e, k) ==
  \A j \in Priced({k, e.src}) :
    ~isInvalid(breaker[j], CurrentRound(rounds, j).rate) /\ ~breaker'[j].broken

Receives(h, j) == exchanges'[h][j] = exchanges[h][j] /\ balanceOf'[h][j] >= balanceOf[h][j]
IsSettled(h, j) == WaitingIsOver(h, j) /\ exchanges'[h][j] = <<>>
SendsSpare(h, j) ==
  /\ WaitingIsOver(h, j) /\ exchanges'[h][j] = exchanges[h][j]
  /\ balanceOf'[h][j] >= reclaimAmount(h, j)
Queues(h, j) ==
  \E e \in ExchangeEntry :
    /\ exchanges'[h][j] = Append(exchanges[h][j], e) /\ Len(exchanges[h][j]) < maxEntriesInQueue
    /\ Known(rounds, e, j) /\ NotJump(e, j)
    /\ balanceOf'[h][j] >= balanceOf[h][j] + e.amountReceived
Disturbs(h, j) == ~undisturbed' /\ exchanges'[h][j] = exchanges[h][j]

Cell(h, j) == Receives(h, j) \/ IsSettled(h, j) \/ SendsSpare(h, j) \/ Queues(h, j) \/ Disturbs(h, j)

FeeStep ==
  undisturbed' /\ NoFeeQueue /\ FeesPooled =>
    (\A k \in Synth : exchanges'[FEE_ADDRESS][k] = <<>>) /\ balanceOf'[FEE_ADDRESS][zUSD] >= fees'

CallTyped ==
  /\ UNCHANGED <<now, rounds, waitingPeriod>>
  /\ balanceOf' \in Balances
  /\ exchanges' \in [Holder -> [Synth -> Queue]]
  /\ fees' \in Nat /\ breaker' \in [Synth -> Breaker]
  /\ systemSuspended' \in BOOLEAN
  /\ undisturbed' \in BOOLEAN /\ (undisturbed' => undisturbed)

Call == CallTyped /\ FeeStep /\ \A h \in Holder, j \in Synth : Cell(h, j)

\* What the properties say of one balance and its queue.
NoneLeft(h, j) == undisturbed' => WaitingIsOver(h, j) \/ balanceOf'[h][j] >= balanceOf[h][j]
NoJump(h, j) ==
  Len(exchanges'[h][j]) > Len(exchanges[h][j]) =>
    NotJump(exchanges'[h][j][Len(exchanges'[h][j])], j)
CellKept(h, j) ==
  /\ Len(exchanges'[h][j]) <= maxEntriesInQueue
  /\ QueueKnown(rounds', exchanges'[h][j], j)
  /\ undisturbed' => AllMayTake(h, j)' <= balanceOf'[h][j]

LEMMA CellKeeps ==
  ASSUME IInv, CallTyped, NEW h \in Holder, NEW j \in Synth, Cell(h, j)
  PROVE  CellKept(h, j) /\ NoneLeft(h, j) /\ NoJump(h, j)
<1>1. /\ exchanges[h][j] \in Queue /\ QueueKnown(rounds, exchanges[h][j], j)
      /\ rounds \in Rounds /\ now \in Nat /\ waitingPeriod \in Nat
      /\ Len(exchanges[h][j]) <= maxEntriesInQueue /\ Len(exchanges[h][j]) \in Nat
      /\ balanceOf[h][j] \in Nat /\ maxEntriesInQueue \in Nat
  BY StateType, SettingAssumption
<1>2. /\ reclaimAmount(h, j) \in Nat /\ AllMayTake(h, j) \in Nat
      /\ WaitingIsOver(h, j) => AllMayTake(h, j) = reclaimAmount(h, j)
  BY AmountsType
<1>3. now' = now /\ rounds' = rounds /\ waitingPeriod' = waitingPeriod
      /\ balanceOf'[h][j] \in Nat /\ (undisturbed' => undisturbed)
  BY DEF CallTyped, Balances
<1>4. undisturbed => AllMayTake(h, j) <= balanceOf[h][j]
  BY DEF IInv, Covered
<1>5. /\ AllMayTake(h, j) = SumOf(MayTakes(now, rounds, waitingPeriod, exchanges[h][j], j))
      /\ AllMayTake(h, j)' = SumOf(MayTakes(now, rounds, waitingPeriod, exchanges'[h][j], j))
  BY <1>3, AmountsAre DEF AllMayTake
<1>6. ASSUME exchanges'[h][j] = exchanges[h][j]
      PROVE  /\ Len(exchanges'[h][j]) <= maxEntriesInQueue
             /\ QueueKnown(rounds', exchanges'[h][j], j) /\ NoJump(h, j)
             /\ AllMayTake(h, j)' = AllMayTake(h, j)
  BY <1>1, <1>3, <1>5, <1>6 DEF NoJump
<1>7. CASE Receives(h, j)
  BY <1>2, <1>3, <1>4, <1>6, <1>7, <1>1 DEF Receives, CellKept, NoneLeft
<1>8. CASE IsSettled(h, j)
  <2>1. /\ exchanges'[h][j] = <<>> /\ WaitingIsOver(h, j) /\ Len(<<>>) = 0
        /\ AllMayTake(h, j)' = 0
    BY <1>5, <1>8, EmptySums DEF IsSettled
  <2>2. QueueKnown(rounds, <<>>, j)
    BY DEF QueueKnown
  <2>3. QED
    BY <1>1, <1>3, <2>1, <2>2 DEF CellKept, NoneLeft, NoJump
<1>9. CASE SendsSpare(h, j)
  BY <1>1, <1>2, <1>3, <1>6, <1>9 DEF SendsSpare, CellKept, NoneLeft
<1>10. CASE Queues(h, j)
  <2>1. PICK e \in ExchangeEntry :
          /\ exchanges'[h][j] = Append(exchanges[h][j], e)
          /\ Len(exchanges[h][j]) < maxEntriesInQueue
          /\ Known(rounds, e, j) /\ NotJump(e, j)
          /\ balanceOf'[h][j] >= balanceOf[h][j] + e.amountReceived
    BY <1>10 DEF Queues
  <2>2. e.amountReceived \in Nat
    BY DEF ExchangeEntry
  <2>3. /\ QueueKnown(rounds, exchanges'[h][j], j)
        /\ Len(exchanges'[h][j]) = Len(exchanges[h][j]) + 1
        /\ exchanges'[h][j][Len(exchanges'[h][j])] = e
        /\ AllMayTake(h, j)' <= AllMayTake(h, j) + e.amountReceived
    <3> DEFINE q == exchanges[h][j]
               p == exchanges'[h][j]
    <3>1. q \in Queue /\ QueueKnown(rounds, q, j) /\ p = Append(q, e) /\ Known(rounds, e, j)
          /\ rounds \in Rounds
      BY <1>1, <2>1
    <3> HIDE DEF p, q
    <3>2. Len(p) = Len(q) + 1 /\ p[Len(p)] = e
      BY <3>1, AppendedIs
    <3>3. QueueKnown(rounds, p, j)
      BY <3>1, AppendedKnown
    <3>4. SumOf(MayTakes(now, rounds, waitingPeriod, p, j))
               <= SumOf(MayTakes(now, rounds, waitingPeriod, q, j)) + e.amountReceived
      BY <3>1, AppendedMayTake
    <3>5. QED
      BY <1>5, <3>2, <3>3, <3>4 DEF p, q
  <2>4. AllMayTake(h, j)' \in Nat
    <3>1. exchanges'[h][j] \in Queue
      BY DEF CallTyped
    <3> DEFINE p == exchanges'[h][j]
    <3>2. SumOf(MayTakes(now, rounds, waitingPeriod, p, j)) \in Nat
      <4>1. p \in Queue /\ QueueKnown(rounds, p, j)
        BY <2>3, <3>1
      <4> HIDE DEF p
      <4>2. QED
        BY <1>1, <4>1, QueueSums
    <3>3. QED
      BY <1>5, <3>2
  <2>5. undisturbed' => AllMayTake(h, j)' <= balanceOf'[h][j]
    <3>1. SUFFICES ASSUME undisturbed'
                   PROVE  AllMayTake(h, j)' <= balanceOf'[h][j]
      OBVIOUS
    <3>2. AllMayTake(h, j) <= balanceOf[h][j]
      BY <1>3, <1>4, <3>1
    <3>3. /\ AllMayTake(h, j) \in Nat /\ balanceOf[h][j] \in Nat /\ balanceOf'[h][j] \in Nat
          /\ balanceOf'[h][j] >= balanceOf[h][j] + e.amountReceived
          /\ AllMayTake(h, j)' <= AllMayTake(h, j) + e.amountReceived
      BY <1>1, <1>2, <1>3, <2>1, <2>3
    <3>4. QED
      BY <2>2, <2>4, <3>2, <3>3
  <2>6. Len(exchanges'[h][j]) <= maxEntriesInQueue
    BY <1>1, <2>1, <2>3
  <2>7. balanceOf'[h][j] >= balanceOf[h][j]
    BY <1>1, <1>3, <2>1, <2>2
  <2>8. QED
    BY <1>3, <2>1, <2>3, <2>5, <2>6, <2>7 DEF CellKept, NoneLeft, NoJump
<1>11. CASE Disturbs(h, j)
  BY <1>6, <1>11 DEF Disturbs, CellKept, NoneLeft
<1>12. QED
  BY <1>7, <1>8, <1>9, <1>10, <1>11 DEF Cell

(* Such a call keeps the invariant, takes nothing from who has to wait, and *)
(* queues no exchange at a jump.                                           *)
LEMMA CallKeeps ==
  ASSUME IInv, Call
  PROVE  IInv' /\ \A h \in Holder, j \in Synth : NoneLeft(h, j) /\ NoJump(h, j)
<1>1. \A h \in Holder, j \in Synth : CellKept(h, j) /\ NoneLeft(h, j) /\ NoJump(h, j)
  BY CellKeeps DEF Call
<1>2. TypeOK'
  <2>1. \A h \in Holder, j \in Synth : Len(exchanges'[h][j]) <= maxEntriesInQueue
    BY <1>1 DEF CellKept
  <2>2. TypeOK /\ CallTyped
    BY DEF IInv, Call
  <2>3. QED
    BY <2>1, <2>2 DEF TypeOK, CallTyped, Balances, Queue
<1>3. QueuesKnown'
  BY <1>1 DEF CellKept, QueuesKnown
<1>4. ASSUME undisturbed' PROVE Covered' /\ NoFeeQueue' /\ FeesPooled'
  <2>1. Covered'
    BY <1>1, <1>4 DEF CellKept, Covered
  <2>2. undisturbed
    BY <1>4 DEF Call, CallTyped
  <2>3. (\A k \in Synth : exchanges'[FEE_ADDRESS][k] = <<>>) /\ balanceOf'[FEE_ADDRESS][zUSD] >= fees'
    BY <1>4, <2>2 DEF Call, FeeStep, IInv
  <2>4. QED
    BY <2>1, <2>3 DEF NoFeeQueue, FeesPooled
<1>5. QED
  BY <1>1, <1>2, <1>3, <1>4 DEF IInv

-----------------------------------------------------------------------------
(* The calls, one by one *)

(* A settlement of a in k, and what is done with what it left.             *)
LEMMA SettlingCells ==
  ASSUME IInv, NEW a \in Holder, NEW k \in Synth, CanSettle(a, k),
         exchanges' = EntriesRemoved(a, k),
         \A h \in Holder, j \in Synth : h # a \/ j # k => balanceOf'[h][j] >= balanceOf[h][j]
  PROVE  /\ exchanges' \in [Holder -> [Synth -> Queue]]
         /\ \A h \in Holder, j \in Synth : Cell(h, j)
         /\ NoFeeQueue => \A j \in Synth : exchanges'[FEE_ADDRESS][j] = <<>>
<1>1. /\ exchanges' \in [Holder -> [Synth -> Queue]] /\ exchanges'[a][k] = <<>>
      /\ \A h \in Holder, j \in Synth : h # a \/ j # k => exchanges'[h][j] = exchanges[h][j]
  BY RemovedIs
<1>2. IsSettled(a, k)
  BY <1>1 DEF IsSettled, CanSettle
<1>3. \A h \in Holder, j \in Synth : h # a \/ j # k => Receives(h, j)
  BY <1>1 DEF Receives
<1>4. FEE_ADDRESS \in Holder
  BY DEF Holder
<1>5. NoFeeQueue => \A j \in Synth : exchanges'[FEE_ADDRESS][j] = <<>>
  BY <1>1, <1>4 DEF NoFeeQueue
<1>6. QED
  BY <1>1, <1>2, <1>3, <1>5 DEF Cell

(* An account without entries has what it has.                             *)
LEMMA NothingToSettle ==
  ASSUME IInv, NEW a \in Holder, NEW k \in Synth, exchanges[a][k] = <<>>
  PROVE  SettledBalance(a, k) = balanceOf[a][k]
<1>1. /\ reclaimAmount(a, k) = SumOf(Takes(rounds, waitingPeriod, <<>>, k))
      /\ rebateAmount(a, k) = SumOf(Gives(rounds, waitingPeriod, <<>>, k))
  BY AmountsAre
<1>2. reclaimAmount(a, k) = 0 /\ rebateAmount(a, k) = 0
  BY <1>1, EmptySums
<1>3. balanceOf[a][k] \in Nat
  BY StateType
<1>4. QED
  BY <1>2, <1>3 DEF SettledBalance

LEMMA SettleIsCall ==
  ASSUME IInv, NEW a \in Holder, NEW k \in Synth, settle(a, k)
  PROVE  Call
<1>1. /\ CanSettle(a, k) /\ exchanges' = EntriesRemoved(a, k) /\ balanceOf' = Settled(a, k)
      /\ UNCHANGED <<now, rounds, breaker, systemSuspended, waitingPeriod, undisturbed, fees>>
  BY DEF settle
<1>2. /\ balanceOf' \in Balances /\ balanceOf'[a][k] = SettledBalance(a, k)
      /\ \A h \in Holder, j \in Synth : h # a \/ j # k => balanceOf'[h][j] = balanceOf[h][j]
  BY <1>1, SettledIs
<1>3. \A h \in Holder, j \in Synth : balanceOf[h][j] \in Nat
  BY StateType
<1>4. \A h \in Holder, j \in Synth : h # a \/ j # k => balanceOf'[h][j] >= balanceOf[h][j]
  BY <1>2, <1>3
<1>5. /\ exchanges' \in [Holder -> [Synth -> Queue]]
      /\ \A h \in Holder, j \in Synth : Cell(h, j)
      /\ NoFeeQueue => \A j \in Synth : exchanges'[FEE_ADDRESS][j] = <<>>
  BY <1>1, <1>4, SettlingCells
<1>6. CallTyped
  BY <1>1, <1>2, <1>5 DEF CallTyped, IInv, TypeOK
<1>7. FeeStep
  <2>1. FEE_ADDRESS \in Holder /\ zUSD \in Synth
    BY RatesAssumption DEF Holder
  <2>2. NoFeeQueue => balanceOf'[FEE_ADDRESS][zUSD] = balanceOf[FEE_ADDRESS][zUSD]
    BY <1>2, <2>1, NothingToSettle DEF NoFeeQueue
  <2>3. QED
    BY <1>1, <1>5, <2>2 DEF FeeStep, FeesPooled
<1>8. QED
  BY <1>5, <1>6, <1>7 DEF Call

(* What is burned after a settlement, or sent to nobody.                   *)
LEMMA SettleAndBurnIs ==
  ASSUME IInv, NEW a \in Holder, NEW k \in Synth, NEW n \in Nat, SettleAndBurn(a, k, n)
  PROVE  /\ balanceOf' \in Balances /\ balanceOf'[a][k] = SettledBalance(a, k) - n
         /\ \A h \in Holder, j \in Synth : h # a \/ j # k => balanceOf'[h][j] = balanceOf[h][j]
         /\ exchanges' \in [Holder -> [Synth -> Queue]]
         /\ \A h \in Holder, j \in Synth : Cell(h, j)
         /\ NoFeeQueue => \A j \in Synth : exchanges'[FEE_ADDRESS][j] = <<>>
         /\ UNCHANGED <<now, rounds, breaker, systemSuspended, waitingPeriod, undisturbed>>
<1>1. /\ CanSettle(a, k) /\ exchanges' = EntriesRemoved(a, k) /\ SettledBalance(a, k) >= n
      /\ balanceOf' = Debited(Settled(a, k), a, k, n)
      /\ UNCHANGED <<now, rounds, breaker, systemSuspended, waitingPeriod, undisturbed>>
  BY DEF SettleAndBurn
<1> DEFINE b == Settled(a, k)
<1>2. /\ b \in Balances /\ b[a][k] = SettledBalance(a, k)
      /\ \A h \in Holder, j \in Synth : h # a \/ j # k => b[h][j] = balanceOf[h][j]
  BY <1>1, SettledIs
<1>3. SettledBalance(a, k) \in Nat
  BY <1>1, SettledType
<1> HIDE DEF b
<1>4. /\ Debited(b, a, k, n) \in Balances
      /\ \A h \in Holder, j \in Synth :
           Debited(b, a, k, n)[h][j] = IF h = a /\ j = k THEN b[a][k] - n ELSE b[h][j]
  BY <1>1, <1>2, <1>3, DebitedIs
<1>5. balanceOf' = Debited(b, a, k, n)
  BY <1>1 DEF b
<1>6. /\ balanceOf' \in Balances /\ balanceOf'[a][k] = SettledBalance(a, k) - n
      /\ \A h \in Holder, j \in Synth : h # a \/ j # k => balanceOf'[h][j] = balanceOf[h][j]
  BY <1>2, <1>4, <1>5
<1>7. \A h \in Holder, j \in Synth : balanceOf[h][j] \in Nat
  BY StateType
<1>8. \A h \in Holder, j \in Synth : h # a \/ j # k => balanceOf'[h][j] >= balanceOf[h][j]
  BY <1>6, <1>7
<1>9. /\ exchanges' \in [Holder -> [Synth -> Queue]]
      /\ \A h \in Holder, j \in Synth : Cell(h, j)
      /\ NoFeeQueue => \A j \in Synth : exchanges'[FEE_ADDRESS][j] = <<>>
  BY <1>1, <1>8, SettlingCells
<1>10. QED
  BY <1>1, <1>6, <1>9

LEMMA HolderBurnsIsCall ==
  ASSUME IInv, NEW a \in Account, NEW k \in Synth, NEW n \in Nat, SettleAndBurn(a, k, n),
         UNCHANGED fees
  PROVE  Call
<1>1. a \in Holder /\ a # FEE_ADDRESS /\ FEE_ADDRESS \in Holder /\ zUSD \in Synth
  BY HolderAssumption, RatesAssumption DEF Holder
<1>2. /\ balanceOf' \in Balances
      /\ \A h \in Holder, j \in Synth : h # a \/ j # k => balanceOf'[h][j] = balanceOf[h][j]
      /\ exchanges' \in [Holder -> [Synth -> Queue]]
      /\ \A h \in Holder, j \in Synth : Cell(h, j)
      /\ NoFeeQueue => \A j \in Synth : exchanges'[FEE_ADDRESS][j] = <<>>
      /\ UNCHANGED <<now, rounds, breaker, systemSuspended, waitingPeriod, undisturbed>>
  BY <1>1, SettleAndBurnIs
<1>3. CallTyped
  BY <1>2 DEF CallTyped, IInv, TypeOK
<1>4. FeeStep
  BY <1>1, <1>2 DEF FeeStep, FeesPooled
<1>5. QED
  BY <1>2, <1>3, <1>4 DEF Call

LEMMA CloseFeesIsCall ==
  ASSUME IInv, closeFees
  PROVE  Call
<1>1. FEE_ADDRESS \in Holder /\ zUSD \in Synth /\ fees \in Nat
  BY RatesAssumption DEF Holder, IInv, TypeOK
<1>2. SettleAndBurn(FEE_ADDRESS, zUSD, fees) /\ fees' = 0
  BY DEF closeFees
<1>3. /\ balanceOf' \in Balances
      /\ exchanges' \in [Holder -> [Synth -> Queue]]
      /\ \A h \in Holder, j \in Synth : Cell(h, j)
      /\ NoFeeQueue => \A j \in Synth : exchanges'[FEE_ADDRESS][j] = <<>>
      /\ UNCHANGED <<now, rounds, breaker, systemSuspended, waitingPeriod, undisturbed>>
  <2>1. \A n \in Nat : SettleAndBurn(FEE_ADDRESS, zUSD, n) =>
          /\ balanceOf' \in Balances
          /\ exchanges' \in [Holder -> [Synth -> Queue]]
          /\ \A h \in Holder, j \in Synth : Cell(h, j)
          /\ NoFeeQueue => \A j \in Synth : exchanges'[FEE_ADDRESS][j] = <<>>
          /\ UNCHANGED <<now, rounds, breaker, systemSuspended, waitingPeriod, undisturbed>>
    BY <1>1, SettleAndBurnIs
  <2>2. QED
    BY <1>1, <1>2, <2>1
<1>4. CallTyped
  BY <1>2, <1>3 DEF CallTyped, IInv, TypeOK
<1>5. FeeStep
  <2>1. balanceOf'[FEE_ADDRESS][zUSD] \in Nat
    BY <1>1, <1>3 DEF Balances
  <2>2. QED
    BY <1>2, <1>3, <2>1 DEF FeeStep
<1>6. QED
  BY <1>3, <1>4, <1>5 DEF Call

(* What may be sent is what remains after the settlement.                  *)
LEMMA SpareIs ==
  ASSUME IInv, NEW a \in Holder, NEW k \in Synth, NEW n \in Nat \ {0}, EnsureCanTransfer(a, k, n)
  PROVE  /\ WaitingIsOver(a, k)
         /\ n <= balanceOf[a][k] /\ balanceOf[a][k] - n >= reclaimAmount(a, k)
<1>1. reclaimAmount(a, k) \in Nat /\ balanceOf[a][k] \in Nat
  BY AmountsType, StateType
<1>2. WaitingIsOver(a, k) /\ floorsub(balanceOf[a][k], reclaimAmount(a, k)) >= n
  BY DEF EnsureCanTransfer, transferableSynths
<1>3. QED
  BY <1>1, <1>2 DEF floorsub

LEMMA TransferCells ==
  ASSUME IInv, NEW from \in Account, NEW k \in Synth, NEW value \in Nat \ {0}, NEW to \in Holder,
         EnsureCanTransfer(from, k, value), UNCHANGED exchanges,
         balanceOf' = Credited(Debited(balanceOf, from, k, value), to, k, value)
  PROVE  /\ balanceOf' \in Balances
         /\ \A h \in Holder, j \in Synth : Cell(h, j)
         /\ balanceOf'[FEE_ADDRESS][zUSD] >= balanceOf[FEE_ADDRESS][zUSD]
         /\ to = FEE_ADDRESS => balanceOf'[FEE_ADDRESS][k] = balanceOf[FEE_ADDRESS][k] + value
<1>1. /\ from \in Holder /\ from # FEE_ADDRESS /\ FEE_ADDRESS \in Holder /\ zUSD \in Synth
  BY HolderAssumption, RatesAssumption DEF Holder
<1>2. /\ WaitingIsOver(from, k)
      /\ value <= balanceOf[from][k] /\ balanceOf[from][k] - value >= reclaimAmount(from, k)
  BY <1>1, SpareIs
<1>3. balanceOf \in Balances /\ balanceOf[from][k] \in Nat
  BY <1>1, StateType
<1>4. /\ balanceOf' \in Balances
      /\ from # to => balanceOf'[from][k] = balanceOf[from][k] - value
                      /\ balanceOf'[to][k] = balanceOf[to][k] + value
      /\ from = to => balanceOf'[from][k] = (balanceOf[from][k] - value) + value
      /\ \A h \in Holder, l \in Synth : h # from \/ l # k => balanceOf'[h][l] >= balanceOf[h][l]
  <2> DEFINE b == balanceOf
             c == balanceOf'
  <2>1. b \in Balances /\ value <= b[from][k] /\ c = Credited(Debited(b, from, k, value), to, k, value)
    BY <1>2, <1>3
  <2> HIDE DEF b, c
  <2>2. /\ c \in Balances
        /\ from # to => c[from][k] = b[from][k] - value /\ c[to][k] = b[to][k] + value
        /\ from = to => c[from][k] = (b[from][k] - value) + value
        /\ \A h \in Holder, l \in Synth : h # from \/ l # k => c[h][l] >= b[h][l]
    BY <1>1, <2>1, MovedIs
  <2>3. QED
    BY <2>2 DEF b, c
<1>5. Cell(from, k)
  <2>1. CASE from = to
    BY <1>3, <1>4, <2>1 DEF Cell, Receives
  <2>2. CASE from # to
    BY <1>2, <1>4, <2>2 DEF Cell, SendsSpare
  <2>3. QED
    BY <2>1, <2>2
<1>6. \A h \in Holder, j \in Synth : h # from \/ j # k => Cell(h, j)
  BY <1>4 DEF Cell, Receives
<1>7. QED
  BY <1>1, <1>4, <1>5, <1>6

LEMMA TransferIsCall ==
  ASSUME IInv, NEW from \in Account, NEW k \in Synth, NEW value \in Nat \ {0}, NEW to \in Holder,
         transfer(from, k, value, to)
  PROVE  Call
<1>1. /\ EnsureCanTransfer(from, k, value)
      /\ balanceOf' = Credited(Debited(balanceOf, from, k, value), to, k, value)
      /\ UNCHANGED <<now, rounds, breaker, systemSuspended, waitingPeriod, undisturbed, exchanges, fees>>
  BY DEF transfer
<1>2. /\ balanceOf' \in Balances
      /\ \A h \in Holder, j \in Synth : Cell(h, j)
      /\ balanceOf'[FEE_ADDRESS][zUSD] >= balanceOf[FEE_ADDRESS][zUSD]
  BY <1>1, TransferCells
<1>3. CallTyped
  BY <1>1, <1>2 DEF CallTyped, IInv, TypeOK, Queue
<1>4. FeeStep
  <2>1. /\ balanceOf[FEE_ADDRESS][zUSD] \in Nat /\ balanceOf'[FEE_ADDRESS][zUSD] \in Nat
        /\ fees \in Nat /\ fees' = fees
    BY <1>1, <1>2, RatesAssumption DEF IInv, TypeOK, Balances, Holder
  <2>2. QED
    BY <1>1, <1>2, <2>1 DEF FeeStep, FeesPooled, NoFeeQueue
<1>5. QED
  BY <1>2, <1>3, <1>4 DEF Call

LEMMA TransferToNobodyIsCall ==
  ASSUME IInv, NEW from \in Account, NEW k \in Synth, NEW value \in Nat \ {0},
         transferToNobody(from, k, value)
  PROVE  Call
<1>1. /\ from \in Holder /\ from # FEE_ADDRESS /\ FEE_ADDRESS \in Holder /\ zUSD \in Synth
  BY HolderAssumption, RatesAssumption DEF Holder
<1>2. /\ EnsureCanTransfer(from, k, value)
      /\ balanceOf' = Debited(balanceOf, from, k, value)
      /\ UNCHANGED <<now, rounds, breaker, systemSuspended, waitingPeriod, undisturbed, exchanges, fees>>
  BY DEF transferToNobody
<1>3. /\ WaitingIsOver(from, k)
      /\ value <= balanceOf[from][k] /\ balanceOf[from][k] - value >= reclaimAmount(from, k)
  BY <1>1, <1>2, SpareIs
<1>4. balanceOf \in Balances /\ \A h \in Holder, j \in Synth : balanceOf[h][j] \in Nat
  BY StateType, <1>1
<1>5. /\ balanceOf' \in Balances
      /\ \A h \in Holder, j \in Synth :
           balanceOf'[h][j] = IF h = from /\ j = k THEN balanceOf[from][k] - value ELSE balanceOf[h][j]
  BY <1>1, <1>2, <1>3, <1>4, DebitedIs
<1>6. Cell(from, k)
  BY <1>1, <1>2, <1>3, <1>5 DEF Cell, SendsSpare
<1>7. \A h \in Holder, j \in Synth : h # from \/ j # k => Cell(h, j)
  <2>1. \A h \in Holder, j \in Synth : h # from \/ j # k => balanceOf'[h][j] >= balanceOf[h][j]
    BY <1>4, <1>5
  <2>2. QED
    BY <1>2, <2>1 DEF Cell, Receives
<1>8. CallTyped
  BY <1>2, <1>5 DEF CallTyped, IInv, TypeOK, Queue
<1>9. FeeStep
  BY <1>1, <1>2, <1>5 DEF FeeStep, FeesPooled, NoFeeQueue
<1>10. QED
  BY <1>6, <1>7, <1>8, <1>9 DEF Call

LEMMA TransferZUSDToFeeAddressIsCall ==
  ASSUME IInv, NEW from \in Account, NEW value \in Nat \ {0},
         _transferToFeeAddress(from, zUSD, value)
  PROVE  Call
<1>1. /\ EnsureCanTransfer(from, zUSD, value)
      /\ balanceOf' = Credited(Debited(balanceOf, from, zUSD, value), FEE_ADDRESS, zUSD, value)
      /\ fees' = fees + value
      /\ undisturbed' = undisturbed
      /\ UNCHANGED <<now, rounds, breaker, systemSuspended, waitingPeriod, exchanges>>
  BY DEF _transferToFeeAddress, IInv, TypeOK
<1>2. FEE_ADDRESS \in Holder /\ zUSD \in Synth
  BY RatesAssumption DEF Holder
<1>3. /\ balanceOf' \in Balances
      /\ \A h \in Holder, j \in Synth : Cell(h, j)
      /\ balanceOf'[FEE_ADDRESS][zUSD] = balanceOf[FEE_ADDRESS][zUSD] + value
  BY <1>1, <1>2, TransferCells
<1>4. fees \in Nat /\ balanceOf[FEE_ADDRESS][zUSD] \in Nat
  BY <1>2 DEF IInv, TypeOK
<1>5. CallTyped
  BY <1>1, <1>3, <1>4 DEF CallTyped, IInv, TypeOK, Queue
<1>6. FeeStep
  BY <1>1, <1>3, <1>4 DEF FeeStep, FeesPooled, NoFeeQueue
<1>7. QED
  BY <1>3, <1>5, <1>6 DEF Call

LEMMA TransferAndSettleIsCall ==
  ASSUME IInv, NEW from \in Account, NEW k \in Synth, NEW value \in Nat, NEW to \in Holder,
         transferAndSettle(from, k, value, to)
  PROVE  Call
<1>1. /\ from \in Holder /\ from # FEE_ADDRESS /\ FEE_ADDRESS \in Holder /\ zUSD \in Synth
  BY HolderAssumption, RatesAssumption DEF Holder
<1>2. PICK n :
        /\ n = value \/ n = SettledBalance(from, k)
        /\ CanSettle(from, k) /\ SettledBalance(from, k) >= n
        /\ balanceOf' = Credited(Debited(Settled(from, k), from, k, n), to, k, n)
        /\ exchanges' = EntriesRemoved(from, k)
        /\ UNCHANGED <<now, rounds, breaker, systemSuspended, waitingPeriod, undisturbed, fees>>
  BY DEF transferAndSettle
<1>3. SettledBalance(from, k) \in Nat
  BY <1>1, <1>2, SettledType
<1>4. n \in Nat
  BY <1>2, <1>3
<1> DEFINE b == Settled(from, k)
           c == balanceOf'
<1>5. /\ b \in Balances /\ b[from][k] = SettledBalance(from, k)
      /\ \A h \in Holder, j \in Synth : h # from \/ j # k => b[h][j] = balanceOf[h][j]
  BY <1>1, <1>2, SettledIs
<1>6. c = Credited(Debited(b, from, k, n), to, k, n)
  BY <1>2
<1> HIDE DEF b, c
<1>7. /\ c \in Balances
      /\ \A h \in Holder, l \in Synth : h # from \/ l # k => c[h][l] >= b[h][l]
  <2>1. n <= b[from][k]
    BY <1>2, <1>3, <1>4, <1>5
  <2>2. b \in Balances
    BY <1>5
  <2>3. QED
    BY <1>1, <1>4, <1>6, <2>1, <2>2, MovedIs
<1>8. /\ balanceOf' \in Balances
      /\ \A h \in Holder, l \in Synth : h # from \/ l # k => balanceOf'[h][l] >= balanceOf[h][l]
  BY <1>5, <1>7 DEF c
<1>9. /\ exchanges' \in [Holder -> [Synth -> Queue]]
      /\ \A h \in Holder, j \in Synth : Cell(h, j)
      /\ NoFeeQueue => \A j \in Synth : exchanges'[FEE_ADDRESS][j] = <<>>
  BY <1>1, <1>2, <1>8, SettlingCells
<1>10. CallTyped
  BY <1>2, <1>8, <1>9 DEF CallTyped, IInv, TypeOK
<1>11. FeeStep
  <2>1. /\ balanceOf[FEE_ADDRESS][zUSD] \in Nat /\ balanceOf'[FEE_ADDRESS][zUSD] \in Nat
        /\ fees \in Nat /\ fees' = fees
        /\ balanceOf'[FEE_ADDRESS][zUSD] >= balanceOf[FEE_ADDRESS][zUSD]
    BY <1>1, <1>2, <1>8 DEF IInv, TypeOK, Balances
  <2>2. QED
    BY <1>9, <2>1 DEF FeeStep, FeesPooled
<1>12. QED
  BY <1>9, <1>10, <1>11 DEF Call

-----------------------------------------------------------------------------
(* Exchanging *)

(* What is left to exchange is a natural.                                  *)
LEMMA RemainingType ==
  ASSUME IInv, NEW a \in Holder, NEW k \in Synth, NEW amount \in Nat, CanSettle(a, k)
  PROVE  AmountRemaining(a, k, amount) \in Nat
<1>1. /\ SettledBalance(a, k) \in Nat /\ reclaimAmount(a, k) \in Nat /\ rebateAmount(a, k) \in Nat
  BY SettledType, AmountsType
<1>2. refunded(a, k) \in Nat
  BY <1>1, FloorsubType DEF refunded
<1>3. QED
  BY <1>1, <1>2 DEF AmountRemaining, calculateAmountAfterSettlement

(* Breakers that were not broken by their probes saw no jump.              *)
LEMMA NoneBrokenIsNoJump ==
  ASSUME IInv, NEW src \in Synth, NEW dest \in Synth, NoneBroken(src, dest),
         ~systemSuspended, breaker' = ProbedBreakers(src, dest)
  PROVE  \A j \in Priced({dest, src}) :
           ~isInvalid(breaker[j], CurrentRound(rounds, j).rate) /\ ~breaker'[j].broken
<1>1. SUFFICES ASSUME NEW j \in Priced({dest, src})
               PROVE  /\ ~isInvalid(breaker[j], CurrentRound(rounds, j).rate)
                      /\ ~breaker'[j].broken
  OBVIOUS
<1>2. j \in Synth /\ j \in Priced({src, dest})
  BY DEF Priced
<1>3. ~breaker'[j].broken /\ breaker'[j] = Probed(breaker, rounds, j, systemSuspended)
  BY <1>2 DEF NoneBroken, ProbedBreakers
<1>4. ~probeCircuitBreaker(breaker[j], CurrentRound(rounds, j).rate, systemSuspended).broken
  BY <1>3 DEF Probed
<1>5. QED
  BY <1>3, <1>4 DEF probeCircuitBreaker, isInvalid

LEMMA StoppedCells ==
  ASSUME IInv, NEW src \in Synth, NEW dest \in Synth, StoppedByBreaker(src, dest),
         UNCHANGED <<now, rounds, systemSuspended, waitingPeriod>>,
         undisturbed' \in BOOLEAN, undisturbed' => undisturbed
  PROVE  Call
<1>1. UNCHANGED <<balanceOf, exchanges, fees>> /\ breaker' \in [Synth -> Breaker]
  BY ProbedBreakersType DEF StoppedByBreaker
<1>2. \A h \in Holder, j \in Synth : balanceOf[h][j] \in Nat
  BY StateType
<1>3. \A h \in Holder, j \in Synth : Cell(h, j)
  BY <1>1, <1>2 DEF Cell, Receives
<1>4. CallTyped
  BY <1>1 DEF CallTyped, IInv, TypeOK, Queue, Balances
<1>5. FeeStep
  BY <1>1 DEF FeeStep, FeesPooled, NoFeeQueue
<1>6. QED
  BY <1>3, <1>4, <1>5 DEF Call

LEMMA OnlySettledIsCall ==
  ASSUME IInv, NEW from \in Account, NEW src \in Synth, NEW amount, NEW dest \in Synth,
         OnlySettled(from, src, amount, dest),
         UNCHANGED <<now, rounds, systemSuspended, waitingPeriod>>,
         undisturbed' \in BOOLEAN, undisturbed' => undisturbed
  PROVE  Call
<1>1. /\ from \in Holder /\ from # FEE_ADDRESS /\ FEE_ADDRESS \in Holder /\ zUSD \in Synth
  BY HolderAssumption, RatesAssumption DEF Holder
<1>2. /\ CanSettle(from, src) /\ balanceOf' = Settled(from, src)
      /\ exchanges' = EntriesRemoved(from, src) /\ UNCHANGED fees
      /\ breaker' \in [Synth -> Breaker]
  BY ProbedBreakersType DEF OnlySettled
<1>3. /\ balanceOf' \in Balances
      /\ \A h \in Holder, j \in Synth : h # from \/ j # src => balanceOf'[h][j] = balanceOf[h][j]
  BY <1>1, <1>2, SettledIs
<1>4. \A h \in Holder, j \in Synth : balanceOf[h][j] \in Nat
  BY StateType
<1>5. \A h \in Holder, j \in Synth : h # from \/ j # src => balanceOf'[h][j] >= balanceOf[h][j]
  BY <1>3, <1>4
<1>6. /\ exchanges' \in [Holder -> [Synth -> Queue]]
      /\ \A h \in Holder, j \in Synth : Cell(h, j)
      /\ NoFeeQueue => \A j \in Synth : exchanges'[FEE_ADDRESS][j] = <<>>
  BY <1>1, <1>2, <1>5, SettlingCells
<1>7. CallTyped
  BY <1>2, <1>3, <1>6 DEF CallTyped, IInv, TypeOK
<1>8. FeeStep
  BY <1>1, <1>2, <1>3, <1>6 DEF FeeStep, FeesPooled
<1>9. QED
  BY <1>6, <1>7, <1>8 DEF Call

(* What an exchange of n brings, with the rate of its fee.                 *)
LEMMA ReceivedType ==
  ASSUME IInv, NEW src \in Synth, NEW dest \in Synth, NEW n \in Nat, NEW feeRate \in Nat,
         feeRate <= Unit,
         NEW received, received = _deductFeesFromAmount(effectiveValue(rounds, src, n, dest), feeRate),
         NEW fee, fee = effectiveValue(rounds, dest, effectiveValue(rounds, src, n, dest) - received, zUSD)
  PROVE  received \in Nat /\ fee \in Nat
<1> DEFINE value == effectiveValue(rounds, src, n, dest)
<1>1. rounds \in Rounds /\ zUSD \in Synth
  BY RatesAssumption DEF IInv, TypeOK, Rounds
<1>2. value \in Nat
  BY <1>1, EffectiveValueType DEF effectiveValue
<1>3. received = _deductFeesFromAmount(value, feeRate)
      /\ fee = effectiveValue(rounds, dest, value - received, zUSD)
  OBVIOUS
<1> HIDE DEF value
<1>4. received \in Nat /\ received <= value
  BY <1>2, <1>3, DeductedType
<1>5. value - received \in Nat
  BY <1>2, <1>4
<1>6. \A m \in Nat : effectiveValue(rounds, dest, m, zUSD) \in Nat
  BY <1>1, EffectiveValueType DEF effectiveValue
<1>7. QED
  BY <1>3, <1>4, <1>5, <1>6

LEMMA ExchangedIsCall ==
  ASSUME IInv, ~systemSuspended, NEW from \in Account, NEW src \in Synth, NEW amount \in Nat,
         NEW dest \in Synth, NEW to \in Holder, src # dest,
         Exchanged(from, src, amount, dest, to),
         UNCHANGED <<now, rounds, systemSuspended, waitingPeriod>>,
         undisturbed' \in BOOLEAN, undisturbed' => undisturbed,
         to = FEE_ADDRESS => ~undisturbed'
  PROVE  Call
<1>1. /\ from \in Holder /\ from # FEE_ADDRESS /\ FEE_ADDRESS \in Holder /\ zUSD \in Synth
  BY HolderAssumption, RatesAssumption DEF Holder
<1> DEFINE n        == AmountRemaining(from, src, amount)
           feeRate  == FeeRate(src, dest).rate
           received == _deductFeesFromAmount(effectiveValue(rounds, src, n, dest), feeRate)
           fee      == effectiveValue(rounds, dest, effectiveValue(rounds, src, n, dest) - received, zUSD)
           b        == Settled(from, src)
           c        == Credited(Debited(b, from, src, n), to, dest, received)
           entry    == [ src |-> src, amount |-> n, amountReceived |-> received,
                         exchangeFeeRate |-> feeRate, timestamp |-> now,
                         roundIdForSrc |-> _getCurrentRoundId(rounds, src),
                         roundIdForDest |-> _getCurrentRoundId(rounds, dest) ]
           q        == EntriesRemoved(from, src)
<1>2. /\ NoneBroken(src, dest) /\ CanSettle(from, src) /\ feeRate <= Unit
      /\ SettledBalance(from, src) >= n
      /\ waitingPeriod > 0 => Len(exchanges[to][dest]) < maxEntriesInQueue
      /\ breaker' = ProbedBreakers(src, dest)
      /\ balanceOf' = Credited(c, FEE_ADDRESS, zUSD, fee)
      /\ exchanges' = IF waitingPeriod > 0 THEN [q EXCEPT ![to][dest] = Append(@, entry)] ELSE q
      /\ fees' = fees + fee + (IF to = FEE_ADDRESS THEN received ELSE 0)
  BY DEF Exchanged
<1>3. n \in Nat /\ feeRate \in Nat /\ rounds \in Rounds
  <2>1. rounds \in Rounds
    BY DEF IInv, TypeOK, Rounds
  <2>2. QED
    BY <1>1, <1>2, <2>1, RemainingType, FeeRateType
<1>4. received \in Nat /\ fee \in Nat
  <2>1. /\ received = _deductFeesFromAmount(effectiveValue(rounds, src, n, dest), feeRate)
        /\ fee = effectiveValue(rounds, dest, effectiveValue(rounds, src, n, dest) - received, zUSD)
    OBVIOUS
  <2> HIDE DEF n, feeRate, received, fee
  <2>2. QED
    BY <1>2, <1>3, <2>1, ReceivedType
<1>5. entry \in ExchangeEntry /\ entry.amountReceived = received /\ entry.src = src
      /\ Known(rounds, entry, dest)
  <2>1. /\ now \in Nat \ {0} /\ Len(rounds[src]) \in Nat /\ Len(rounds[dest]) \in Nat
    <3>1. now \in Nat \ {0}
      BY <1>1, StateType
    <3>2. rounds[src] \in Seq(Round) /\ rounds[dest] \in Seq(Round)
      BY <1>3 DEF Rounds
    <3>3. QED
      BY <3>1, <3>2
  <2> HIDE DEF n, feeRate, received
  <2>2. QED
    BY <1>2, <1>3, <1>4, <2>1 DEF ExchangeEntry, Known, _getCurrentRoundId
<1> HIDE DEF n, feeRate, received, fee, entry
<1>6. /\ b \in Balances /\ b[from][src] = SettledBalance(from, src)
      /\ \A h \in Holder, j \in Synth : h # from \/ j # src => b[h][j] = balanceOf[h][j]
  BY <1>1, <1>2, SettledIs
<1>7. SettledBalance(from, src) \in Nat
  BY <1>1, <1>2, SettledType
<1>8. /\ c = Credited(Debited(b, from, src, n), to, dest, received)
      /\ balanceOf' = Credited(c, FEE_ADDRESS, zUSD, fee)
  BY <1>2
<1> HIDE DEF b, c
<1>9. /\ c \in Balances /\ c[to][dest] = b[to][dest] + received
      /\ \A h \in Holder, l \in Synth : h # from \/ l # src => c[h][l] >= b[h][l]
  <2>1. b \in Balances /\ n <= b[from][src]
    BY <1>2, <1>6
  <2>2. /\ c \in Balances
        /\ from # to \/ src # dest => c[to][dest] = b[to][dest] + received
        /\ \A h \in Holder, l \in Synth : h # from \/ l # src => c[h][l] >= b[h][l]
    BY <1>1, <1>3, <1>4, <1>8, <2>1, MovedIs
  <2>3. QED
    BY <2>2
<1>10. /\ balanceOf' \in Balances
       /\ \A h \in Holder, l \in Synth :
            balanceOf'[h][l] = IF h = FEE_ADDRESS /\ l = zUSD THEN c[FEE_ADDRESS][zUSD] + fee
                               ELSE c[h][l]
  <2>1. /\ Credited(c, FEE_ADDRESS, zUSD, fee) \in Balances
        /\ \A h \in Holder, l \in Synth :
             Credited(c, FEE_ADDRESS, zUSD, fee)[h][l]
               = IF h = FEE_ADDRESS /\ l = zUSD THEN c[FEE_ADDRESS][zUSD] + fee ELSE c[h][l]
    <3>1. c \in Balances /\ FEE_ADDRESS \in Holder /\ zUSD \in Synth /\ fee \in Nat
      BY <1>1, <1>4, <1>9
    <3>2. QED
      BY <3>1, CreditedIs
  <2>2. QED
    BY <1>8, <2>1
<1>11. \A h \in Holder, l \in Synth :
         balanceOf[h][l] \in Nat /\ c[h][l] \in Nat /\ b[h][l] \in Nat /\ balanceOf'[h][l] \in Nat
  BY <1>6, <1>9, <1>10, StateType DEF Balances
<1>12. \A h \in Holder, l \in Synth : balanceOf'[h][l] >= c[h][l]
  BY <1>4, <1>10, <1>11
<1>13. \A h \in Holder, l \in Synth : h # from \/ l # src => balanceOf'[h][l] >= balanceOf[h][l]
  <2>1. SUFFICES ASSUME NEW h \in Holder, NEW l \in Synth, h # from \/ l # src
                 PROVE  balanceOf'[h][l] >= balanceOf[h][l]
    OBVIOUS
  <2>2. balanceOf'[h][l] >= c[h][l] /\ c[h][l] >= b[h][l] /\ b[h][l] = balanceOf[h][l]
    BY <1>6, <1>9, <1>12, <2>1
  <2>3. QED
    BY <1>11, <2>2
<1>14. balanceOf'[to][dest] >= balanceOf[to][dest] + received
  <2>1. balanceOf'[to][dest] >= c[to][dest] /\ b[to][dest] = balanceOf[to][dest]
    BY <1>6, <1>12
  <2>2. QED
    BY <1>4, <1>9, <1>11, <2>1
<1>15. balanceOf'[FEE_ADDRESS][zUSD] >= balanceOf[FEE_ADDRESS][zUSD] + fee
  <2>1. /\ balanceOf'[FEE_ADDRESS][zUSD] = c[FEE_ADDRESS][zUSD] + fee
        /\ c[FEE_ADDRESS][zUSD] >= b[FEE_ADDRESS][zUSD]
        /\ b[FEE_ADDRESS][zUSD] = balanceOf[FEE_ADDRESS][zUSD]
    BY <1>1, <1>6, <1>9, <1>10
  <2>2. QED
    BY <1>1, <1>4, <1>11, <2>1
<1>16. /\ q \in [Holder -> [Synth -> Queue]] /\ q[from][src] = <<>>
       /\ \A h \in Holder, j \in Synth : h # from \/ j # src => q[h][j] = exchanges[h][j]
  BY <1>1, RemovedIs
<1> HIDE DEF q
<1>17. /\ exchanges' \in [Holder -> [Synth -> Queue]]
       /\ \A h \in Holder, j \in Synth : h # to \/ j # dest => exchanges'[h][j] = q[h][j]
       /\ exchanges'[to][dest] = IF waitingPeriod > 0 THEN Append(q[to][dest], entry) ELSE q[to][dest]
  <2>1. Append(q[to][dest], entry) \in Queue
    BY <1>5, <1>16 DEF Queue
  <2>2. QED
    BY <1>2, <1>16, <2>1
<1>18. /\ exchanges'[from][src] = <<>>
       /\ exchanges'[to][dest] = IF waitingPeriod > 0 THEN Append(exchanges[to][dest], entry)
                                 ELSE exchanges[to][dest]
       /\ \A h \in Holder, j \in Synth :
            (h # from \/ j # src) /\ (h # to \/ j # dest) => exchanges'[h][j] = exchanges[h][j]
  BY <1>1, <1>16, <1>17
<1>19. Cell(from, src)
  BY <1>2, <1>18 DEF Cell, IsSettled, CanSettle
<1>20. Cell(to, dest)
  <2>1. CASE waitingPeriod > 0
    <3>1. NotJump(entry, dest)
      BY <1>2, <1>5, NoneBrokenIsNoJump DEF NotJump
    <3>2. QED
      BY <1>2, <1>5, <1>14, <1>18, <2>1, <3>1 DEF Cell, Queues
  <2>2. CASE ~(waitingPeriod > 0)
    BY <1>13, <1>18, <2>2 DEF Cell, Receives
  <2>3. QED
    BY <2>1, <2>2
<1>21. \A h \in Holder, j \in Synth :
         (h # from \/ j # src) /\ (h # to \/ j # dest) => Cell(h, j)
  BY <1>13, <1>18 DEF Cell, Receives
<1>22. \A h \in Holder, j \in Synth : Cell(h, j)
  BY <1>19, <1>20, <1>21
<1>23. fees' \in Nat /\ (to # FEE_ADDRESS => fees' = fees + fee)
  <2>1. fees \in Nat
    BY DEF IInv, TypeOK
  <2>2. fees' = fees + fee + (IF to = FEE_ADDRESS THEN received ELSE 0)
    BY <1>2
  <2>3. QED
    BY <1>4, <2>1, <2>2
<1>24. CallTyped
  <2>1. breaker' \in [Synth -> Breaker]
    BY <1>2, ProbedBreakersType
  <2>2. QED
    BY <1>10, <1>17, <1>23, <2>1 DEF CallTyped, IInv, TypeOK
<1>25. FeeStep
  <2>1. SUFFICES ASSUME undisturbed', NoFeeQueue, FeesPooled
                 PROVE  /\ \A k \in Synth : exchanges'[FEE_ADDRESS][k] = <<>>
                        /\ balanceOf'[FEE_ADDRESS][zUSD] >= fees'
    BY DEF FeeStep
  <2>2. to # FEE_ADDRESS
    BY <2>1
  <2>3. \A k \in Synth : exchanges'[FEE_ADDRESS][k] = <<>>
    BY <1>1, <1>18, <2>1, <2>2 DEF NoFeeQueue
  <2>4. fees \in Nat
    BY DEF IInv, TypeOK
  <2>5. balanceOf'[FEE_ADDRESS][zUSD] >= fees'
    BY <1>1, <1>4, <1>11, <1>15, <1>23, <2>1, <2>2, <2>4 DEF FeesPooled
  <2>6. QED
    BY <2>3, <2>5
<1>26. QED
  BY <1>22, <1>24, <1>25 DEF Call

LEMMA ExchangingIsCall ==
  ASSUME IInv, ~systemSuspended, NEW from \in Account, NEW src \in Synth, NEW amount \in Nat,
         NEW dest \in Synth, NEW to \in Holder,
         Exchanging(from, src, amount, dest, to),
         undisturbed' \in BOOLEAN, undisturbed' => undisturbed,
         to = FEE_ADDRESS => ~undisturbed'
  PROVE  Call
<1>1. src # dest /\ UNCHANGED <<now, rounds, systemSuspended, waitingPeriod>>
  BY DEF Exchanging, EnsureCanExchange
<1>2. CASE StoppedByBreaker(src, dest)
  BY <1>1, <1>2, StoppedCells
<1>3. CASE OnlySettled(from, src, amount, dest)
  BY <1>1, <1>3, OnlySettledIsCall
<1>4. CASE Exchanged(from, src, amount, dest, to)
  BY <1>1, <1>4, ExchangedIsCall
<1>5. QED
  BY <1>2, <1>3, <1>4 DEF Exchanging

LEMMA ExchangeIsCall ==
  ASSUME IInv, NEW from \in Account, NEW src \in Synth, NEW amount \in Nat,
         NEW dest \in Synth, NEW to \in Account,
         exchange(from, src, amount, dest, to)
  PROVE  Call
<1>1. ~systemSuspended /\ Exchanging(from, src, amount, dest, to) /\ UNCHANGED undisturbed
  BY DEF exchange
<1>2. to \in Holder /\ to # FEE_ADDRESS /\ undisturbed \in BOOLEAN
  BY HolderAssumption DEF Holder, IInv, TypeOK
<1>3. QED
  BY <1>1, <1>2, ExchangingIsCall

LEMMA TransferToFeeAddressIsCall ==
  ASSUME IInv, NEW from \in Account, NEW k \in Synth, NEW value \in Nat \ {0},
         _transferToFeeAddress(from, k, value)
  PROVE  Call
<1>1. CASE k = zUSD
  BY <1>1, TransferZUSDToFeeAddressIsCall
<1>2. CASE k # zUSD
  <2>1. /\ ~systemSuspended /\ Exchanging(from, k, value, zUSD, FEE_ADDRESS) /\ undisturbed' = FALSE
    BY <1>2 DEF _transferToFeeAddress, EnsureCanTransfer
  <2>2. FEE_ADDRESS \in Holder /\ zUSD \in Synth
    BY RatesAssumption DEF Holder
  <2>3. QED
    BY <2>1, <2>2, ExchangingIsCall
<1>3. QED
  BY <1>1, <1>2

-----------------------------------------------------------------------------
(* Keepers, the owner, time and prices *)

(* A step that moves no synths and no prices.                              *)
LEMMA QuietIsCall ==
  ASSUME IInv, UNCHANGED <<now, rounds, waitingPeriod, undisturbed, balanceOf, exchanges, fees>>,
         systemSuspended' \in BOOLEAN, breaker' \in [Synth -> Breaker]
  PROVE  Call
<1>1. \A h \in Holder, j \in Synth : balanceOf[h][j] \in Nat
  BY StateType
<1>2. \A h \in Holder, j \in Synth : Cell(h, j)
  BY <1>1 DEF Cell, Receives
<1>3. CallTyped
  BY DEF CallTyped, IInv, TypeOK, Queue, Balances
<1>4. FeeStep
  BY DEF FeeStep, FeesPooled, NoFeeQueue
<1>5. QED
  BY <1>2, <1>3, <1>4 DEF Call

LEMMA BurnUnsettledIsCall ==
  ASSUME IInv, NEW a \in Account, NEW k \in Synth, NEW n \in Nat, burnUnsettled(a, k, n)
  PROVE  Call
<1>1. /\ balanceOf[a][k] >= n /\ balanceOf' = Debited(balanceOf, a, k, n) /\ undisturbed' = FALSE
      /\ UNCHANGED <<now, rounds, breaker, systemSuspended, waitingPeriod, exchanges, fees>>
  BY DEF burnUnsettled
<1>2. balanceOf \in Balances /\ a \in Holder
  BY DEF IInv, TypeOK, Balances, Holder
<1>3. balanceOf' \in Balances
  <2>1. n <= balanceOf[a][k]
    BY <1>1, <1>2 DEF Balances
  <2>2. QED
    BY <1>1, <1>2, <2>1, DebitedIs
<1>4. \A h \in Holder, j \in Synth : Cell(h, j)
  BY <1>1 DEF Cell, Disturbs
<1>5. CallTyped
  BY <1>1, <1>3 DEF CallTyped, IInv, TypeOK, Queue
<1>6. FeeStep
  BY <1>1 DEF FeeStep
<1>7. QED
  BY <1>4, <1>5, <1>6 DEF Call

LEMMA HoldersActIsCall ==
  ASSUME IInv, NEW a \in Account, HoldersAct(a)
  PROVE  Call
<1>1. Amount \subseteq Nat \ {0} /\ a \in Holder /\ zUSD \in Synth
  BY StartAssumption, RatesAssumption DEF Holder
<1>2. ASSUME NEW src \in Synth, NEW dest \in Synth, NEW n \in Amount, NEW to \in Account,
             exchange(a, src, n, dest, to)
      PROVE  Call
  BY <1>1, <1>2, ExchangeIsCall
<1>3. ASSUME NEW k \in Synth, NEW n \in Amount, NEW to \in Holder, transfer(a, k, n, to)
      PROVE  Call
  BY <1>1, <1>3, TransferIsCall
<1>4. ASSUME NEW k \in Synth, NEW n \in Amount, NEW to \in Holder, transferAndSettle(a, k, n, to)
      PROVE  Call
  BY <1>1, <1>4, TransferAndSettleIsCall
<1>5. ASSUME NEW k \in Synth, NEW n \in Amount, transferToNobody(a, k, n)
      PROVE  Call
  BY <1>1, <1>5, TransferToNobodyIsCall
<1>6. ASSUME NEW k \in Synth, NEW n \in Amount, _transferToFeeAddress(a, k, n)
      PROVE  Call
  BY <1>1, <1>6, TransferToFeeAddressIsCall
<1>7. ASSUME NEW k \in Synth, NEW n \in Amount, burnSynthsWithoutDebt(a, k, n)
      PROVE  Call
  BY <1>1, <1>7, HolderBurnsIsCall DEF burnSynthsWithoutDebt
<1>8. ASSUME NEW k \in Synth, NEW n \in Amount, burnUnsettled(a, k, n)
      PROVE  Call
  BY <1>1, <1>8, BurnUnsettledIsCall
<1>9. ASSUME NEW n \in Amount, NEW existingDebt \in Amount, burnSynths(a, n, existingDebt)
      PROVE  Call
  <2>1. PICK m : /\ m = existingDebt \/ m = AmountRemaining(a, zUSD, n)
                 /\ SettleAndBurn(a, zUSD, m) /\ UNCHANGED fees
    BY <1>9 DEF burnSynths
  <2>2. CanSettle(a, zUSD)
    BY <2>1 DEF SettleAndBurn
  <2>3. m \in Nat
    BY <1>1, <2>1, <2>2, RemainingType
  <2>4. QED
    BY <1>1, <2>1, <2>3, HolderBurnsIsCall
<1>10. QED
  BY <1>2, <1>3, <1>4, <1>5, <1>6, <1>7, <1>8, <1>9 DEF HoldersAct

LEMMA RateWithSafetyChecksIsCall ==
  ASSUME IInv, NEW k \in Synth, rateWithSafetyChecks(k)
  PROVE  Call
<1>1. /\ breaker' = [breaker EXCEPT ![k] = Probed(breaker, rounds, k, systemSuspended)]
      /\ UNCHANGED <<now, rounds, systemSuspended, waitingPeriod, undisturbed, balanceOf, exchanges, fees>>
  BY DEF rateWithSafetyChecks
<1>2. breaker \in [Synth -> Breaker] /\ systemSuspended \in BOOLEAN
  BY DEF IInv, TypeOK
<1>3. breaker' \in [Synth -> Breaker]
  BY <1>1, <1>2, ProbedType
<1>4. QED
  BY <1>1, <1>2, <1>3, QuietIsCall

LEMMA ResetBreakerIsCall ==
  ASSUME IInv, NEW k \in Synth, NEW value \in ResetValue, resetBreaker(k, value)
  PROVE  Call
<1>1. /\ breaker' = [breaker EXCEPT ![k] = resetLastValue(value)]
      /\ UNCHANGED <<now, rounds, systemSuspended, waitingPeriod, undisturbed, balanceOf, exchanges, fees>>
  BY DEF resetBreaker
<1>2. resetLastValue(value) \in Breaker
  BY StartAssumption DEF resetLastValue, Breaker
<1>3. breaker \in [Synth -> Breaker] /\ systemSuspended \in BOOLEAN
  BY DEF IInv, TypeOK
<1>4. breaker' \in [Synth -> Breaker]
  BY <1>1, <1>2, <1>3
<1>5. QED
  BY <1>1, <1>3, <1>4, QuietIsCall

LEMMA SuspendOrResumeIsCall ==
  ASSUME IInv, suspendOrResumeSystem
  PROVE  Call
<1>1. /\ systemSuspended' \in BOOLEAN
      /\ UNCHANGED <<now, rounds, breaker, waitingPeriod, undisturbed, balanceOf, exchanges, fees>>
  BY DEF suspendOrResumeSystem
<1>2. breaker' \in [Synth -> Breaker]
  BY <1>1 DEF IInv, TypeOK
<1>3. QED
  BY <1>1, <1>2, QuietIsCall

\* The steps that are no calls move no synths.
Still == UNCHANGED <<balanceOf, exchanges>>

LEMMA StillKeeps ==
  ASSUME IInv, Still
  PROVE  \A h \in Holder, j \in Synth : NoneLeft(h, j) /\ NoJump(h, j)
<1>1. \A h \in Holder, j \in Synth : balanceOf[h][j] \in Nat /\ Len(exchanges[h][j]) \in Nat
  BY StateType
<1>2. QED
  BY <1>1 DEF Still, NoneLeft, NoJump

LEMMA TimePassesKeeps ==
  ASSUME IInv, TimePasses
  PROVE  IInv' /\ Still
<1>1. /\ now < MaxTime /\ now' = now + 1
      /\ UNCHANGED <<rounds, breaker, systemSuspended, waitingPeriod, undisturbed, balanceOf, exchanges, fees>>
  BY DEF TimePasses
<1>2. MaxTime \in Nat
  BY SettingAssumption
<1>3. now' \in 1 .. MaxTime \cup {1}
  <2>1. now \in 1 .. MaxTime \cup {1}
    BY DEF IInv, TypeOK
  <2>2. QED
    BY <1>1, <1>2, <2>1
<1>4. TypeOK'
  BY <1>1, <1>3 DEF IInv, TypeOK
<1>5. QueuesKnown'
  BY <1>1 DEF IInv, QueuesKnown
<1>6. undisturbed => NoFeeQueue' /\ FeesPooled'
  BY <1>1 DEF IInv, NoFeeQueue, FeesPooled
<1>7. undisturbed => Covered'
  <2>1. ASSUME undisturbed, NEW a \in Holder, NEW k \in Synth
        PROVE  AllMayTake(a, k)' <= balanceOf'[a][k]
    <3> DEFINE q == exchanges[a][k]
    <3>1. /\ q \in Queue /\ QueueKnown(rounds, q, k) /\ rounds \in Rounds
          /\ now \in Nat /\ now + 1 \in Nat /\ waitingPeriod \in Nat /\ balanceOf[a][k] \in Nat
      BY StateType
    <3> HIDE DEF q
    <3>2. SumOf(MayTakes(now + 1, rounds, waitingPeriod, q, k))
            <= SumOf(MayTakes(now, rounds, waitingPeriod, q, k))
      BY <3>1, LaterTakesLess
    <3>3. /\ SumOf(MayTakes(now + 1, rounds, waitingPeriod, q, k)) \in Nat
          /\ SumOf(MayTakes(now, rounds, waitingPeriod, q, k)) \in Nat
      BY <3>1, QueueSums
    <3>4. AllMayTake(a, k)' = SumOf(MayTakes(now + 1, rounds, waitingPeriod, q, k))
      BY <1>1, AmountsAre DEF q
    <3>5. SumOf(MayTakes(now, rounds, waitingPeriod, q, k)) <= balanceOf[a][k]
      BY <2>1 DEF IInv, Covered, AllMayTake, q
    <3>6. balanceOf'[a][k] = balanceOf[a][k]
      BY <1>1
    <3>7. QED
      BY <3>1, <3>2, <3>3, <3>4, <3>5, <3>6
  <2>2. QED
    BY <2>1 DEF Covered
<1>8. QED
  BY <1>1, <1>4, <1>5, <1>6, <1>7 DEF IInv, Still

LEMMA NewRoundIs ==
  ASSUME IInv, NEW j \in Synth, NEW price \in Price, newRound(j, price)
  PROVE  /\ j # zUSD /\ [rate |-> price, time |-> now] \in Round
         /\ rounds' \in Rounds /\ rounds'[zUSD] = <<>>
         /\ IsNewRound(rounds, rounds', j, [rate |-> price, time |-> now])
<1>1. j # zUSD /\ rounds' = [rounds EXCEPT ![j] = Append(@, [rate |-> price, time |-> now])]
  BY DEF newRound
<1>2. now \in Nat \ {0} /\ price \in Nat /\ zUSD \in Synth
  BY SettingAssumption, StartAssumption, RatesAssumption DEF IInv, TypeOK
<1>3. [rate |-> price, time |-> now] \in Round
  BY <1>2 DEF Round
<1>4. rounds \in Rounds /\ rounds[zUSD] = <<>>
  BY DEF IInv, TypeOK, Rounds
<1>5. Append(rounds[j], [rate |-> price, time |-> now]) \in Seq(Round)
  BY <1>3, <1>4 DEF Rounds
<1>6. rounds' \in Rounds /\ rounds'[zUSD] = <<>>
  BY <1>1, <1>2, <1>4, <1>5 DEF Rounds
<1>7. QED
  BY <1>1, <1>3, <1>6 DEF IsNewRound

LEMMA NewRoundKeeps ==
  ASSUME IInv, NEW j \in Synth, NEW price \in Price, newRound(j, price)
  PROVE  IInv' /\ Still
<1> DEFINE round == [rate |-> price, time |-> now]
           s     == rounds'
<1>1. /\ undisturbed' = (undisturbed /\ ~APeriodEndsNow)
      /\ UNCHANGED <<now, breaker, systemSuspended, waitingPeriod, balanceOf, exchanges, fees>>
  BY DEF newRound
<1>2. /\ j \in Synth \ {zUSD} /\ round \in Round /\ s \in Rounds /\ s[zUSD] = <<>>
      /\ IsNewRound(rounds, s, j, round) /\ round.time = now
  BY NewRoundIs
<1>3. TypeOK'
  BY <1>1, <1>2 DEF IInv, TypeOK, Rounds
<1> HIDE DEF round, s
<1>4. QueuesKnown'
  <2>1. ASSUME NEW a \in Holder, NEW k \in Synth PROVE QueueKnown(s, exchanges[a][k], k)
    <3> DEFINE q == exchanges[a][k]
    <3>1. q \in Queue /\ QueueKnown(rounds, q, k) /\ rounds \in Rounds
      BY StateType
    <3> HIDE DEF q
    <3>2. QueueKnown(s, q, k)
      BY <1>2, <3>1, RoundKnown
    <3>3. QED
      BY <3>2 DEF q
  <2>2. QED
    BY <1>1, <2>1 DEF QueuesKnown, s
<1>5. ASSUME undisturbed' PROVE Covered' /\ NoFeeQueue' /\ FeesPooled'
  <2>1. undisturbed /\ ~APeriodEndsNow
    BY <1>1, <1>5
  <2>2. NoFeeQueue' /\ FeesPooled'
    BY <1>1, <2>1 DEF IInv, NoFeeQueue, FeesPooled
  <2>3. ASSUME NEW a \in Holder, NEW k \in Synth
        PROVE  AllMayTake(a, k)' <= balanceOf'[a][k]
    <3> DEFINE q == exchanges[a][k]
    <3>1. /\ q \in Queue /\ QueueKnown(rounds, q, k) /\ rounds \in Rounds
          /\ now \in Nat /\ waitingPeriod \in Nat
      BY StateType
    <3>2. \A i \in DOMAIN q : now # q[i].timestamp + waitingPeriod
      BY <2>1 DEF APeriodEndsNow
    <3> HIDE DEF q
    <3>3. MayTakes(now, s, waitingPeriod, q, k) = MayTakes(now, rounds, waitingPeriod, q, k)
      BY <1>2, <3>1, <3>2, RoundTakesSame
    <3>4. AllMayTake(a, k)' = SumOf(MayTakes(now, s, waitingPeriod, q, k))
      BY <1>1, AmountsAre DEF q, s
    <3>5. SumOf(MayTakes(now, rounds, waitingPeriod, q, k)) <= balanceOf[a][k]
      BY <2>1 DEF IInv, Covered, AllMayTake, q
    <3>6. QED
      BY <1>1, <3>3, <3>4, <3>5
  <2>4. QED
    BY <2>2, <2>3 DEF Covered
<1>6. QED
  BY <1>1, <1>3, <1>4, <1>5 DEF IInv, Still

LEMMA SetWaitingPeriodKeeps ==
  ASSUME IInv, NEW secs \in WaitingPeriod, setWaitingPeriodSecs(secs)
  PROVE  IInv' /\ Still
<1>1. /\ waitingPeriod' \in WaitingPeriod /\ undisturbed' = FALSE
      /\ UNCHANGED <<now, rounds, breaker, systemSuspended, balanceOf, exchanges, fees>>
  BY DEF setWaitingPeriodSecs
<1>2. TypeOK' /\ QueuesKnown'
  BY <1>1 DEF IInv, TypeOK, QueuesKnown
<1>3. QED
  BY <1>1, <1>2 DEF IInv, Still

-----------------------------------------------------------------------------
(* The theorems *)

LEMMA InitIInv == Init => IInv
<1> SUFFICES ASSUME Init PROVE IInv
  OBVIOUS
<1>1. \A a \in Holder, k \in Synth : exchanges[a][k] = <<>>
  BY DEF Init
<1>2. FEE_ADDRESS \in Holder /\ zUSD \in Synth /\ FirstBalance \in [Holder -> [Synth -> Nat]]
  BY RatesAssumption, StartAssumption DEF Holder
<1>3. TypeOK
  <2>1. rounds \in [Synth -> Seq(Round)] /\ rounds[zUSD] = <<>>
    <3>1. \A k \in Synth : [rate |-> FirstPrice[k], time |-> 1] \in Round
      BY StartAssumption DEF Round
    <3>2. \A k \in Synth : <<[rate |-> FirstPrice[k], time |-> 1]>> \in Seq(Round)
      BY <3>1
    <3>3. QED
      BY <1>2, <3>2 DEF Init
  <2>2. breaker \in [Synth -> Breaker]
    BY DEF Init, Breaker, NewBreaker
  <2>3. exchanges \in [Holder -> [Synth -> Seq(ExchangeEntry)]]
    BY DEF Init
  <2>4. \A a \in Holder, k \in Synth : Len(exchanges[a][k]) <= maxEntriesInQueue
    <3>1. Len(<<>>) = 0 /\ maxEntriesInQueue \in Nat
      BY SettingAssumption
    <3>2. QED
      BY <1>1, <3>1
  <2>5. waitingPeriod \in WaitingPeriod /\ now \in 1 .. MaxTime \cup {1}
    BY SettingAssumption DEF Init
  <2>6. QED
    BY <1>2, <2>1, <2>2, <2>3, <2>4, <2>5 DEF Init, TypeOK
<1>4. QueuesKnown
  BY <1>1 DEF QueuesKnown, QueueKnown
<1>5. Covered
  <2>1. ASSUME NEW a \in Holder, NEW k \in Synth PROVE AllMayTake(a, k) <= balanceOf[a][k]
    <3>1. AllMayTake(a, k) = SumOf(MayTakes(now, rounds, waitingPeriod, <<>>, k))
      BY <1>1 DEF AllMayTake
    <3>2. AllMayTake(a, k) = 0
      BY <3>1, EmptySums
    <3>3. balanceOf[a][k] \in Nat
      BY <1>2 DEF Init
    <3>4. QED
      BY <3>2, <3>3
  <2>2. QED
    BY <2>1 DEF Covered
<1>6. NoFeeQueue /\ FeesPooled
  BY <1>1, <1>2 DEF NoFeeQueue, FeesPooled, Init
<1>7. QED
  BY <1>3, <1>4, <1>5, <1>6 DEF IInv

LEMMA StepKeeps ==
  ASSUME IInv, [Next]_vars
  PROVE  IInv' /\ \A h \in Holder, j \in Synth : NoneLeft(h, j) /\ NoJump(h, j)
<1>1. CASE UNCHANGED vars
  <2>1. systemSuspended' \in BOOLEAN /\ breaker' \in [Synth -> Breaker]
    BY <1>1 DEF vars, IInv, TypeOK
  <2>2. UNCHANGED <<now, rounds, waitingPeriod, undisturbed, balanceOf, exchanges, fees>>
    BY <1>1 DEF vars
  <2>3. QED
    BY <2>1, <2>2, QuietIsCall, CallKeeps
<1>2. ASSUME NEW a \in Account, HoldersAct(a)
      PROVE  Call
  BY <1>2, HoldersActIsCall
<1>3. CASE TimePasses
  BY <1>3, TimePassesKeeps, StillKeeps
<1>4. CASE suspendOrResumeSystem
  BY <1>4, SuspendOrResumeIsCall, CallKeeps
<1>5. ASSUME NEW k \in Synth, rateWithSafetyChecks(k)
      PROVE  Call
  BY <1>5, RateWithSafetyChecksIsCall
<1>6. ASSUME NEW k \in Synth, NEW price \in Price, newRound(k, price)
      PROVE  IInv' /\ Still
  BY <1>6, NewRoundKeeps
<1>7. ASSUME NEW k \in Synth, NEW value \in ResetValue, resetBreaker(k, value)
      PROVE  Call
  BY <1>7, ResetBreakerIsCall
<1>8. CASE WorldActs
  BY <1>3, <1>4, <1>5, <1>6, <1>7, <1>8, CallKeeps, StillKeeps DEF WorldActs
<1>9. CASE Settles
  <2>1. PICK a \in Holder, k \in Synth : settle(a, k)
    BY <1>9 DEF Settles
  <2>2. QED
    BY <2>1, SettleIsCall, CallKeeps
<1>10. CASE closeFees
  BY <1>10, CloseFeesIsCall, CallKeeps
<1>11. ASSUME NEW secs \in WaitingPeriod, setWaitingPeriodSecs(secs)
       PROVE  IInv' /\ Still
  BY <1>11, SetWaitingPeriodKeeps
<1>12. QED
  BY <1>1, <1>2, <1>8, <1>9, <1>10, <1>11, CallKeeps, StillKeeps DEF Next

THEOREM Invariance == Spec => []IInv
<1>1. IInv /\ [Next]_vars => IInv'
  BY StepKeeps
<1>2. QED
  BY <1>1, InitIInv, PTL DEF Spec

(* Whatever is to be burned later is there: the balance of every account    *)
(* covers what its settlement will reclaim (Exchanger.internalSettle burns   *)
(* it and would revert), and FEE_ADDRESS holds the fees that the close of a  *)
(* period burns, as long as the settlements are not disturbed.               *)
THEOREM ReclaimsAndFeesCovered == Spec => []BurnsCovered
<1>1. IInv => BurnsCovered
  <2>1. SUFFICES ASSUME IInv, undisturbed, NEW a \in Holder, NEW k \in Synth
                 PROVE  balanceOf[a][k] >= reclaimed(a, k)
    BY DEF IInv, BurnsCovered, ReclaimCovered
  <2>2. /\ AllMayTake(a, k) \in Nat /\ AllMayTake(a, k) <= balanceOf[a][k] /\ balanceOf[a][k] \in Nat
        /\ reclaimAmount(a, k) \in Nat /\ rebateAmount(a, k) \in Nat
        /\ reclaimAmount(a, k) <= AllMayTake(a, k)
    BY <2>1, AmountsType, StateType DEF IInv, Covered
  <2>3. reclaimed(a, k) \in Nat /\ reclaimed(a, k) <= reclaimAmount(a, k)
    BY <2>2 DEF reclaimed, floorsub
  <2>4. QED
    BY <2>2, <2>3
<1>2. QED
  BY <1>1, Invariance, PTL

(* As long as the settlements are not disturbed, no call lets a balance     *)
(* leave while an exchange into it waits: settle, exchange, transfers and   *)
(* the burns that settle all ask maxSecsLeftInWaitingPeriod.                *)
THEOREM WaitingHolds == Spec => NothingLeavesWhileWaiting
<1>1. IInv /\ [Next]_vars =>
        [undisturbed' => \A a \in Holder, k \in Synth :
           WaitingIsOver(a, k) \/ balanceOf'[a][k] >= balanceOf[a][k]]_vars
  BY StepKeeps DEF NoneLeft
<1>2. QED
  BY <1>1, Invariance, PTL DEF Spec, NothingLeavesWhileWaiting

(* No exchange is queued at a price that jumped from the one probed last,   *)
(* or with a broken circuit, before or after the probe of the exchange      *)
(* itself (_ensureCanExchange, CircuitBreaker.probeCircuitBreaker).         *)
THEOREM JumpsAreNotTraded == Spec => NoTradeOnJump
<1>1. IInv /\ [Next]_vars =>
        [\A a \in Holder, k \in Synth :
           Len(exchanges'[a][k]) > Len(exchanges[a][k]) =>
             LET entry == exchanges'[a][k][Len(exchanges'[a][k])]
             IN  \A j \in Priced({k, entry.src}) :
                   ~isInvalid(breaker[j], CurrentRound(rounds, j).rate) /\ ~breaker'[j].broken]_vars
  BY StepKeeps DEF NoJump, NotJump
<1>2. QED
  BY <1>1, Invariance, PTL DEF Spec, NoTradeOnJump

\* What an account has once it is settled depends on its queue, the rounds and
\* the waiting period only.
LEMMA SettledBalanceIs ==
  ASSUME NEW a, NEW k
  PROVE  /\ SettledBalance(a, k)
              = balanceOf[a][k] + (SumOf(Gives(rounds, waitingPeriod, exchanges[a][k], k))
                                   - SumOf(Takes(rounds, waitingPeriod, exchanges[a][k], k)))
         /\ SettledBalance(a, k)'
              = balanceOf'[a][k] + (SumOf(Gives(rounds', waitingPeriod', exchanges'[a][k], k))
                                    - SumOf(Takes(rounds', waitingPeriod', exchanges'[a][k], k)))
<1>1. SettledBalance(a, k) = balanceOf[a][k] + (rebateAmount(a, k) - reclaimAmount(a, k))
  BY DEF SettledBalance
<1>2. SettledBalance(a, k)' = balanceOf'[a][k] + (rebateAmount(a, k)' - reclaimAmount(a, k)')
  BY DEF SettledBalance
<1>3. QED
  BY <1>1, <1>2, AmountsAre

(* Settling pays what an account is owed and no one else: nobody's balance  *)
(* after settlement changes by it (internalSettle, ExchangeSettlementLib).  *)
THEOREM SettlingChangesNoEntitlement == Spec => SettlingIsNeutral
<1>1. ASSUME IInv, NEW a \in Holder, NEW k \in Synth, settle(a, k),
             NEW h \in Holder, NEW j \in Synth
      PROVE  SettledBalance(h, j)' = SettledBalance(h, j)
  <2>1. /\ exchanges' = EntriesRemoved(a, k) /\ balanceOf' = Settled(a, k) /\ CanSettle(a, k)
        /\ rounds' = rounds /\ waitingPeriod' = waitingPeriod
    BY <1>1 DEF settle
  <2>2. CASE h = a /\ j = k
    <3>1. exchanges'[h][j] = <<>> /\ balanceOf'[h][j] = SettledBalance(h, j)
      BY <1>1, <2>1, <2>2, RemovedIs, SettledIs
    <3>2. SettledBalance(h, j)'
            = balanceOf'[h][j] + (SumOf(Gives(rounds, waitingPeriod, <<>>, j))
                                  - SumOf(Takes(rounds, waitingPeriod, <<>>, j)))
      BY <2>1, <3>1, SettledBalanceIs
    <3>3. SettledBalance(h, j)' = balanceOf'[h][j] + (0 - 0)
      BY <3>2, EmptySums
    <3>4. SettledBalance(h, j) \in Int
      BY <1>1, SettledType
    <3>5. QED
      BY <3>1, <3>3, <3>4
  <2>3. CASE h # a \/ j # k
    <3>1. exchanges'[h][j] = exchanges[h][j] /\ balanceOf'[h][j] = balanceOf[h][j]
      BY <1>1, <2>1, <2>3, RemovedIs, SettledIs
    <3>2. QED
      BY <2>1, <3>1, SettledBalanceIs
  <2>4. QED
    BY <2>2, <2>3
<1>2. IInv /\ [Next]_vars =>
        [Settles => \A a \in Holder, k \in Synth : SettledBalance(a, k)' = SettledBalance(a, k)]_vars
  BY <1>1 DEF Settles
<1>3. QED
  BY <1>2, Invariance, PTL DEF Spec, SettlingIsNeutral

(* Once all waiting periods of a queue have ended, nothing the world does   *)
(* changes what the account will have: a later round is never the last one  *)
(* within the period (getLastRoundIdBeforeElapsedSecs).                     *)
THEOREM EntitlementIsFixed == Spec => EntitlementFixedAfterPeriod
<1>1. ASSUME IInv, NEW a \in Holder, NEW k \in Synth,
             UNCHANGED <<rounds, waitingPeriod, balanceOf, exchanges>>
      PROVE  SettledBalance(a, k)' = SettledBalance(a, k)
  BY <1>1, SettledBalanceIs
<1>2. ASSUME IInv, NEW j \in Synth, NEW price \in Price, newRound(j, price),
             NEW a \in Holder, NEW k \in Synth,
             \A i \in DOMAIN exchanges[a][k] : now > exchanges[a][k][i].timestamp + waitingPeriod
      PROVE  SettledBalance(a, k)' = SettledBalance(a, k)
  <2> DEFINE round == [rate |-> price, time |-> now]
             s     == rounds'
             q     == exchanges[a][k]
  <2>1. UNCHANGED <<waitingPeriod, balanceOf, exchanges>>
    BY <1>2 DEF newRound
  <2>2. /\ j \in Synth \ {zUSD} /\ round \in Round /\ s \in Rounds
        /\ IsNewRound(rounds, s, j, round) /\ round.time = now
    BY <1>2, NewRoundIs
  <2>3. /\ q \in Queue /\ QueueKnown(rounds, q, k) /\ rounds \in Rounds
        /\ now \in Nat /\ waitingPeriod \in Nat
        /\ \A i \in DOMAIN q : now > q[i].timestamp + waitingPeriod
    BY <1>2, StateType
  <2> HIDE DEF round, s, q
  <2>4. /\ Takes(s, waitingPeriod, q, k) = Takes(rounds, waitingPeriod, q, k)
        /\ Gives(s, waitingPeriod, q, k) = Gives(rounds, waitingPeriod, q, k)
    BY <2>2, <2>3, RoundSettlesSame
  <2>5. SettledBalance(a, k)'
          = balanceOf[a][k] + (SumOf(Gives(s, waitingPeriod, q, k)) - SumOf(Takes(s, waitingPeriod, q, k)))
    BY <2>1, SettledBalanceIs DEF q, s
  <2>6. SettledBalance(a, k)
          = balanceOf[a][k] + (SumOf(Gives(rounds, waitingPeriod, q, k))
                               - SumOf(Takes(rounds, waitingPeriod, q, k)))
    BY SettledBalanceIs DEF q
  <2>7. QED
    BY <2>4, <2>5, <2>6
<1>3. ASSUME IInv, WorldActs, NEW a \in Holder, NEW k \in Synth,
             \A i \in DOMAIN exchanges[a][k] : now > exchanges[a][k][i].timestamp + waitingPeriod
      PROVE  SettledBalance(a, k)' = SettledBalance(a, k)
  <2>1. CASE TimePasses \/ suspendOrResumeSystem
    BY <1>1, <1>3, <2>1 DEF TimePasses, suspendOrResumeSystem
  <2>2. ASSUME NEW j \in Synth, rateWithSafetyChecks(j)
        PROVE  UNCHANGED <<rounds, waitingPeriod, balanceOf, exchanges>>
    BY <2>2 DEF rateWithSafetyChecks
  <2>3. ASSUME NEW j \in Synth, NEW value \in ResetValue, resetBreaker(j, value)
        PROVE  UNCHANGED <<rounds, waitingPeriod, balanceOf, exchanges>>
    BY <2>3 DEF resetBreaker
  <2>4. QED
    BY <1>1, <1>2, <1>3, <2>1, <2>2, <2>3 DEF WorldActs
<1>4. IInv /\ [Next]_vars =>
        [WorldActs => \A a \in Holder, k \in Synth :
           (\A i \in DOMAIN exchanges[a][k] : now > exchanges[a][k][i].timestamp + waitingPeriod)
             => SettledBalance(a, k)' = SettledBalance(a, k)]_vars
  BY <1>3
<1>5. QED
  BY <1>4, Invariance, PTL DEF Spec, EntitlementFixedAfterPeriod
=============================================================================
