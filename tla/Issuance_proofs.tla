---------------------------- MODULE Issuance_proofs ----------------------------
(***************************************************************************)
(* Theorems about Issuance, for any accounts, prices, amounts, settings    *)
(* and bounds: no balance is ever negative, LiquidatorRewards holds what   *)
(* all accounts earned, whoever is open for liquidation can be liquidated, *)
(* nobody issues or sends beyond the ratio or burns out of the stake time, *)
(* and what one account does never costs another.  First each function of  *)
(* LiquidatorRewards, then the actions; the last properties hold up to     *)
(* what the divisions round, and say by how much.                          *)
(***************************************************************************)
EXTENDS Issuance, Arithmetic_proofs

-----------------------------------------------------------------------------
(* What the functions of LiquidatorRewards do to what it owes *)

\* No entry is ahead of the accumulator.
RewardsOK(r) ==
  r \in Rewards /\ \A a \in Account : r.entries[a].accumulated <= r.accumulated

\* What is owed to an account with s shares, in the smallest parts of HZN that the
\* accumulator knows: before the rounding of what is earned.
OwedTo(r, a, s) == s * (r.accumulated - r.entries[a].accumulated) + Unit * r.entries[a].claimable
Owed(r, s) == [a \in Account |-> OwedTo(r, a, s[a])]

LEMMA OwedToType ==
  ASSUME NEW r, RewardsOK(r), NEW a \in Account, NEW n \in Nat
  PROVE  OwedTo(r, a, n) \in Nat
<1>1. /\ r.accumulated \in Nat /\ r.entries[a].accumulated \in Nat
      /\ r.entries[a].claimable \in Nat /\ r.entries[a].accumulated <= r.accumulated
  BY DEF RewardsOK, Rewards, Entry
<1>2. r.accumulated - r.entries[a].accumulated \in Nat
  BY <1>1
<1>3. n * (r.accumulated - r.entries[a].accumulated) \in Nat
  BY <1>2, ProductType
<1>4. Unit * r.entries[a].claimable \in Nat
  BY <1>1, ProductType, RewardUnitAssumption
<1>5. QED
  BY <1>3, <1>4 DEF OwedTo

LEMMA OwedType ==
  ASSUME NEW r, RewardsOK(r), NEW s \in [Account -> Nat]
  PROVE  Owed(r, s) \in [Account -> Nat]
BY OwedToType DEF Owed

(* What is earned is a natural, and worth no more than what is owed.       *)
LEMMA EarnedBound ==
  ASSUME NEW r, RewardsOK(r), NEW a \in Account, NEW n \in Nat
  PROVE  earned(r, a, n) \in Nat /\ Unit * earned(r, a, n) <= OwedTo(r, a, n)
<1> DEFINE d == r.accumulated - r.entries[a].accumulated
           c == r.entries[a].claimable
           p == n * d
           q == p \div Unit
<1>1. d \in Nat /\ c \in Nat
  BY DEF RewardsOK, Rewards, Entry
<1>2. p \in Nat
  BY <1>1, ProductType
<1>3. earned(r, a, n) = q + c /\ OwedTo(r, a, n) = p + Unit * c
  BY DEF earned, multiplyDecimal, OwedTo
<1> HIDE DEF p, c, d
<1>4. q \in Nat /\ Unit * q <= p
  BY <1>2, QuotientBound, RewardUnitAssumption
<1> HIDE DEF q
<1>5. Unit * (q + c) = Unit * q + Unit * c
  BY <1>1, <1>4, RewardUnitAssumption
<1>6. Unit * c \in Nat /\ Unit * q \in Nat
  BY <1>1, <1>4, ProductType, RewardUnitAssumption
<1>7. Unit * earned(r, a, n) <= OwedTo(r, a, n)
  BY <1>2, <1>3, <1>4, <1>5, <1>6
<1>8. QED
  BY <1>1, <1>3, <1>4, <1>7

\* u is r after an update of the entry of a, who has n shares.
EntryUpdated(r, a, n, u) ==
  /\ RewardsOK(u)
  /\ u.accumulated = r.accumulated
  /\ \A b \in Account \ {a} : u.entries[b] = r.entries[b]
  /\ u.entries[a].claimable <= earned(r, a, n)
  /\ r.accumulated < Uint128 => u.entries[a].accumulated = r.accumulated

LEMMA UpdateEntryIs ==
  ASSUME NEW r, RewardsOK(r), NEW a \in Account, NEW n \in Nat,
         NEW u, u = updateEntry(r, a, n)
  PROVE  EntryUpdated(r, a, n, u)
<1> DEFINE c == IF a \in r.initiated THEN earned(r, a, n) % Uint128 ELSE r.entries[a].claimable
           m == r.accumulated % Uint128
           e == [claimable |-> c, accumulated |-> m]
<1>1. /\ r.accumulated \in Nat /\ r.entries \in [Account -> Entry]
      /\ r.initiated \in SUBSET Account /\ r \in Rewards
      /\ r.entries[a].claimable \in Nat
  BY DEF RewardsOK, Rewards, Entry
<1>2. /\ u = [ accumulated |-> r.accumulated, entries |-> [r.entries EXCEPT ![a] = e],
               initiated |-> r.initiated \cup {a} ]
  BY <1>1 DEF updateEntry, Rewards
<1>3. m \in Nat /\ m <= r.accumulated /\ (r.accumulated < Uint128 => m = r.accumulated)
  BY <1>1, RemainderBound, RewardUnitAssumption
<1>4. c \in Nat /\ c <= earned(r, a, n)
  <2>1. earned(r, a, n) \in Nat
    BY EarnedBound
  <2>2. earned(r, a, n) % Uint128 \in Nat /\ earned(r, a, n) % Uint128 <= earned(r, a, n)
    BY <2>1, RemainderBound, RewardUnitAssumption
  <2>3. r.entries[a].claimable <= earned(r, a, n)
    <3> DEFINE q == multiplyDecimal(n, r.accumulated - r.entries[a].accumulated, Unit)
    <3>1. r.accumulated - r.entries[a].accumulated \in Nat
      BY DEF RewardsOK, Rewards, Entry
    <3>2. q \in Nat
      BY <3>1, MultiplyDecimalType, RewardUnitAssumption
    <3>3. earned(r, a, n) = q + r.entries[a].claimable
      BY DEF earned
    <3> HIDE DEF q
    <3>4. QED
      BY <1>1, <3>2, <3>3
  <2>4. QED
    BY <1>1, <2>1, <2>2, <2>3
<1> HIDE DEF c, m
<1>5. e \in Entry
  BY <1>3, <1>4 DEF Entry
<1>6. /\ u.accumulated = r.accumulated /\ u.entries[a] = e
      /\ \A b \in Account \ {a} : u.entries[b] = r.entries[b]
  BY <1>1, <1>2
<1>7. u \in Rewards
  BY <1>1, <1>2, <1>5 DEF Rewards
<1>8. \A b \in Account : u.entries[b].accumulated <= u.accumulated
  BY <1>3, <1>6 DEF RewardsOK
<1>9. QED
  BY <1>3, <1>4, <1>6, <1>7, <1>8 DEF EntryUpdated, RewardsOK

(* An update owes no more, even when the shares of the account then change.*)
LEMMA UpdateOwes ==
  ASSUME NEW r, RewardsOK(r), r.accumulated < Uint128, NEW a \in Account,
         NEW s \in [Account -> Nat], NEW z \in [Account -> Nat],
         \A b \in Account \ {a} : z[b] = s[b],
         NEW u, EntryUpdated(r, a, s[a], u)
  PROVE  SumOf(Owed(u, z)) <= SumOf(Owed(r, s))
<1> DEFINE f == Owed(r, s)
           g == Owed(u, z)
<1>1. /\ RewardsOK(u) /\ u.accumulated = r.accumulated
      /\ u.entries[a].accumulated = r.accumulated
      /\ u.entries[a].claimable <= earned(r, a, s[a])
      /\ \A b \in Account \ {a} : u.entries[b] = r.entries[b]
  BY DEF EntryUpdated
<1>2. f \in [Account -> Nat] /\ g \in [Account -> Nat] /\ IsFiniteSet(Account)
  BY <1>1, OwedType, IssuanceAccountAssumption
<1>3. g[a] <= f[a]
  <2>1. g[a] = OwedTo(u, a, z[a]) /\ f[a] = OwedTo(r, a, s[a])
    BY DEF Owed
  <2>2. /\ u.entries[a].claimable \in Nat /\ r.accumulated \in Nat /\ z[a] \in Nat
        /\ s[a] \in Nat
    BY <1>1 DEF RewardsOK, Rewards, Entry
  <2>3. OwedTo(u, a, z[a]) = Unit * u.entries[a].claimable
    <3>1. u.accumulated - u.entries[a].accumulated = 0
      BY <1>1, <2>2
    <3>2. z[a] * 0 = 0 /\ Unit * u.entries[a].claimable \in Nat
      BY <2>2, ProductType, RewardUnitAssumption
    <3>3. QED
      BY <3>1, <3>2 DEF OwedTo
  <2>4. earned(r, a, s[a]) \in Nat /\ Unit * earned(r, a, s[a]) <= OwedTo(r, a, s[a])
    BY <2>2, EarnedBound
  <2>5. Unit * u.entries[a].claimable <= Unit * earned(r, a, s[a])
    <3> DEFINE c == u.entries[a].claimable
               e == earned(r, a, s[a])
    <3>1. c \in Nat /\ e \in Nat /\ c <= e /\ Unit \in Nat
      BY <1>1, <2>2, <2>4, RewardUnitAssumption
    <3> HIDE DEF c, e
    <3>2. Unit * c <= Unit * e
      BY <3>1
    <3>3. QED
      BY <3>2 DEF c, e
  <2>6. OwedTo(r, a, s[a]) \in Nat /\ Unit * earned(r, a, s[a]) \in Nat
        /\ Unit * u.entries[a].claimable \in Nat
    BY <2>2, <2>4, OwedToType, ProductType, RewardUnitAssumption
  <2>7. QED
    BY <2>1, <2>3, <2>4, <2>5, <2>6
<1>4. \A b \in Account \ {a} : g[b] = f[b]
  BY <1>1 DEF Owed, OwedTo
<1>5. \A b \in Account : f[b] \in Nat /\ g[b] <= f[b]
  BY <1>2, <1>3, <1>4
<1> HIDE DEF f, g
<1>6. SumOf(g) <= SumOf(f)
  BY <1>2, <1>5, SumOfMonotone
<1>7. QED
  BY <1>6 DEF f, g

(* What is paid is owed no more.                                           *)
LEMMA PayOwes ==
  ASSUME NEW r, RewardsOK(r), NEW a \in Account,
         NEW s \in [Account -> Nat],
         NEW paid, paid = rewardPaid(r, a, s[a]),
         NEW g, g = getReward(r, a, s[a])
  PROVE  /\ RewardsOK(g) /\ g.accumulated = r.accumulated /\ paid \in Nat
         /\ r.accumulated < Uint128 => SumOf(Owed(g, s)) + Unit * paid <= SumOf(Owed(r, s))
<1> DEFINE u == updateEntry(r, a, s[a])
           e == [claimable |-> 0, accumulated |-> u.entries[a].accumulated]
<1>1. EntryUpdated(r, a, s[a], u)
  <2>1. s[a] \in Nat
    OBVIOUS
  <2> HIDE DEF u
  <2>2. PICK n \in Nat : n = s[a]
    BY <2>1
  <2>3. u = updateEntry(r, a, n)
    BY <2>2 DEF u
  <2>4. QED
    BY <2>2, <2>3, UpdateEntryIs
<1>2. paid = u.entries[a].claimable
  BY DEF rewardPaid
<1>3. g = [u EXCEPT !.entries[a].claimable = 0]
  BY DEF getReward
<1> HIDE DEF u
<1>4. /\ RewardsOK(u) /\ u.accumulated = r.accumulated
      /\ u \in Rewards /\ u.entries \in [Account -> Entry]
      /\ u.accumulated \in Nat /\ u.entries[a] \in Entry
  BY <1>1 DEF EntryUpdated, RewardsOK, Rewards
<1>5. e \in Entry /\ paid \in Nat
  BY <1>2, <1>4 DEF Entry
<1>6. g = [accumulated |-> u.accumulated, entries |-> [u.entries EXCEPT ![a] = e],
           initiated |-> u.initiated]
  <2>1. [u.entries[a] EXCEPT !.claimable = 0] = e
    BY <1>4 DEF Entry
  <2>2. QED
    BY <1>3, <1>4, <2>1 DEF Rewards
<1>7. /\ g.accumulated = u.accumulated /\ g.entries[a] = e
      /\ \A b \in Account \ {a} : g.entries[b] = u.entries[b]
  BY <1>4, <1>6
<1>8. g \in Rewards
  BY <1>4, <1>5, <1>6 DEF Rewards
<1>9. RewardsOK(g)
  BY <1>4, <1>7, <1>8 DEF RewardsOK
<1>10. ASSUME r.accumulated < Uint128
       PROVE  SumOf(Owed(g, s)) + Unit * paid <= SumOf(Owed(r, s))
  <2> DEFINE f == Owed(u, s)
             h == Owed(g, s)
             n == Unit * paid
  <2>1. f \in [Account -> Nat] /\ h \in [Account -> Nat] /\ IsFiniteSet(Account)
    BY <1>4, <1>9, OwedType, IssuanceAccountAssumption
  <2>2. n \in Nat
    BY <1>5, ProductType, RewardUnitAssumption
  <2>3. h[a] + n <= f[a]
    <3> DEFINE w == s[a] * (u.accumulated - u.entries[a].accumulated)
    <3>1. h[a] = OwedTo(g, a, s[a]) /\ f[a] = OwedTo(u, a, s[a])
      BY DEF Owed
    <3>2. OwedTo(u, a, s[a]) = w + n
      BY <1>2 DEF OwedTo
    <3>3. OwedTo(g, a, s[a]) = w + Unit * 0
      BY <1>7 DEF OwedTo
    <3>4. Unit * 0 = 0 /\ w \in Nat
      <4>1. s[a] \in Nat /\ u.accumulated - u.entries[a].accumulated \in Nat
        BY <1>4 DEF RewardsOK, Rewards, Entry
      <4>2. QED
        BY <4>1, ProductType, RewardUnitAssumption
    <3> HIDE DEF w, n
    <3>5. QED
      BY <2>2, <3>1, <3>2, <3>3, <3>4
  <2>4. \A b \in Account \ {a} : h[b] = f[b]
    BY <1>7 DEF Owed, OwedTo
  <2>5. \A b \in Account \ {a} : h[b] <= f[b]
    BY <2>1, <2>4
  <2> HIDE DEF f, h, n
  <2>6. SumOf(h) + n <= SumOf(f)
    BY <2>1, <2>2, <2>3, <2>5, SumOfFalls
  <2>7. SumOf(f) <= SumOf(Owed(r, s))
    <3>1. \A b \in Account \ {a} : s[b] = s[b]
      OBVIOUS
    <3>2. QED
      BY <1>1, <1>10, <3>1, UpdateOwes DEF f
  <2>8. SumOf(h) \in Nat /\ SumOf(f) \in Nat /\ SumOf(Owed(r, s)) \in Nat
    <3>1. Owed(r, s) \in [Account -> Nat]
      BY OwedType
    <3>2. QED
      BY <2>1, <3>1, SumOfType
  <2>9. QED
    BY <2>2, <2>6, <2>7, <2>8 DEF h, n
<1>11. QED
  BY <1>4, <1>5, <1>7, <1>9, <1>10

(* A reward that is shared among all shares is owed at most once.          *)
LEMMA NotifyOwes ==
  ASSUME NEW r, RewardsOK(r), NEW reward \in Nat, NEW s \in [Account -> Nat],
         NEW n, n = notifyRewardAmount(r, reward, SumOf(s))
  PROVE  /\ RewardsOK(n) /\ r.accumulated <= n.accumulated
         /\ SumOf(Owed(n, s)) <= SumOf(Owed(r, s)) + Unit * reward
<1> DEFINE total == SumOf(s)
           d == divideDecimal(reward, total, Unit)
           f == Owed(r, s)
           g == Times(d, s)
           h == Owed(n, s)
<1>1. /\ r \in Rewards /\ r.accumulated \in Nat /\ total \in Nat
      /\ r.entries \in [Account -> Entry] /\ IsFiniteSet(Account)
  BY SumOfType, IssuanceAccountAssumption DEF RewardsOK, Rewards
<1>2. f \in [Account -> Nat] /\ SumOf(f) \in Nat /\ Unit * reward \in Nat
  BY <1>1, OwedType, SumOfType, ProductType, RewardUnitAssumption
<1>3. CASE total = 0
  <2>1. n = r
    BY <1>3 DEF notifyRewardAmount
  <2> HIDE DEF f
  <2>2. h = f
    BY <2>1 DEF f
  <2>3. QED
    BY <1>1, <1>2, <2>1, <2>2 DEF f
<1>4. CASE total > 0
  <2> HIDE DEF total
  <2>1. d \in Nat /\ total * d <= Unit * reward
    <3>1. reward * Unit \in Nat /\ total \in Nat \ {0}
      BY <1>1, <1>4, ProductType, RewardUnitAssumption
    <3>2. PICK p \in Nat : p = reward * Unit
      BY <3>1
    <3>3. p \div total \in Nat /\ total * (p \div total) <= p
      BY <3>1, <3>2, QuotientBound
    <3>4. d = p \div total
      BY <3>2 DEF divideDecimal
    <3>5. reward * Unit = Unit * reward
      BY RewardUnitAssumption
    <3> HIDE DEF d
    <3>6. QED
      BY <3>2, <3>3, <3>4, <3>5
  <2>2. n = [r EXCEPT !.accumulated = r.accumulated + d]
    BY <1>1, <1>4 DEF notifyRewardAmount, total, Rewards
  <2> HIDE DEF d
  <2>3. /\ n = [accumulated |-> r.accumulated + d, entries |-> r.entries,
                initiated |-> r.initiated]
        /\ n.accumulated = r.accumulated + d /\ n.entries = r.entries
    BY <1>1, <2>2 DEF Rewards
  <2>4. RewardsOK(n) /\ r.accumulated <= n.accumulated
    <3>1. n \in Rewards
      BY <1>1, <2>1, <2>3 DEF Rewards
    <3>2. ASSUME NEW a \in Account PROVE n.entries[a].accumulated <= n.accumulated
      <4>1. r.entries[a].accumulated <= r.accumulated /\ r.entries[a].accumulated \in Nat
        BY <1>1 DEF RewardsOK, Entry
      <4>2. QED
        BY <1>1, <2>1, <2>3, <4>1
    <3>3. QED
      BY <1>1, <2>1, <2>3, <3>1, <3>2 DEF RewardsOK
  <2>5. g \in [Account -> Nat] /\ SumOf(g) = d * total
    <3>1. \A a \in Account : d * s[a] \in Nat
      BY <2>1, ProductType
    <3>2. DOMAIN s = Account
      OBVIOUS
    <3>3. SumOf(g) = d * SumOf(s)
      BY <1>1, <2>1, SumOfTimes
    <3>4. QED
      BY <3>1, <3>2, <3>3 DEF Times, total
  <2>6. \A a \in Account : OwedTo(n, a, s[a]) = OwedTo(r, a, s[a]) + d * s[a]
    <3>1. SUFFICES ASSUME NEW a \in Account
                   PROVE  OwedTo(n, a, s[a]) = OwedTo(r, a, s[a]) + d * s[a]
      OBVIOUS
    <3> DEFINE e == r.entries[a].accumulated
               x == r.accumulated
               k == s[a]
               c == Unit * r.entries[a].claimable
    <3>2. e \in Nat /\ x \in Nat /\ k \in Nat /\ c \in Nat
      BY <1>1, ProductType, RewardUnitAssumption DEF Entry
    <3>3. OwedTo(n, a, s[a]) = k * ((x + d) - e) + c
      BY <2>3 DEF OwedTo
    <3>4. OwedTo(r, a, s[a]) = k * (x - e) + c
      BY DEF OwedTo
    <3> HIDE DEF e, x, k, c
    <3>5. k * ((x + d) - e) = k * (x - e) + d * k
      BY <2>1, <3>2
    <3>6. k * (x - e) \in Int /\ d * k \in Int
      BY <2>1, <3>2
    <3>7. OwedTo(n, a, s[a]) = OwedTo(r, a, s[a]) + d * k
      BY <3>2, <3>3, <3>4, <3>5, <3>6
    <3>8. QED
      BY <3>7 DEF k
  <2>7. h = [a \in Account |-> f[a] + g[a]]
    BY <2>6 DEF Owed, Times
  <2> HIDE DEF f, g, h
  <2>8. SumOf(h) = SumOf(f) + SumOf(g)
    BY <1>1, <1>2, <2>5, <2>7, SumOfAdd
  <2>9. d * total = total * d
    BY <1>1, <2>1
  <2>10. SumOf(h) <= SumOf(f) + Unit * reward
    <3>1. SumOf(g) <= Unit * reward
      BY <2>1, <2>5, <2>9
    <3>2. SumOf(g) \in Nat
      BY <1>1, <2>5, SumOfType
    <3>3. PICK x \in Nat : x = Unit * reward
      BY <1>2
    <3>4. SumOf(g) <= x
      BY <3>1, <3>3
    <3>5. SumOf(h) <= SumOf(f) + x
      BY <1>2, <2>8, <3>2, <3>4
    <3>6. QED
      BY <3>3, <3>5
  <2>11. QED
    BY <2>4, <2>10 DEF f, h
<1>5. QED
  BY <1>1, <1>3, <1>4

(* Tokens that cover what is owed cover what is earned.                    *)
LEMMA OwedCoversEarned ==
  ASSUME NEW r, RewardsOK(r), NEW s \in [Account -> Nat], NEW t \in Nat,
         SumOf(Owed(r, s)) <= Unit * t
  PROVE  SumOf([a \in Account |-> earned(r, a, s[a])]) <= t
<1> DEFINE e == [a \in Account |-> earned(r, a, s[a])]
           g == Times(Unit, e)
           f == Owed(r, s)
<1>1. IsFiniteSet(Account) /\ f \in [Account -> Nat] /\ Unit \in Nat
  BY OwedType, IssuanceAccountAssumption, RewardUnitAssumption
<1>2. \A a \in Account : e[a] \in Nat /\ Unit * e[a] <= f[a]
  <2>1. \A a \in Account : s[a] \in Nat
    OBVIOUS
  <2>2. QED
    BY <2>1, EarnedBound DEF Owed
<1>3. e \in [Account -> Nat] /\ DOMAIN e = Account
  BY <1>2
<1> HIDE DEF e, f
<1>4. g \in [Account -> Nat] /\ \A a \in Account : g[a] <= f[a]
  <2>1. \A a \in Account : Unit * e[a] \in Nat
    BY <1>1, <1>2, ProductType
  <2>2. QED
    BY <1>2, <1>3, <2>1 DEF Times
<1>5. SumOf(g) = Unit * SumOf(e)
  BY <1>1, <1>3, SumOfTimes
<1> HIDE DEF g
<1>6. SumOf(g) <= SumOf(f)
  BY <1>1, <1>4, SumOfMonotone
<1>7. SumOf(e) \in Nat /\ SumOf(f) \in Nat
  BY <1>1, <1>3, SumOfType
<1>8. Unit * SumOf(e) <= Unit * t
  <2>1. Unit * SumOf(e) \in Nat /\ Unit * t \in Nat
    BY <1>1, <1>7, ProductType
  <2>2. QED
    BY <1>5, <1>6, <1>7, <2>1 DEF f
<1>9. PICK x \in Nat : x = SumOf(e)
  BY <1>7
<1>10. x <= t
  BY <1>8, <1>9, RewardUnitAssumption
<1>11. QED
  BY <1>9, <1>10 DEF e

-----------------------------------------------------------------------------
(* The inductive invariant *)

\* The accumulator only grows, and the migrated are not forgotten: when neither
\* bound is passed now, neither ever was.
Counted == rewards.accumulated < Uint128 /\ migrated = {}
Backed == Counted => SumOf(Owed(rewards, shares)) <= Unit * rewardTokens

IInv == TypeOK /\ RewardsOK(rewards) /\ Backed

(* The views are naturals.                                                 *)
LEMMA RatioType == ASSUME IInv PROVE totalShares \in Nat /\ rawDebtRatio \in Nat
<1>1. totalShares \in Nat
  BY SumOfType, IssuanceAccountAssumption DEF IInv, TypeOK, totalShares
<1>2. debt \in Nat /\ PreciseUnit \in Nat
  BY RatioAssumption, IssuanceAmountAssumption DEF IInv, TypeOK
<1>3. ASSUME totalShares # 0
      PROVE  divideDecimalRound(debt, totalShares, PreciseUnit) \in Nat
  BY <1>1, <1>2, <1>3, DivideDecimalRoundType
<1>4. QED
  BY <1>1, <1>2, <1>3 DEF rawDebtRatio

LEMMA SharesForDebtType ==
  ASSUME IInv, NEW n \in Nat PROVE _sharesForDebt(n) \in Nat
<1>1. rawDebtRatio \in Nat /\ PreciseUnit \in Nat
  BY RatioType, RatioAssumption
<1>2. ASSUME rawDebtRatio # 0
      PROVE  divideDecimalRound(n, rawDebtRatio, PreciseUnit) \in Nat
  BY <1>1, <1>2, DivideDecimalRoundType
<1>3. QED
  BY <1>2 DEF _sharesForDebt

LEMMA DebtBalanceType ==
  ASSUME IInv, NEW a \in Account PROVE debtBalanceOf(a) \in Nat
<1>1. rawDebtRatio \in Nat /\ PreciseUnit \in Nat \ {0} /\ shares[a] \in Nat
  BY RatioType, RatioAssumption DEF IInv, TypeOK
<1>2. QED
  BY <1>1, MultiplyDecimalRoundType DEF debtBalanceOf

LEMMA PriceType == ASSUME IInv PROVE price \in Nat \ {0}
BY IssuanceAmountAssumption DEF IInv, TypeOK

LEMMA ValueType ==
  ASSUME IInv, NEW n \in Nat PROVE _snxToUSD(n) \in Nat /\ _usdToSnx(n) \in Nat
BY PriceType, RewardUnitAssumption, MultiplyDecimalRoundType, DivideDecimalRoundType
   DEF _snxToUSD, _usdToSnx

LEMMA CollateralType ==
  ASSUME IInv, NEW a \in Account PROVE _collateral(a) \in Nat
<1>1. hzn[a] \in Nat /\ escrow[a] \in Nat /\ shares[a] \in Nat
  BY DEF IInv, TypeOK
<1>2. earned(rewards, a, shares[a]) \in Nat
  BY <1>1, EarnedBound DEF IInv
<1>3. QED
  BY <1>1, <1>2 DEF _collateral

LEMMA CollateralParts ==
  IInv => \A a \in Account : /\ _collateral(a) \in Nat /\ escrow[a] \in Nat
                             /\ earned(rewards, a, shares[a]) \in Nat
<1>1. ASSUME IInv, NEW a \in Account
      PROVE  /\ _collateral(a) \in Nat /\ escrow[a] \in Nat
             /\ earned(rewards, a, shares[a]) \in Nat
  <2>1. escrow[a] \in Nat /\ shares[a] \in Nat
    BY <1>1 DEF IInv, TypeOK
  <2>2. earned(rewards, a, shares[a]) \in Nat
    BY <1>1, <2>1, EarnedBound DEF IInv
  <2>3. QED
    BY <1>1, <2>1, <2>2, CollateralType
<1>2. QED
  BY <1>1

LEMMA CollateralTypeNext ==
  IInv' => \A a \in Account : /\ _collateral(a)' \in Nat /\ escrow'[a] \in Nat
                              /\ earned(rewards', a, shares'[a]) \in Nat
<1>1. (IInv => \A a \in Account : /\ _collateral(a) \in Nat /\ escrow[a] \in Nat
                                  /\ earned(rewards, a, shares[a]) \in Nat)'
  BY CollateralParts, PTL
<1>2. QED
  BY <1>1

LEMMA MaxIssuableType ==
  ASSUME IInv, NEW n \in Nat PROVE maxIssuableSynths(n) \in Nat
BY ValueType, RatioAssumption, RewardUnitAssumption, MultiplyDecimalType DEF maxIssuableSynths

LEMMA RemainingType ==
  ASSUME IInv, NEW a \in Account PROVE remainingIssuableSynths(a) \in Nat
BY MaxIssuableType, CollateralType, DebtBalanceType, FloorsubType DEF remainingIssuableSynths

LEMMA SharesMintedType ==
  ASSUME IInv, NEW n \in Nat PROVE SharesMinted(n) \in Nat
BY SharesForDebtType DEF SharesMinted

LEMMA SharesBurnedType ==
  ASSUME IInv, NEW a \in Account, NEW n \in Nat
  PROVE  SharesBurned(a, n) \in Nat /\ SharesBurned(a, n) <= shares[a]
<1>1. _sharesForDebt(n) \in Nat /\ shares[a] \in Nat
  BY SharesForDebtType DEF IInv, TypeOK
<1>2. QED
  BY <1>1 DEF SharesBurned, Lesser

-----------------------------------------------------------------------------
(* What a step has to keep *)

Balances ==
  /\ hzn' \in [Account -> Nat] /\ escrow' \in [Account -> Nat]
  /\ shares' \in [Account -> Nat] /\ rewardTokens' \in Nat
Covers == RewardsOK(rewards') /\ Backed'
RestTyped ==
  /\ debt' \in 0 .. MaxDebt /\ price' \in Price /\ broken' \subseteq Oracle
  /\ now' \in 1 .. MaxTime
  /\ lastIssue' \in [Account -> 0 .. MaxTime]
  /\ deadline' \in [Account -> 0 .. MaxTime + LiquidationDelay]
  /\ caller' \in [Account -> Account \cup {Nobody}]
  /\ migrated' \subseteq Account
  /\ \A a \in Account : deadline'[a] > 0 => caller'[a] \in Account

LEMMA KeptWhen == ASSUME Balances, Covers, RestTyped PROVE IInv'
<1>1. rewards' \in Rewards
  BY DEF Covers, RewardsOK
<1>2. TypeOK'
  BY <1>1 DEF Balances, RestTyped, TypeOK
<1>3. QED
  BY <1>2 DEF Covers, IInv

LEMMA RestUnchanged ==
  ASSUME IInv, UNCHANGED <<debt, lastIssue, oracleVars, flagVars, migrated>>
  PROVE  RestTyped
BY DEF IInv, TypeOK, RestTyped, oracleVars, flagVars

LEMMA CoversUnchanged ==
  ASSUME IInv, UNCHANGED <<rewards, shares, rewardTokens, migrated>>
  PROVE  Covers
BY DEF IInv, Covers, Backed, Counted

LEMMA BalancesUnchanged ==
  ASSUME IInv, UNCHANGED <<hzn, escrow, shares, rewardTokens>> PROVE Balances
BY DEF IInv, TypeOK, Balances

(* When the entry of an account is updated before its shares change, what  *)
(* LiquidatorRewards holds still covers what it owes.                      *)
LEMMA EntryCovers ==
  ASSUME IInv, NEW a \in Account, rewards' = updateEntry(rewards, a, shares[a]),
         shares' \in [Account -> Nat], \A b \in Account \ {a} : shares'[b] = shares[b],
         UNCHANGED <<rewardTokens, migrated>>
  PROVE  Covers
<1>1. /\ RewardsOK(rewards) /\ shares \in [Account -> Nat] /\ shares[a] \in Nat
      /\ rewardTokens \in Nat
  BY DEF IInv, TypeOK
<1>2. EntryUpdated(rewards, a, shares[a], rewards')
  BY <1>1, UpdateEntryIs
<1>3. RewardsOK(rewards') /\ rewards'.accumulated = rewards.accumulated
  BY <1>2 DEF EntryUpdated
<1>4. ASSUME Counted'
      PROVE  SumOf(Owed(rewards', shares')) <= Unit * rewardTokens'
  <2>1. Counted
    BY <1>3, <1>4 DEF Counted
  <2>2. SumOf(Owed(rewards', shares')) <= SumOf(Owed(rewards, shares))
    BY <1>1, <1>2, <2>1, UpdateOwes DEF Counted
  <2>3. SumOf(Owed(rewards, shares)) <= Unit * rewardTokens
    BY <2>1 DEF IInv, Backed
  <2>4. /\ SumOf(Owed(rewards, shares)) \in Nat /\ SumOf(Owed(rewards', shares')) \in Nat
        /\ Unit * rewardTokens \in Nat
    <3>1. Owed(rewards, shares) \in [Account -> Nat] /\ Owed(rewards', shares') \in [Account -> Nat]
      BY <1>1, <1>3, OwedType
    <3>2. QED
      BY <1>1, <3>1, SumOfType, IssuanceAccountAssumption, ProductType, RewardUnitAssumption
  <2>5. QED
    BY <2>2, <2>3, <2>4
<1>5. QED
  BY <1>3, <1>4 DEF Covers, Backed

-----------------------------------------------------------------------------
(* The actions *)

LEMMA IssuedStep ==
  ASSUME IInv, NEW a \in Account, NEW n \in Nat, Issued(a, n) PROVE IInv'
<1>1. /\ debt + n <= MaxDebt /\ debt' = debt + n
      /\ rewards' = updateEntry(rewards, a, shares[a])
      /\ shares' = [shares EXCEPT ![a] = @ + SharesMinted(n)]
      /\ lastIssue' = [lastIssue EXCEPT ![a] = now]
      /\ UNCHANGED <<hzn, escrow, rewardTokens, oracleVars, flagVars, migrated>>
  BY DEF Issued, EntryAtIssue
<1>2. shares \in [Account -> Nat] /\ SharesMinted(n) \in Nat /\ MaxDebt \in Nat /\ MaxTime \in Nat
  BY SharesMintedType, IssuanceAmountAssumption DEF IInv, TypeOK
<1>3. shares' \in [Account -> Nat] /\ \A b \in Account \ {a} : shares'[b] = shares[b]
  BY <1>1, <1>2
<1>4. Balances
  BY <1>1, <1>3 DEF Balances, IInv, TypeOK
<1>5. Covers
  BY <1>1, <1>3, EntryCovers
<1>6. RestTyped
  <2>1. debt' \in 0 .. MaxDebt
    BY <1>1, <1>2 DEF IInv, TypeOK
  <2>2. lastIssue' \in [Account -> 0 .. MaxTime]
    BY <1>1, <1>2 DEF IInv, TypeOK
  <2>3. QED
    BY <1>1, <2>1, <2>2 DEF RestTyped, IInv, TypeOK, oracleVars, flagVars
<1>7. QED
  BY <1>4, <1>5, <1>6, KeptWhen

LEMMA BurnedStep ==
  ASSUME IInv, NEW a \in Account, NEW n \in Nat, Burned(a, n) PROVE IInv'
<1> DEFINE existing == debtBalanceOf(a)
           burnt    == Lesser(existing, n)
<1>1. /\ burnt <= debt /\ debt' = debt - burnt
      /\ rewards' = updateEntry(rewards, a, shares[a])
      /\ shares' = [shares EXCEPT ![a] = @ - SharesBurned(a, burnt)]
      /\ deadline' = [deadline EXCEPT ![a] = 0] \/ deadline' = deadline
      /\ UNCHANGED <<hzn, escrow, rewardTokens, lastIssue, oracleVars, caller, migrated>>
  BY DEF Burned, EntryAtBurn
<1>2. burnt \in Nat
  BY DebtBalanceType DEF Lesser
<1> HIDE DEF burnt
<1>3. /\ shares \in [Account -> Nat] /\ SharesBurned(a, burnt) \in Nat
      /\ SharesBurned(a, burnt) <= shares[a]
      /\ MaxTime \in Nat /\ LiquidationDelay \in Nat /\ MaxDebt \in Nat
  BY <1>2, SharesBurnedType, IssuanceAmountAssumption DEF IInv, TypeOK
<1>4. shares' \in [Account -> Nat] /\ \A b \in Account \ {a} : shares'[b] = shares[b]
  BY <1>1, <1>3
<1>5. Balances
  BY <1>1, <1>4 DEF Balances, IInv, TypeOK
<1>6. Covers
  BY <1>1, <1>4, EntryCovers
<1>7. RestTyped
  <2>1. debt' \in 0 .. MaxDebt
    BY <1>1, <1>2, <1>3 DEF IInv, TypeOK
  <2>2. /\ deadline' \in [Account -> 0 .. MaxTime + LiquidationDelay]
        /\ \A b \in Account : deadline'[b] > 0 => deadline[b] > 0
    BY <1>1, <1>3 DEF IInv, TypeOK
  <2>3. QED
    BY <1>1, <2>1, <2>2 DEF RestTyped, IInv, TypeOK, oracleVars
<1>8. QED
  BY <1>5, <1>6, <1>7, KeptWhen

(* Both liquidations: the reward that is paid, and what is redeemed and    *)
(* shared among the shares that are left, leave what is owed covered.      *)
LEMMA LiquidatedKeeps ==
  ASSUME IInv, NEW a \in Account, NEW amounts, NEW paidOut \in [Account -> Nat],
         amounts.redeemed \in Nat, amounts.removed \in Nat, amounts.escrowed \in Nat,
         amounts.escrowed <= EscrowAfterReward(a),
         Liquidated(a, amounts, paidOut)
  PROVE  Balances /\ Covers
<1> DEFINE reward == rewardPaid(rewards, a, shares[a])
           burnt  == SharesBurned(a, amounts.removed)
           paid   == getReward(rewards, a, shares[a])
           entry  == updateEntry(paid, a, shares[a])
           gain   == amounts.redeemed
           left   == totalShares - burnt
<1>1. /\ reward <= rewardTokens
      /\ paidOut[a] >= gain
      /\ escrow' = [escrow EXCEPT ![a] = @ + reward - amounts.escrowed]
      /\ hzn' = [paidOut EXCEPT ![a] = @ - gain]
      /\ rewardTokens' = rewardTokens - reward + gain
      /\ shares' = [shares EXCEPT ![a] = @ - burnt]
      /\ rewards' = IF gain > 0 THEN notifyRewardAmount(entry, gain, left) ELSE entry
      /\ migrated' = migrated
      /\ amounts.escrowed <= escrow[a] + reward
  BY DEF Liquidated, EscrowAfterReward
<1>2. /\ RewardsOK(rewards) /\ shares \in [Account -> Nat] /\ shares[a] \in Nat
      /\ rewardTokens \in Nat /\ escrow \in [Account -> Nat] /\ gain \in Nat
      /\ IsFiniteSet(Account)
  BY IssuanceAccountAssumption DEF IInv, TypeOK
<1>3. burnt \in Nat /\ burnt <= shares[a]
  BY SharesBurnedType
<1>4. /\ RewardsOK(paid) /\ paid.accumulated = rewards.accumulated /\ reward \in Nat
      /\ rewards.accumulated < Uint128 =>
           SumOf(Owed(paid, shares)) + Unit * reward <= SumOf(Owed(rewards, shares))
  BY <1>2, PayOwes
<1> HIDE DEF reward, burnt, paid
<1>5. EntryUpdated(paid, a, shares[a], entry)
  <2>1. PICK n \in Nat : n = shares[a]
    BY <1>2
  <2> HIDE DEF entry
  <2>2. entry = updateEntry(paid, a, n)
    BY <2>1 DEF entry
  <2>3. QED
    BY <1>4, <2>1, <2>2, UpdateEntryIs
<1> HIDE DEF entry, gain, left
<1>6. RewardsOK(entry) /\ entry.accumulated = rewards.accumulated
  BY <1>4, <1>5 DEF EntryUpdated
<1>7. shares' \in [Account -> Nat] /\ \A b \in Account \ {a} : shares'[b] = shares[b]
  BY <1>1, <1>2, <1>3
<1>8. left = SumOf(shares')
  <2>1. PICK v \in Nat : v = shares[a] - burnt
    BY <1>2, <1>3
  <2>2. shares' = [shares EXCEPT ![a] = v]
    BY <1>1, <1>2, <2>1
  <2>3. SumOf(shares') = SumOf(shares) - shares[a] + v
    BY <1>2, <2>2, SumOfUpdate
  <2>4. SumOf(shares) \in Nat
    BY <1>2, SumOfType
  <2>5. QED
    BY <1>2, <1>3, <2>1, <2>3, <2>4 DEF left, totalShares
<1>9. /\ RewardsOK(rewards') /\ rewards.accumulated <= rewards'.accumulated
      /\ SumOf(Owed(rewards', shares')) <= SumOf(Owed(entry, shares')) + Unit * gain
  <2>1. SumOf(Owed(entry, shares')) \in Nat /\ Unit * gain \in Nat
    <3>1. Owed(entry, shares') \in [Account -> Nat]
      BY <1>6, <1>7, OwedType
    <3>2. QED
      BY <1>2, <3>1, SumOfType, ProductType, RewardUnitAssumption
  <2>2. CASE gain > 0
    <3>1. rewards' = notifyRewardAmount(entry, gain, SumOf(shares'))
      BY <1>1, <1>8, <2>2
    <3>2. QED
      BY <1>2, <1>6, <1>7, <3>1, NotifyOwes
  <2>3. CASE ~(gain > 0)
    <3>1. rewards' = entry
      BY <1>1, <2>3
    <3>2. rewards.accumulated \in Nat
      BY <1>2 DEF RewardsOK, Rewards
    <3>3. QED
      BY <1>6, <2>1, <3>1, <3>2
  <2>4. QED
    BY <2>2, <2>3
<1>10. ASSUME Counted'
       PROVE  SumOf(Owed(rewards', shares')) <= Unit * rewardTokens'
  <2>1. Counted /\ rewards.accumulated < Uint128 /\ paid.accumulated < Uint128
    <3>1. rewards'.accumulated < Uint128 /\ migrated = {}
      BY <1>1, <1>10 DEF Counted
    <3>2. rewards.accumulated \in Nat /\ rewards'.accumulated \in Nat
      BY <1>2, <1>9 DEF RewardsOK, Rewards
    <3>3. QED
      BY <1>4, <1>9, <3>1, <3>2, RewardUnitAssumption DEF Counted
  <2>2. SumOf(Owed(entry, shares')) <= SumOf(Owed(paid, shares))
    BY <1>2, <1>4, <1>5, <1>7, <2>1, UpdateOwes
  <2>3. SumOf(Owed(rewards, shares)) <= Unit * rewardTokens
    BY <2>1 DEF IInv, Backed
  <2>4. /\ SumOf(Owed(entry, shares')) \in Nat /\ SumOf(Owed(paid, shares)) \in Nat
        /\ SumOf(Owed(rewards, shares)) \in Nat /\ SumOf(Owed(rewards', shares')) \in Nat
    <3>1. /\ Owed(entry, shares') \in [Account -> Nat] /\ Owed(paid, shares) \in [Account -> Nat]
          /\ Owed(rewards, shares) \in [Account -> Nat]
          /\ Owed(rewards', shares') \in [Account -> Nat]
      BY <1>2, <1>4, <1>6, <1>7, <1>9, OwedType
    <3>2. QED
      BY <1>2, <3>1, SumOfType
  <2>5. Unit * rewardTokens' = Unit * rewardTokens - Unit * reward + Unit * gain
    <3>1. Unit \in Nat
      BY RewardUnitAssumption
    <3>2. QED
      BY <1>1, <1>2, <1>4, <3>1
  <2>6. Unit * rewardTokens \in Nat /\ Unit * reward \in Nat /\ Unit * gain \in Nat
    BY <1>2, <1>4, ProductType, RewardUnitAssumption
  <2>7. SumOf(Owed(paid, shares)) + Unit * reward <= SumOf(Owed(rewards, shares))
    BY <1>4, <2>1
  <2> DEFINE x == Unit * rewardTokens
             y == Unit * reward
             z == Unit * gain
  <2> HIDE DEF x, y, z
  <2>8. SumOf(Owed(rewards', shares')) <= x - y + z
    <3>1. x \in Nat /\ y \in Nat /\ z \in Nat
      BY <2>6 DEF x, y, z
    <3>2. SumOf(Owed(paid, shares)) + y <= SumOf(Owed(rewards, shares))
      BY <2>7 DEF y
    <3>3. SumOf(Owed(rewards, shares)) <= x
      BY <2>3 DEF x
    <3>4. SumOf(Owed(rewards', shares')) <= SumOf(Owed(entry, shares')) + z
      BY <1>9 DEF z
    <3>5. QED
      BY <2>2, <2>4, <3>1, <3>2, <3>3, <3>4
  <2>9. QED
    BY <2>5, <2>8 DEF x, y, z
<1>11. Covers
  BY <1>9, <1>10 DEF Covers, Backed
<1>12. Balances
  <2>1. escrow' \in [Account -> Nat]
    BY <1>1, <1>2, <1>4
  <2>2. hzn' \in [Account -> Nat]
    BY <1>1, <1>2
  <2>3. rewardTokens' \in Nat
    BY <1>1, <1>2, <1>4
  <2>4. QED
    BY <1>7, <2>1, <2>2, <2>3 DEF Balances
<1>13. QED
  BY <1>11, <1>12

LEMMA EscrowAfterRewardType ==
  ASSUME IInv, NEW a \in Account
  PROVE  /\ rewardPaid(rewards, a, shares[a]) \in Nat
         /\ EscrowAfterReward(a) \in Nat /\ hzn[a] \in Nat
<1>1. RewardsOK(rewards) /\ shares \in [Account -> Nat] /\ escrow[a] \in Nat /\ hzn[a] \in Nat
  BY DEF IInv, TypeOK
<1>2. rewardPaid(rewards, a, shares[a]) \in Nat
  BY <1>1, PayOwes
<1>3. QED
  BY <1>1, <1>2 DEF EscrowAfterReward

(* What fixes the ratio of an account: the divisor is positive because the *)
(* penalty leaves something of a unit of collateral at the issuance ratio. *)
LEMMA AmountToFixType ==
  ASSUME IInv, NEW owed \in Nat, NEW value \in Nat, NEW penalty \in Nat,
         CanFix(owed, value), (Unit + penalty) * IssuanceRatio < Unit * Unit
  PROVE  AmountToFix(owed, value, penalty) \in Nat
<1> DEFINE p == (Unit + penalty) * IssuanceRatio
           q == multiplyDecimal(value, IssuanceRatio, Unit)
           m == multiplyDecimal(Unit + penalty, IssuanceRatio, Unit)
<1>1. Unit \in Nat \ {0} /\ IssuanceRatio \in Nat /\ Unit + penalty \in Nat
  BY RewardUnitAssumption, RatioAssumption
<1>2. q \in Nat /\ m \in Nat /\ p \in Nat
  BY <1>1, MultiplyDecimalType, ProductType
<1>3. Unit * m <= p
  <2>1. PICK x \in Nat : x = p
    BY <1>2
  <2>2. Unit * (x \div Unit) <= x
    BY <1>1, <2>1, QuotientBound
  <2>3. QED
    BY <2>1, <2>2 DEF multiplyDecimal
<1>4. m < Unit
  <2> HIDE DEF m
  <2>1. Unit * m < Unit * Unit
    <3>1. Unit * m \in Nat /\ Unit * Unit \in Nat
      BY <1>1, <1>2, ProductType
    <3>2. p < Unit * Unit
      OBVIOUS
    <3> HIDE DEF p
    <3>3. QED
      BY <1>2, <1>3, <3>1, <3>2
  <2>2. QED
    BY <1>1, <1>2, <2>1
<1>5. q <= owed
  BY DEF CanFix
<1> HIDE DEF q, m
<1>6. owed - q \in Nat /\ Unit - m \in Nat \ {0}
  BY <1>1, <1>2, <1>4, <1>5
<1>7. divideDecimal(owed - q, Unit - m, Unit) \in Nat
  BY <1>1, <1>6, DivideDecimalType
<1>8. QED
  BY <1>7 DEF AmountToFix, q, m

LEMMA WithPenaltyType ==
  ASSUME IInv, NEW n \in Nat, NEW penalty \in Nat PROVE WithPenalty(n, penalty) \in Nat
<1>1. Unit + penalty \in Nat /\ Unit \in Nat \ {0} /\ _usdToSnx(n) \in Nat
  BY ValueType, RewardUnitAssumption
<1>2. QED
  BY <1>1, MultiplyDecimalType DEF WithPenalty

LEMMA TransferredType ==
  ASSUME NEW balance \in [Account -> Nat], NEW from \in Account, NEW to \in Account,
         NEW n \in Nat, n <= balance[from]
  PROVE  Transferred(balance, from, to, n) \in [Account -> Nat]
<1> DEFINE b == [balance EXCEPT ![from] = @ - n]
<1>1. b \in [Account -> Nat]
  OBVIOUS
<1> HIDE DEF b
<1>2. [b EXCEPT ![to] = @ + n] \in [Account -> Nat]
  BY <1>1
<1>3. QED
  BY <1>2 DEF Transferred, b

LEMMA TransferredOthers ==
  ASSUME NEW balance \in [Account -> Nat], NEW from \in Account, NEW to \in Account,
         NEW n \in Nat, NEW b \in Account \ {from}
  PROVE  Transferred(balance, from, to, n)[b] >= balance[b]
<1> DEFINE f == [balance EXCEPT ![from] = @ - n]
<1>1. f \in [Account -> Int] /\ f[b] = balance[b]
  OBVIOUS
<1> HIDE DEF f
<1>2. [f EXCEPT ![to] = @ + n][b] >= f[b]
  BY <1>1
<1>3. QED
  BY <1>1, <1>2 DEF Transferred, f

LEMMA ForcedStep ==
  ASSUME IInv, NEW a \in Account, NEW liquidator \in Account,
         liquidateDelinquentAccount(a, liquidator)
  PROVE  IInv'
<1> DEFINE owed     == debtBalanceOf(a)
           escrowed == EscrowAfterReward(a)
           amounts  == ForcedAmounts(owed, hzn[a], escrowed)
           revoked  == [hzn EXCEPT ![a] = @ + amounts.escrowed]
           flagPaid == Transferred(revoked, a, caller[a], FlagReward)
           paidOut  == Transferred(flagPaid, a, liquidator, LiquidateReward)
           value    == _snxToUSD((hzn[a] + escrowed) - rewardsSum)
           removed  == AmountToFix(owed, value, SnxLiquidationPenalty)
           target   == WithPenalty(removed, SnxLiquidationPenalty)
<1>1. /\ isLiquidationOpen(a, hzn[a] + escrowed)
      /\ CanFix(owed, value)
      /\ amounts.escrowed <= escrowed
      /\ revoked[a] >= FlagReward
      /\ flagPaid[a] >= LiquidateReward
      /\ Liquidated(a, amounts, paidOut)
      /\ deadline' = [deadline EXCEPT ![a] = 0]
  BY DEF liquidateDelinquentAccount
<1>2. /\ owed \in Nat /\ escrowed \in Nat /\ hzn[a] \in Nat /\ hzn \in [Account -> Nat]
      /\ rewardsSum \in Nat /\ FlagReward \in Nat /\ LiquidateReward \in Nat
      /\ SnxLiquidationPenalty \in Nat
  BY DebtBalanceType, EscrowAfterRewardType, IssuanceAmountAssumption, RatioAssumption
     DEF IInv, TypeOK, rewardsSum
<1>3. /\ hzn[a] + escrowed >= rewardsSum /\ deadline[a] > 0
  BY <1>1 DEF isLiquidationOpen
<1> HIDE DEF owed, escrowed
<1>4. /\ amounts.redeemed \in Nat /\ amounts.removed \in Nat /\ amounts.escrowed \in Nat
  <2>1. (hzn[a] + escrowed) - rewardsSum \in Nat
    BY <1>2, <1>3
  <2>2. value \in Nat
    BY <2>1, ValueType
  <2>3. removed \in Nat
    <3> HIDE DEF value
    <3>1. QED
      BY <1>1, <1>2, <2>2, AmountToFixType, RatioAssumption
  <2>4. target \in Nat
    <3> HIDE DEF removed
    <3>1. QED
      BY <1>2, <2>3, WithPenaltyType
  <2>5. _redeemableCollateralForTarget(target, hzn[a]) \in Nat
    <3> HIDE DEF target
    <3>1. target + rewardsSum \in Nat
      BY <1>2, <2>4
    <3>2. QED
      BY <1>2, <3>1, FloorsubType DEF _redeemableCollateralForTarget
  <2>6. \/ amounts = [redeemed |-> (hzn[a] + escrowed) - rewardsSum, escrowed |-> escrowed,
                      removed |-> owed]
        \/ amounts = [redeemed |-> target,
                      escrowed |-> _redeemableCollateralForTarget(target, hzn[a]),
                      removed |-> removed]
    BY DEF ForcedAmounts
  <2> HIDE DEF amounts, target, removed
  <2>7. QED
    BY <1>2, <2>1, <2>3, <2>4, <2>5, <2>6
<1> HIDE DEF amounts
<1>5. caller[a] \in Account
  BY <1>3 DEF IInv, TypeOK
<1>6. revoked \in [Account -> Nat]
  BY <1>2, <1>4
<1> HIDE DEF revoked
<1>7. flagPaid \in [Account -> Nat]
  BY <1>1, <1>2, <1>5, <1>6, TransferredType
<1> HIDE DEF flagPaid
<1>8. paidOut \in [Account -> Nat]
  BY <1>1, <1>2, <1>7, TransferredType
<1> HIDE DEF paidOut
<1>9. Balances /\ Covers
  <2>1. amounts.escrowed <= EscrowAfterReward(a)
    BY <1>1 DEF escrowed
  <2>2. QED
    BY <1>1, <1>4, <1>8, <2>1, LiquidatedKeeps
<1>10. RestTyped
  <2>1. UNCHANGED <<debt, lastIssue, oracleVars, caller, migrated>>
    BY <1>1 DEF Liquidated
  <2>2. /\ deadline' \in [Account -> 0 .. MaxTime + LiquidationDelay]
        /\ \A b \in Account : deadline'[b] > 0 => deadline[b] > 0
    BY <1>1, IssuanceAmountAssumption DEF IInv, TypeOK
  <2>3. QED
    BY <2>1, <2>2 DEF RestTyped, IInv, TypeOK, oracleVars
<1>11. QED
  BY <1>9, <1>10, KeptWhen

LEMMA SelfStep ==
  ASSUME IInv, NEW a \in Account, liquidateSelf(a) PROVE IInv'
<1> DEFINE owed     == debtBalanceOf(a)
           liquid   == hzn[a]
           escrowed == EscrowAfterReward(a)
           amounts  == SelfAmounts(owed, liquid, escrowed)
           value    == _snxToUSD(liquid + escrowed)
           toFix    == AmountToFix(owed, value, SelfLiquidationPenalty)
           redeemed == Lesser(WithPenalty(toFix, SelfLiquidationPenalty), liquid)
           worth    == divideDecimal(_snxToUSD(redeemed), Unit + SelfLiquidationPenalty, Unit)
<1>1. /\ CanFix(owed, value) /\ Liquidated(a, amounts, hzn) /\ UNCHANGED deadline
  BY DEF liquidateSelf
<1>2. /\ owed \in Nat /\ escrowed \in Nat /\ liquid \in Nat /\ hzn \in [Account -> Nat]
      /\ SelfLiquidationPenalty \in Nat /\ Unit \in Nat \ {0}
  BY DebtBalanceType, EscrowAfterRewardType, RatioAssumption, RewardUnitAssumption
     DEF IInv, TypeOK
<1>3. amounts = [redeemed |-> redeemed, escrowed |-> 0, removed |-> Lesser(worth, toFix)]
  BY DEF SelfAmounts
<1>4. Liquidated(a, amounts, hzn) /\ 0 <= EscrowAfterReward(a)
  BY <1>1, <1>2
<1> HIDE DEF owed, escrowed, liquid, amounts
<1>5. value \in Nat
  <2>1. liquid + escrowed \in Nat
    BY <1>2
  <2>2. QED
    BY <2>1, ValueType
<1> HIDE DEF value
<1>6. toFix \in Nat
  BY <1>1, <1>2, <1>5, AmountToFixType, RatioAssumption
<1> HIDE DEF toFix
<1>7. redeemed \in Nat
  BY <1>2, <1>6, WithPenaltyType DEF Lesser
<1> HIDE DEF redeemed
<1>8. worth \in Nat
  <2>1. _snxToUSD(redeemed) \in Nat /\ Unit + SelfLiquidationPenalty \in Nat \ {0}
    BY <1>2, <1>7, ValueType
  <2>2. QED
    BY <1>2, <2>1, DivideDecimalType
<1> HIDE DEF worth
<1>9. /\ amounts.redeemed \in Nat /\ amounts.removed \in Nat /\ amounts.escrowed \in Nat
      /\ amounts.escrowed <= EscrowAfterReward(a)
  BY <1>3, <1>4, <1>6, <1>7, <1>8 DEF Lesser
<1>10. Balances /\ Covers
  BY <1>2, <1>4, <1>9, LiquidatedKeeps
<1>11. RestTyped
  <2>1. UNCHANGED <<debt, lastIssue, oracleVars, flagVars, migrated>>
    BY <1>1 DEF Liquidated, flagVars
  <2>2. QED
    BY <2>1, RestUnchanged
<1>12. QED
  BY <1>10, <1>11, KeptWhen

LEMMA PayStep ==
  ASSUME IInv, NEW a \in Account, payReward(a) PROVE IInv'
<1> DEFINE reward == rewardPaid(rewards, a, shares[a])
           paid   == getReward(rewards, a, shares[a])
<1>1. /\ reward <= rewardTokens /\ rewards' = paid
      /\ rewardTokens' = rewardTokens - reward
      /\ escrow' = [escrow EXCEPT ![a] = @ + reward]
      /\ UNCHANGED <<hzn, shareVars, oracleVars, flagVars, migrated>>
  BY DEF payReward
<1>2. /\ RewardsOK(rewards) /\ shares \in [Account -> Nat] /\ rewardTokens \in Nat
      /\ escrow \in [Account -> Nat] /\ IsFiniteSet(Account)
  BY IssuanceAccountAssumption DEF IInv, TypeOK
<1>3. /\ RewardsOK(paid) /\ paid.accumulated = rewards.accumulated /\ reward \in Nat
      /\ rewards.accumulated < Uint128 =>
           SumOf(Owed(paid, shares)) + Unit * reward <= SumOf(Owed(rewards, shares))
  BY <1>2, PayOwes
<1> HIDE DEF reward, paid
<1>4. ASSUME Counted'
      PROVE  SumOf(Owed(paid, shares)) <= Unit * rewardTokens'
  <2>1. Counted
    BY <1>1, <1>3, <1>4 DEF Counted
  <2>2. /\ SumOf(Owed(paid, shares)) + Unit * reward <= SumOf(Owed(rewards, shares))
        /\ SumOf(Owed(rewards, shares)) <= Unit * rewardTokens
    BY <1>3, <2>1 DEF Counted, IInv, Backed
  <2>3. SumOf(Owed(paid, shares)) \in Nat /\ SumOf(Owed(rewards, shares)) \in Nat
    BY <1>2, <1>3, OwedType, SumOfType
  <2>4. Unit \in Nat
    BY RewardUnitAssumption
  <2>5. Unit * rewardTokens' = Unit * rewardTokens - Unit * reward
    BY <1>1, <1>2, <1>3, <2>4
  <2>6. Unit * rewardTokens \in Nat /\ Unit * reward \in Nat
    BY <1>2, <1>3, <2>4
  <2> DEFINE x == Unit * rewardTokens
             y == Unit * reward
  <2> HIDE DEF x, y
  <2>7. SumOf(Owed(paid, shares)) <= x - y
    <3>1. x \in Nat /\ y \in Nat
      BY <2>6 DEF x, y
    <3>2. SumOf(Owed(paid, shares)) + y <= SumOf(Owed(rewards, shares))
          /\ SumOf(Owed(rewards, shares)) <= x
      BY <2>2 DEF x, y
    <3>3. QED
      BY <2>3, <3>1, <3>2
  <2>8. QED
    BY <2>5, <2>7 DEF x, y
<1>5. Covers
  BY <1>1, <1>3, <1>4 DEF Covers, Backed, shareVars
<1>6. Balances
  BY <1>1, <1>2, <1>3 DEF Balances, IInv, TypeOK, shareVars
<1>7. RestTyped
  BY <1>1, RestUnchanged DEF shareVars
<1>8. QED
  BY <1>5, <1>6, <1>7, KeptWhen

LEMMA UpdateStep ==
  ASSUME IInv, NEW a \in Account, updateAnyEntry(a) PROVE IInv'
<1>1. /\ rewards' = updateEntry(rewards, a, shares[a])
      /\ UNCHANGED <<hzn, escrow, rewardTokens, shareVars, oracleVars, flagVars, migrated>>
  BY DEF updateAnyEntry
<1>2. shares' \in [Account -> Nat] /\ \A b \in Account \ {a} : shares'[b] = shares[b]
  BY <1>1 DEF shareVars, IInv, TypeOK
<1>3. Covers
  BY <1>1, <1>2, EntryCovers
<1>4. Balances /\ RestTyped
  BY <1>1, BalancesUnchanged, RestUnchanged DEF shareVars
<1>5. QED
  BY <1>3, <1>4, KeptWhen

(* Steps that leave LiquidatorRewards and the shares alone.                *)
LEMMA FlagStep ==
  ASSUME IInv, NEW a \in Account, NEW sender \in Account,
         \/ flagAccountForLiquidation(a, sender)
         \/ checkAndRemoveAccountInLiquidation(a)
  PROVE  IInv'
<1>1. UNCHANGED <<tokenVars, shareVars, oracleVars, migrated>>
  BY DEF flagAccountForLiquidation, checkAndRemoveAccountInLiquidation
<1>2. Covers /\ Balances
  BY <1>1, CoversUnchanged, BalancesUnchanged DEF tokenVars, shareVars
<1>3. /\ deadline' \in [Account -> 0 .. MaxTime + LiquidationDelay]
      /\ caller' \in [Account -> Account \cup {Nobody}]
      /\ \A b \in Account : deadline'[b] > 0 => caller'[b] \in Account
  <2>0. /\ MaxTime \in Nat /\ LiquidationDelay \in Nat /\ now \in 1 .. MaxTime
        /\ deadline \in [Account -> 0 .. MaxTime + LiquidationDelay]
        /\ caller \in [Account -> Account \cup {Nobody}]
        /\ \A b \in Account : deadline[b] > 0 => caller[b] \in Account
    BY IssuanceAmountAssumption DEF IInv, TypeOK
  <2>1. CASE flagAccountForLiquidation(a, sender)
    <3>1. /\ deadline' = [deadline EXCEPT ![a] = now + LiquidationDelay]
          /\ caller' = [caller EXCEPT ![a] = sender]
      BY <2>1 DEF flagAccountForLiquidation
    <3>2. now + LiquidationDelay \in 0 .. MaxTime + LiquidationDelay
      BY <2>0
    <3>3. QED
      BY <2>0, <3>1, <3>2
  <2>2. CASE checkAndRemoveAccountInLiquidation(a)
    <3>1. deadline' = [deadline EXCEPT ![a] = 0] /\ caller' = caller
      BY <2>2 DEF checkAndRemoveAccountInLiquidation
    <3>2. QED
      BY <2>0, <3>1
  <2>3. QED
    BY <2>1, <2>2
<1>4. RestTyped
  BY <1>1, <1>3 DEF RestTyped, IInv, TypeOK, shareVars, oracleVars
<1>5. QED
  BY <1>2, <1>4, KeptWhen

LEMMA VestStep ==
  ASSUME IInv, NEW a \in Account, vest(a) PROVE IInv'
<1>1. Covers /\ RestTyped
  BY CoversUnchanged, RestUnchanged DEF vest, shareVars
<1>2. Balances
  BY DEF vest, Balances, IInv, TypeOK, shareVars
<1>3. QED
  BY <1>1, <1>2, KeptWhen

LEMMA TransferStep ==
  ASSUME IInv, NEW from \in Account, NEW to \in Account, NEW n \in TransferAmount,
         transfer(from, to, n)
  PROVE  IInv'
<1>1. /\ n <= hzn[from] /\ hzn' = Transferred(hzn, from, to, n)
      /\ UNCHANGED <<escrow, rewardTokens, rewards, shareVars, oracleVars, flagVars, migrated>>
      /\ hzn \in [Account -> Nat] /\ n \in Nat
  BY IssuanceAmountAssumption DEF transfer, IInv, TypeOK
<1>2. hzn' \in [Account -> Nat]
  BY <1>1, TransferredType
<1>3. Covers /\ RestTyped
  BY <1>1, CoversUnchanged, RestUnchanged DEF shareVars
<1>4. Balances
  BY <1>1, <1>2 DEF Balances, IInv, TypeOK, shareVars
<1>5. QED
  BY <1>3, <1>4, KeptWhen

(* After a migration nothing is promised.                                  *)
LEMMA MigrationStep ==
  ASSUME IInv, NEW a \in Account, NEW n \in Migration, finalizeDebtMigration(a, n)
  PROVE  IInv'
<1> DEFINE moved == multiplyDecimalRound(n, rawDebtRatio, PreciseUnit)
<1>1. /\ debt + moved <= MaxDebt /\ debt' = debt + moved
      /\ shares' = [shares EXCEPT ![a] = @ + n]
      /\ hzn' = [hzn EXCEPT ![a] = @ + n]
      /\ migrated' = migrated \cup {a}
      /\ UNCHANGED <<escrow, rewardTokens, rewards, lastIssue, oracleVars, flagVars>>
  BY DEF finalizeDebtMigration
<1>2. n \in Nat /\ MaxDebt \in Nat
  BY IssuanceAmountAssumption
<1>3. moved \in Nat
  BY <1>2, RatioType, RatioAssumption, MultiplyDecimalRoundType
<1> HIDE DEF moved
<1>4. debt' \in 0 .. MaxDebt
  BY <1>1, <1>2, <1>3 DEF IInv, TypeOK
<1>5. Balances
  BY <1>1, <1>2 DEF Balances, IInv, TypeOK
<1>6. Covers
  BY <1>1 DEF Covers, Backed, Counted, IInv
<1>7. RestTyped
  BY <1>1, <1>4 DEF RestTyped, IInv, TypeOK, oracleVars, flagVars
<1>8. QED
  BY <1>5, <1>6, <1>7, KeptWhen

LEMMA DebtStep ==
  ASSUME IInv, NEW n \in DebtChange, DebtMoves(n) PROVE IInv'
<1>1. /\ n \in Nat /\ MaxDebt \in Nat
      /\ UNCHANGED <<tokenVars, shares, lastIssue, oracleVars, flagVars, migrated>>
  BY IssuanceAmountAssumption DEF DebtMoves
<1>2. debt' \in 0 .. MaxDebt
  BY <1>1 DEF DebtMoves, IInv, TypeOK
<1>3. Covers /\ Balances
  BY <1>1, CoversUnchanged, BalancesUnchanged DEF tokenVars
<1>4. RestTyped
  BY <1>1, <1>2 DEF RestTyped, IInv, TypeOK, oracleVars, flagVars
<1>5. QED
  BY <1>3, <1>4, KeptWhen

LEMMA WorldStep ==
  ASSUME IInv, stoppedByBreaker \/ rateRecovers \/ PriceMoves \/ TimePasses PROVE IInv'
<1>1. UNCHANGED <<tokenVars, shareVars, flagVars, migrated>>
  BY DEF stoppedByBreaker, rateRecovers, PriceMoves, TimePasses
<1>2. Covers /\ Balances
  BY <1>1, CoversUnchanged, BalancesUnchanged DEF tokenVars, shareVars
<1>3. broken' \subseteq Oracle /\ price' \in Price /\ now' \in 1 .. MaxTime
  BY IssuanceAmountAssumption
     DEF stoppedByBreaker, rateRecovers, PriceMoves, TimePasses, IInv, TypeOK
<1>4. RestTyped
  BY <1>1, <1>3 DEF RestTyped, IInv, TypeOK, shareVars, flagVars
<1>5. QED
  BY <1>2, <1>4, KeptWhen

LEMMA CallKeeps == ASSUME IInv, Call PROVE IInv'
<1>1. ASSUME NEW a \in Account, NEW n \in Amount, issueSynths(a, n) \/ burnSynths(a, n)
      PROVE  IInv'
  BY <1>1, IssuedStep, BurnedStep, IssuanceAmountAssumption DEF issueSynths, burnSynths
<1>2. ASSUME NEW a \in Account, issueMaxSynths(a) PROVE IInv'
  BY <1>2, RemainingType, IssuedStep DEF issueMaxSynths
<1>3. ASSUME NEW a \in Account, burnSynthsToTarget(a) PROVE IInv'
  <2> DEFINE target == maxIssuableSynths(_collateral(a))
  <2>1. target <= debtBalanceOf(a) /\ Burned(a, debtBalanceOf(a) - target)
    BY <1>3 DEF burnSynthsToTarget
  <2>2. target \in Nat /\ debtBalanceOf(a) \in Nat
    BY MaxIssuableType, CollateralType, DebtBalanceType
  <2> HIDE DEF target
  <2>3. debtBalanceOf(a) - target \in Nat
    BY <2>1, <2>2
  <2>4. QED
    BY <2>1, <2>3, BurnedStep
<1>4. ASSUME NEW a \in Account, NEW b \in Account,
             \/ checkAndRemoveAccountInLiquidation(a)
             \/ flagAccountForLiquidation(a, b)
      PROVE  IInv'
  BY <1>4, FlagStep
<1>5. ASSUME NEW a \in Account, liquidateSelf(a) \/ payReward(a) \/ updateAnyEntry(a) \/ vest(a)
      PROVE  IInv'
  BY <1>5, SelfStep, PayStep, UpdateStep, VestStep
<1>6. ASSUME NEW a \in Account, NEW n \in Migration, finalizeDebtMigration(a, n) PROVE IInv'
  BY <1>6, MigrationStep
<1>7. ASSUME NEW a \in Account, NEW b \in Account, liquidateDelinquentAccount(a, b) PROVE IInv'
  BY <1>7, ForcedStep
<1>8. ASSUME NEW a \in Account, NEW b \in Account, NEW n \in TransferAmount, transfer(a, b, n)
      PROVE  IInv'
  BY <1>8, TransferStep
<1>9. ASSUME NEW n \in DebtChange, DebtMoves(n) PROVE IInv'
  BY <1>9, DebtStep
<1>10. ASSUME stoppedByBreaker \/ rateRecovers PROVE IInv'
  BY <1>10, WorldStep
<1>11. QED
  BY <1>1, <1>2, <1>3, <1>4, <1>5, <1>6, <1>7, <1>8, <1>9, <1>10 DEF Call

LEMMA InitIInv == Init => IInv
<1> SUFFICES ASSUME Init PROVE IInv
  OBVIOUS
<1> DEFINE zero == [a \in Account |-> 0]
<1>1. /\ NewRewards \in Rewards /\ rewards \in Rewards /\ rewards.accumulated = 0
      /\ \A a \in Account : rewards.entries[a] = [claimable |-> 0, accumulated |-> 0]
  BY DEF Init, NewRewards, Rewards, Entry
<1>2. RewardsOK(rewards)
  BY <1>1 DEF RewardsOK
<1>3. shares \in [Account -> Nat] /\ hzn \in [Account -> Nat] /\ escrow \in [Account -> Nat]
  BY IssuanceAmountAssumption DEF Init
<1>4. Backed
  <2>1. \A a \in Account : OwedTo(rewards, a, shares[a]) = 0
    <3>1. ASSUME NEW a \in Account PROVE OwedTo(rewards, a, shares[a]) = 0
      <4>1. OwedTo(rewards, a, shares[a]) = shares[a] * (0 - 0) + Unit * 0
        BY <1>1 DEF OwedTo
      <4>2. shares[a] * (0 - 0) = 0 /\ Unit * 0 = 0
        BY <1>3, RewardUnitAssumption
      <4>3. QED
        BY <4>1, <4>2
    <3>2. QED
      BY <3>1
  <2>2. Owed(rewards, shares) = zero
    BY <2>1 DEF Owed
  <2>3. zero \in [Account -> Nat] /\ \A a \in Account : zero[a] = 0
    OBVIOUS
  <2> HIDE DEF zero
  <2>4. SumOf(zero) = 0
    BY <2>3, SumOfZero
  <2>5. Unit * rewardTokens = 0
    BY RewardUnitAssumption DEF Init
  <2>6. QED
    BY <2>2, <2>4, <2>5 DEF Backed
<1>5. debt \in 0 .. MaxDebt
  <2>1. debt = SumOf([a \in Account |-> FirstDebt])
    BY DEF Init
  <2>2. SumOf(shares) \in Nat
    BY <1>3, SumOfType, IssuanceAccountAssumption
  <2>3. QED
    BY <2>1, <2>2, FirstAssumption, IssuanceAmountAssumption DEF Init
<1>6. TypeOK
  BY <1>1, <1>3, <1>5, FirstAssumption, IssuanceAmountAssumption DEF Init, TypeOK
<1>7. QED
  BY <1>2, <1>4, <1>6 DEF IInv

(* The inductive invariant holds in every reachable state.                 *)
THEOREM IssuanceInvariant == Spec => []IInv
<1>1. IInv /\ [Next]_vars => IInv'
  <2>1. ASSUME IInv, Next PROVE IInv'
    BY <2>1, CallKeeps, WorldStep DEF Next
  <2>2. ASSUME IInv, UNCHANGED vars PROVE IInv'
    <3>1. Covers /\ Balances /\ RestTyped
      BY <2>2, CoversUnchanged, BalancesUnchanged, RestUnchanged DEF vars, tokenVars, shareVars
    <3>2. QED
      BY <3>1, KeptWhen
  <2>3. QED
    BY <2>1, <2>2
<1>2. QED
  BY <1>1, InitIInv, PTL DEF Spec

(* All variables keep their types: no step takes more liquid HZN, escrow,  *)
(* rewards, shares or debt than there are, and who flagged an account that *)
(* may be liquidated is known.                                             *)
THEOREM IssuanceTypeCorrect == Spec => []TypeOK
BY IssuanceInvariant, PTL DEF IInv

(* As long as the accumulator fits its 128 bits, LiquidatorRewards holds   *)
(* what all accounts earned, in any order of issuing, burning, both        *)
(* liquidations, claims and updates, however the divisions round.          *)
THEOREM RewardsStayCovered ==
  Spec => [](rewards.accumulated < Uint128 => RewardsCovered)
<1>1. ASSUME IInv PROVE rewards.accumulated < Uint128 => RewardsCovered
  <2>1. SUFFICES ASSUME Counted
                 PROVE  SumOf([a \in Account |-> earned(rewards, a, shares[a])]) <= rewardTokens
    BY DEF Counted, RewardsCovered
  <2>2. /\ RewardsOK(rewards) /\ shares \in [Account -> Nat] /\ rewardTokens \in Nat
        /\ SumOf(Owed(rewards, shares)) <= Unit * rewardTokens
    BY <1>1, <2>1 DEF IInv, TypeOK, Backed
  <2>3. QED
    BY <2>2, OwedCoversEarned
<1>2. QED
  BY <1>1, IssuanceInvariant, PTL

-----------------------------------------------------------------------------
(* Liquidation of an account that is open for it *)

(* A ratio above the issuance ratio says that the debt is worth more than   *)
(* the collateral at that ratio, less what the two divisions round up.      *)
LEMMA OpenMeansIndebted ==
  ASSUME NEW owed \in Nat, NEW collateral \in Nat, NEW p \in Nat \ {0},
         NEW unit \in Nat \ {0}, NEW ratio \in Nat, collateral # 0,
         divideDecimalRound(divideDecimalRound(owed, p, unit), collateral, unit) > ratio
  PROVE  p * (collateral * (2 * ratio + 1)) <= unit * (2 * (owed * unit) + p)
<1>1. PICK w \in Nat : w = owed * unit
  BY ProductType
<1>2. PICK x \in Nat : x = divideDecimalRound(owed, p, unit)
  BY DivideDecimalRoundType
<1>3. x = (2 * w + p) \div (2 * p)
  BY <1>1, <1>2 DEF divideDecimalRound
<1>4. 2 * (p * x) <= 2 * w + p
  <2>1. 2 * w + p \in Nat /\ 2 * p \in Nat \ {0}
    OBVIOUS
  <2>2. (2 * p) * x <= 2 * w + p
    BY <1>3, <2>1, QuotientBound
  <2>3. QED
    BY <2>2
<1>5. PICK y \in Nat : y = x * unit
  BY ProductType
<1>6. PICK q \in Nat : q = divideDecimalRound(x, collateral, unit)
  BY DivideDecimalRoundType
<1>7. q = (2 * y + collateral) \div (2 * collateral)
  BY <1>5, <1>6 DEF divideDecimalRound
<1>8. collateral * (2 * q) <= 2 * y + collateral
  <2>1. 2 * y + collateral \in Nat /\ 2 * collateral \in Nat \ {0}
    OBVIOUS
  <2>2. (2 * collateral) * q <= 2 * y + collateral
    BY <1>7, <2>1, QuotientBound
  <2>3. QED
    BY <2>2
<1>9. q >= ratio + 1
  BY <1>2, <1>6
<1>10. collateral * (2 * (ratio + 1)) <= 2 * y + collateral
  <2>1. 2 * (ratio + 1) \in Nat /\ 2 * q \in Nat /\ 2 * (ratio + 1) <= 2 * q
    BY <1>9
  <2>2. collateral * (2 * (ratio + 1)) <= collateral * (2 * q)
    BY <2>1, TimesOrder
  <2>3. collateral * (2 * (ratio + 1)) \in Nat /\ collateral * (2 * q) \in Nat
    BY <2>1, ProductType
  <2>4. QED
    BY <1>8, <2>2, <2>3
<1>11. PICK c \in Nat : c = collateral * (2 * ratio + 1)
  BY ProductType
<1>12. c <= 2 * y
  <2>1. collateral * (2 * (ratio + 1)) = c + collateral
    BY <1>11
  <2>2. QED
    BY <1>10, <1>11, <2>1
<1>13. p * c <= unit * (2 * w + p)
  <2>1. PICK z \in Nat : z = p * x
    BY ProductType
  <2>2. p * c <= p * (2 * y)
    BY <1>12, TimesOrder
  <2>3. p * (2 * y) = unit * (2 * z)
    BY <1>5, <2>1
  <2>4. unit * (2 * z) <= unit * (2 * w + p)
    <3>1. 2 * z \in Nat /\ 2 * w + p \in Nat /\ 2 * z <= 2 * w + p
      BY <1>4, <2>1
    <3>2. QED
      BY <3>1, TimesOrder
  <2>5. p * c \in Nat /\ unit * (2 * z) \in Nat /\ unit * (2 * w + p) \in Nat
    BY ProductType
  <2>6. QED
    BY <2>2, <2>3, <2>4, <2>5
<1>14. QED
  BY <1>1, <1>11, <1>13

(* Where what fixes the ratio would be negative, the debt is worth less     *)
(* than the collateral without the rewards at that ratio, and one more.     *)
LEMMA NoFixMeansCovered ==
  ASSUME NEW owed \in Nat, NEW rest \in Nat, NEW p \in Nat,
         NEW unit \in Nat \ {0}, NEW ratio \in Nat,
         ~(multiplyDecimal(multiplyDecimalRound(rest, p, unit), ratio, unit) <= owed)
  PROVE  unit * (2 * (unit * (owed + 1))) <= ratio * (2 * (rest * p) + unit)
<1>1. PICK w \in Nat : w = rest * p
  BY ProductType
<1>2. PICK v \in Nat : v = multiplyDecimalRound(rest, p, unit)
  BY MultiplyDecimalRoundType
<1>3. v = (2 * w + unit) \div (2 * unit)
  BY <1>1, <1>2 DEF multiplyDecimalRound
<1>4. 2 * (unit * v) <= 2 * w + unit
  <2>1. 2 * w + unit \in Nat /\ 2 * unit \in Nat \ {0}
    OBVIOUS
  <2>2. (2 * unit) * v <= 2 * w + unit
    BY <1>3, <2>1, QuotientBound
  <2>3. QED
    BY <2>2
<1>5. PICK m \in Nat : m = v * ratio
  BY ProductType
<1>6. PICK q \in Nat : q = multiplyDecimal(v, ratio, unit)
  BY MultiplyDecimalType
<1>7. unit * q <= m
  <2>1. q = m \div unit
    BY <1>5, <1>6 DEF multiplyDecimal
  <2>2. QED
    BY <2>1, QuotientBound
<1>8. owed + 1 <= q
  BY <1>2, <1>6
<1>9. unit * (owed + 1) <= m
  <2>1. unit * (owed + 1) <= unit * q
    BY <1>8, TimesOrder
  <2>2. unit * (owed + 1) \in Nat /\ unit * q \in Nat
    BY ProductType
  <2>3. QED
    BY <1>7, <2>1, <2>2
<1>10. PICK n \in Nat : n = unit * (owed + 1)
  BY ProductType
<1>11. unit * (2 * n) <= unit * (2 * m)
  <2>1. 2 * n \in Nat /\ 2 * m \in Nat /\ 2 * n <= 2 * m
    BY <1>9, <1>10
  <2>2. QED
    BY <2>1, TimesOrder
<1>12. PICK u \in Nat : u = unit * v
  BY ProductType
<1>13. unit * (2 * m) = ratio * (2 * u)
  BY <1>5, <1>12
<1>14. ratio * (2 * u) <= ratio * (2 * w + unit)
  <2>1. 2 * u \in Nat /\ 2 * w + unit \in Nat /\ 2 * u <= 2 * w + unit
    BY <1>4, <1>12
  <2>2. QED
    BY <2>1, TimesOrder
<1>15. unit * (2 * n) <= ratio * (2 * w + unit)
  <2>1. unit * (2 * n) \in Nat /\ ratio * (2 * u) \in Nat /\ ratio * (2 * w + unit) \in Nat
    BY ProductType
  <2>2. QED
    BY <1>11, <1>13, <1>14, <2>1
<1>16. QED
  BY <1>1, <1>10, <1>15

(* Both cannot be, when the rewards are worth the rounding.                 *)
LEMMA OpenCanBeFixed ==
  ASSUME NEW owed \in Nat, NEW collateral \in Nat, NEW reward \in Nat, NEW p \in Nat \ {0},
         NEW unit \in Nat \ {0}, NEW ratio \in Nat,
         ratio < unit, reward <= collateral, collateral # 0,
         reward * (2 * ratio + 1) >= unit,
         divideDecimalRound(divideDecimalRound(owed, p, unit), collateral, unit) > ratio
  PROVE  multiplyDecimal(multiplyDecimalRound(collateral - reward, p, unit), ratio, unit) <= owed
<1>1. PICK rest \in Nat : rest = collateral - reward
  <2>1. collateral - reward \in Nat
    OBVIOUS
  <2>2. QED
    BY <2>1
<1>2. SUFFICES ASSUME ~(multiplyDecimal(multiplyDecimalRound(rest, p, unit), ratio, unit) <= owed)
               PROVE  FALSE
  BY <1>1
<1>3. p * (collateral * (2 * ratio + 1)) <= unit * (2 * (owed * unit) + p)
  BY OpenMeansIndebted
<1>4. unit * (2 * (unit * (owed + 1))) <= ratio * (2 * (rest * p) + unit)
  BY <1>2, NoFixMeansCovered
<1>5. PICK a \in Nat, b \in Nat, c \in Nat, d \in Nat, e \in Nat, f \in Nat, g \in Nat :
        /\ a = unit * (owed * unit) /\ b = unit * unit /\ c = unit * p /\ d = ratio * (rest * p)
        /\ e = ratio * unit /\ f = p * (reward * (2 * ratio + 1)) /\ g = rest * p
  BY ProductType
<1>6. p * (collateral * (2 * ratio + 1)) = f + 2 * d + g
  <2>1. collateral = rest + reward
    BY <1>1
  <2>2. p * ((rest + reward) * (2 * ratio + 1))
          = p * (rest * (2 * ratio + 1)) + p * (reward * (2 * ratio + 1))
    OBVIOUS
  <2>3. p * (rest * (2 * ratio + 1)) = 2 * (ratio * (rest * p)) + rest * p
    OBVIOUS
  <2>4. QED
    BY <1>5, <2>1, <2>2, <2>3
<1>7. unit * (2 * (owed * unit) + p) = 2 * a + c
  BY <1>5
<1>8. unit * (2 * (unit * (owed + 1))) = 2 * a + 2 * b
  BY <1>5
<1>9. ratio * (2 * (rest * p) + unit) = 2 * d + e
  BY <1>5
<1>10. f + g + 2 * b <= c + e
  BY <1>3, <1>4, <1>6, <1>7, <1>8, <1>9
<1>11. e <= b
  <2>1. unit * ratio <= unit * unit
    BY TimesOrder
  <2>2. QED
    BY <1>5, <2>1
<1>12. c <= f
  <2>1. PICK r \in Nat : r = reward * (2 * ratio + 1)
    BY ProductType
  <2>2. p * unit <= p * r
    BY <2>1, TimesOrder
  <2>3. QED
    BY <1>5, <2>1, <2>2
<1>13. b > 0
  BY <1>5
<1>14. QED
  BY <1>10, <1>11, <1>12, <1>13

(* What is left of a unit of collateral at the issuance ratio.              *)
LEMMA IssuanceRatioBelowOne == Unit \in Nat \ {0} /\ IssuanceRatio \in Nat /\ IssuanceRatio < Unit
<1>1. /\ Unit \in Nat \ {0} /\ IssuanceRatio \in Nat /\ SnxLiquidationPenalty \in Nat
      /\ (Unit + SnxLiquidationPenalty) * IssuanceRatio < Unit * Unit
  BY RewardUnitAssumption, RatioAssumption
<1>2. SUFFICES ASSUME Unit <= IssuanceRatio PROVE FALSE
  BY <1>1
<1>3. PICK n \in Nat : n = Unit + SnxLiquidationPenalty
  BY <1>1
<1>4. Unit * Unit <= Unit * IssuanceRatio
  BY <1>1, <1>2, TimesOrder
<1>5. IssuanceRatio * Unit <= IssuanceRatio * n
  BY <1>1, <1>3, TimesOrder
<1>6. Unit * IssuanceRatio = IssuanceRatio * Unit /\ n * IssuanceRatio = IssuanceRatio * n
  BY <1>1, <1>3
<1>7. Unit * Unit \in Nat /\ Unit * IssuanceRatio \in Nat /\ n * IssuanceRatio \in Nat
  BY <1>1, <1>3, ProductType
<1>8. QED
  BY <1>1, <1>3, <1>4, <1>5, <1>6, <1>7

(* What a forced liquidation takes is there, and pays the rewards.          *)
LEMMA ForcedAmountsThere ==
  ASSUME IInv, NEW owed \in Nat, NEW liquid \in Nat, NEW escrowed \in Nat,
         liquid + escrowed >= rewardsSum,
         CanFix(owed, _snxToUSD(liquid + escrowed - rewardsSum)),
         NEW amounts, amounts = ForcedAmounts(owed, liquid, escrowed)
  PROVE  /\ amounts.escrowed <= escrowed
         /\ amounts.redeemed + rewardsSum <= liquid + amounts.escrowed
<1>1. /\ rewardsSum \in Nat /\ SnxLiquidationPenalty \in Nat
      /\ (Unit + SnxLiquidationPenalty) * IssuanceRatio < Unit * Unit
  BY IssuanceAmountAssumption, RatioAssumption DEF rewardsSum
<1>2. liquid + escrowed - rewardsSum \in Nat
  BY <1>1
<1>3. PICK value \in Nat : value = _snxToUSD(liquid + escrowed - rewardsSum)
  BY <1>2, ValueType
<1>4. CanFix(owed, value)
  BY <1>3
<1>5. PICK removed \in Nat : removed = AmountToFix(owed, value, SnxLiquidationPenalty)
  BY <1>1, <1>4, AmountToFixType
<1>6. PICK target \in Nat : target = WithPenalty(removed, SnxLiquidationPenalty)
  BY <1>1, WithPenaltyType
<1>7. PICK revoked : revoked = _redeemableCollateralForTarget(target, liquid)
  OBVIOUS
<1>8. revoked \in Nat /\ target + rewardsSum <= liquid + revoked
      /\ (liquid >= target + rewardsSum => revoked = 0)
      /\ (liquid < target + rewardsSum => liquid + revoked = target + rewardsSum)
  <2>1. PICK needed \in Nat : needed = target + rewardsSum
    BY <1>1
  <2>2. revoked = floorsub(needed, liquid)
    BY <1>7, <2>1 DEF _redeemableCollateralForTarget
  <2>3. revoked = IF liquid >= needed THEN 0 ELSE needed - liquid
    BY <2>2 DEF floorsub
  <2>4. QED
    BY <2>1, <2>3
<1>9. \/ /\ target + rewardsSum >= liquid + escrowed
         /\ amounts = [redeemed |-> (liquid + escrowed) - rewardsSum, escrowed |-> escrowed,
                       removed |-> owed]
      \/ /\ ~(target + rewardsSum >= liquid + escrowed)
         /\ amounts = [redeemed |-> target, escrowed |-> revoked, removed |-> removed]
  <2>1. removed = AmountToFix(owed, _snxToUSD((liquid + escrowed) - rewardsSum),
                              SnxLiquidationPenalty)
    <3>1. liquid + escrowed - rewardsSum = (liquid + escrowed) - rewardsSum
      BY <1>1
    <3>2. QED
      BY <1>3, <1>5, <3>1, Zenon
  <2>2. amounts = IF target + rewardsSum >= liquid + escrowed
                    THEN [redeemed |-> (liquid + escrowed) - rewardsSum, escrowed |-> escrowed,
                          removed |-> owed]
                    ELSE [redeemed |-> target, escrowed |-> revoked, removed |-> removed]
    BY <1>6, <1>7, <2>1, Zenon DEF ForcedAmounts
  <2>3. QED
    BY <2>2
<1>10. CASE target + rewardsSum >= liquid + escrowed
  <2>1. amounts.redeemed = (liquid + escrowed) - rewardsSum /\ amounts.escrowed = escrowed
    BY <1>9, <1>10
  <2>2. QED
    BY <1>1, <2>1
<1>11. CASE target + rewardsSum < liquid + escrowed
  <2>1. ~(target + rewardsSum >= liquid + escrowed)
    BY <1>1, <1>11
  <2>2. amounts.redeemed = target /\ amounts.escrowed = revoked
    BY <1>9, <2>1
  <2>3. QED
    BY <1>1, <1>8, <1>11, <2>2
<1>12. QED
  BY <1>1, <1>10, <1>11

(* An account that is open for liquidation can be liquidated, whatever the  *)
(* divisions round: the ratio that opens it counts the rewards as           *)
(* collateral, what fixes it does not, and the rewards are worth more than  *)
(* the rounding (a whole HZN of rewards always is).                         *)
LEMMA OpenCanPay ==
  ASSUME IInv, rewardsSum * (2 * IssuanceRatio + 1) >= Unit PROVE LiquidationCanPay
<1>1. SUFFICES ASSUME NEW a \in Account, NEW owed, NEW liquid, NEW escrowed, NEW amounts,
                      owed = debtBalanceOf(a), liquid = hzn[a],
                      escrowed = EscrowAfterReward(a),
                      amounts = ForcedAmounts(owed, liquid, escrowed),
                      isLiquidationOpen(a, liquid + escrowed)
               PROVE  /\ CanFix(owed, _snxToUSD(liquid + escrowed - rewardsSum))
                      /\ amounts.escrowed <= escrowed
                      /\ amounts.redeemed + rewardsSum <= liquid + amounts.escrowed
  BY DEF LiquidationCanPay
<1>2. owed \in Nat /\ liquid \in Nat /\ escrowed \in Nat
  BY <1>1, DebtBalanceType, EscrowAfterRewardType
<1>3. PICK collateral \in Nat : collateral = liquid + escrowed
  BY <1>2
<1>4. rewardsSum \in Nat /\ price \in Nat \ {0}
  BY PriceType, IssuanceAmountAssumption DEF rewardsSum
<1>5. /\ collateral >= rewardsSum
      /\ collateralisationRatio(owed, collateral) > IssuanceRatio
  BY <1>1, <1>3 DEF isLiquidationOpen
<1>6. collateral # 0
  <2>1. ASSUME collateral = 0 PROVE FALSE
    <3>1. collateralisationRatio(owed, collateral) = 0
      BY <2>1 DEF collateralisationRatio
    <3>2. QED
      BY <1>5, <3>1, IssuanceRatioBelowOne
  <2>2. QED
    BY <2>1
<1>7. divideDecimalRound(divideDecimalRound(owed, price, Unit), collateral, Unit) > IssuanceRatio
  BY <1>5, <1>6 DEF collateralisationRatio, _usdToSnx
<1>8. multiplyDecimal(multiplyDecimalRound(collateral - rewardsSum, price, Unit), IssuanceRatio, Unit)
        <= owed
  <2>1. PICK reward \in Nat : reward = rewardsSum
    BY <1>4
  <2>2. reward <= collateral /\ reward * (2 * IssuanceRatio + 1) >= Unit
    BY <1>4, <1>5, <2>1
  <2>3. PICK p \in Nat \ {0} : p = price
    BY <1>4
  <2>4. divideDecimalRound(divideDecimalRound(owed, p, Unit), collateral, Unit) > IssuanceRatio
    BY <1>7, <2>3
  <2>5. multiplyDecimal(multiplyDecimalRound(collateral - reward, p, Unit), IssuanceRatio, Unit)
          <= owed
    BY <1>2, <1>6, <2>2, <2>4, IssuanceRatioBelowOne, OpenCanBeFixed
  <2>6. QED
    BY <2>1, <2>3, <2>5
<1>9. CanFix(owed, _snxToUSD(liquid + escrowed - rewardsSum))
  <2>1. CanFix(owed, _snxToUSD(collateral - rewardsSum))
    BY <1>8 DEF CanFix, _snxToUSD
  <2>2. collateral - rewardsSum = liquid + escrowed - rewardsSum
    BY <1>2, <1>3, <1>4
  <2>3. QED
    BY <2>1, <2>2, Zenon
<1>10. liquid + escrowed >= rewardsSum
  BY <1>3, <1>5
<1>11. QED
  BY <1>1, <1>2, <1>9, <1>10, ForcedAmountsThere

(* Nothing is promised that the contracts cannot pay: LiquidatorRewards     *)
(* holds what was earned while its accumulator fits 128 bits, and whoever   *)
(* is open for liquidation can be liquidated and has the HZN for it, at any *)
(* prices and settings whose rewards are worth more than the rounding (a    *)
(* whole HZN is; deployments set 300, index.js:127).                        *)
THEOREM PromisesStayCovered ==
  ASSUME rewardsSum * (2 * IssuanceRatio + 1) >= Unit
  PROVE  Spec => [](rewards.accumulated < Uint128 => PromisesCovered)
<1>1. ASSUME IInv PROVE LiquidationCanPay /\ TypeOK
  BY <1>1, OpenCanPay DEF IInv
<1>2. QED
  BY <1>1, IssuanceInvariant, RewardsStayCovered, PTL DEF PromisesCovered

-----------------------------------------------------------------------------
(* What shares and debt do to the ratio *)

\* The ratio r of w, the debt in the smallest parts of the ratio, to s shares.
IsRatio(r, w, s) == 2 * (s * r) <= 2 * w + s /\ 2 * w <= 2 * (s * r) + s

\* What t shares owe at ratio r.
IsDebt(d, t, r) == 2 * (PreciseUnit * d) <= 2 * (t * r) + PreciseUnit
                   /\ 2 * (t * r) <= 2 * (PreciseUnit * d) + PreciseUnit

(* When shares come and go with the debt they stand for, give or take e, no *)
(* number of shares that stays owes more, or less, than the divisions lose. *)
LEMMA RatioUp ==
  ASSUME NEW s \in Nat, NEW s2 \in Nat, NEW r \in Nat, NEW r2 \in Nat, NEW w \in Nat,
         NEW w2 \in Nat, NEW e \in Nat, NEW t \in Nat, t <= s2,
         IsRatio(r, w, s), IsRatio(r2, w2, s2),
         2 * w2 + 2 * (s * r) <= 2 * w + 2 * (s2 * r) + e
  PROVE  2 * (t * r2) <= 2 * (t * r) + s + e + t
<1>1. PICK a \in Nat, b \in Nat, c \in Nat, x \in Nat, y \in Nat :
        /\ a = s * r /\ b = s2 * r /\ c = s2 * r2 /\ x = t * r /\ y = t * r2
  BY ProductType
<1>2. 2 * c <= 2 * b + s + e + s2
  <2>1. 2 * c <= 2 * w2 + s2 /\ 2 * w <= 2 * a + s /\ 2 * w2 + 2 * a <= 2 * w + 2 * b + e
    BY <1>1 DEF IsRatio
  <2>2. QED
    BY <1>1, <2>1
<1>3. CASE r2 <= r
  <2>1. t * r2 <= t * r
    BY <1>3, TimesOrder
  <2>2. QED
    BY <1>1, <2>1
<1>4. CASE r < r2
  <2>1. PICK d \in Nat : d = r2 - r
    <3>1. r2 - r \in Nat
      BY <1>4
    <3>2. QED
      BY <3>1
  <2>2. PICK n \in Nat, m \in Nat : n = s2 * d /\ m = t * d
    BY ProductType
  <2>3. r2 = r + d
    BY <2>1
  <2>4. s2 * (r + d) = s2 * r + s2 * d /\ t * (r + d) = t * r + t * d
    OBVIOUS
  <2>5. c = b + n /\ y = x + m
    BY <1>1, <2>2, <2>3, <2>4
  <2>6. 2 * n <= (s + e) + s2
    BY <1>1, <1>2, <2>2, <2>5
  <2>7. 2 * (t * d) <= (s + e) + t
    <3>1. s + e \in Nat /\ 2 * (s2 * d) <= (s + e) + s2
      BY <2>2, <2>6
    <3>2. QED
      BY <3>1, SmallerFactor
  <2>8. QED
    BY <1>1, <2>2, <2>5, <2>7
<1>5. QED
  BY <1>3, <1>4

LEMMA RatioDown ==
  ASSUME NEW s \in Nat, NEW s2 \in Nat, NEW r \in Nat, NEW r2 \in Nat, NEW w \in Nat,
         NEW w2 \in Nat, NEW e \in Nat, NEW t \in Nat, t <= s2,
         IsRatio(r, w, s), IsRatio(r2, w2, s2),
         2 * w + 2 * (s2 * r) <= 2 * w2 + 2 * (s * r) + e
  PROVE  2 * (t * r) <= 2 * (t * r2) + s + e + t
<1>1. PICK a \in Nat, b \in Nat, c \in Nat, x \in Nat, y \in Nat :
        /\ a = s * r /\ b = s2 * r /\ c = s2 * r2 /\ x = t * r /\ y = t * r2
  BY ProductType
<1>2. 2 * b <= 2 * c + s + e + s2
  <2>1. 2 * w2 <= 2 * c + s2 /\ 2 * a <= 2 * w + s /\ 2 * w + 2 * b <= 2 * w2 + 2 * a + e
    BY <1>1 DEF IsRatio
  <2>2. QED
    BY <1>1, <2>1
<1>3. CASE r <= r2
  <2>1. t * r <= t * r2
    BY <1>3, TimesOrder
  <2>2. QED
    BY <1>1, <2>1
<1>4. CASE r2 < r
  <2>1. PICK d \in Nat : d = r - r2
    <3>1. r - r2 \in Nat
      BY <1>4
    <3>2. QED
      BY <3>1
  <2>2. PICK n \in Nat, m \in Nat : n = s2 * d /\ m = t * d
    BY ProductType
  <2>3. r = r2 + d
    BY <2>1
  <2>4. s2 * (r2 + d) = s2 * r2 + s2 * d /\ t * (r2 + d) = t * r2 + t * d
    OBVIOUS
  <2>5. b = c + n /\ x = y + m
    BY <1>1, <2>2, <2>3, <2>4
  <2>6. 2 * n <= (s + e) + s2
    BY <1>1, <1>2, <2>2, <2>5
  <2>7. 2 * (t * d) <= (s + e) + t
    <3>1. s + e \in Nat /\ 2 * (s2 * d) <= (s + e) + s2
      BY <2>2, <2>6
    <3>2. QED
      BY <3>1, SmallerFactor
  <2>8. QED
    BY <1>1, <2>2, <2>5, <2>7
<1>5. QED
  BY <1>3, <1>4

(* What the slack allows for.                                              *)
LEMMA WithinSlack ==
  ASSUME NEW x \in Nat, NEW y \in Nat, NEW z \in Nat,
         2 * (PreciseUnit * x) <= 2 * (PreciseUnit * y) + 4 * PreciseUnit + 2 * z
  PROVE  x <= y + (z \div PreciseUnit + 2)
<1>1. PreciseUnit \in Nat \ {0}
  BY RatioAssumption
<1>2. PICK q \in Nat : q = z \div PreciseUnit
  BY <1>1, QuotientType
<1>3. z < PreciseUnit * q + PreciseUnit
  BY <1>1, <1>2, QuotientBound
<1>4. SUFFICES ASSUME ~(x <= y + (q + 2)) PROVE FALSE
  BY <1>2
<1>5. y + q + 3 <= x /\ y + q + 3 \in Nat
  BY <1>4
<1>6. PreciseUnit * (y + q + 3) <= PreciseUnit * x
  BY <1>1, <1>5, TimesOrder
<1>7. PICK a \in Nat, b \in Nat, c \in Nat :
        /\ a = PreciseUnit * x /\ b = PreciseUnit * y /\ c = PreciseUnit * q
  BY <1>1, ProductType
<1>8. PreciseUnit * (y + q + 3) = b + c + 3 * PreciseUnit
  BY <1>1, <1>7
<1>9. 2 * a <= 2 * b + 4 * PreciseUnit + 2 * z /\ z < c + PreciseUnit
      /\ b + c + 3 * PreciseUnit <= a
  BY <1>3, <1>6, <1>7, <1>8
<1>10. QED
  BY <1>1, <1>7, <1>9

(* The others owe the same, but for the slack.                             *)
LEMMA SharesOweTheSame ==
  ASSUME NEW s \in Nat, NEW s2 \in Nat, NEW r \in Nat, NEW r2 \in Nat, NEW w \in Nat,
         NEW w2 \in Nat, NEW t \in Nat, t <= s, t <= s2,
         IsRatio(r, w, s), IsRatio(r2, w2, s2),
         2 * w2 + 2 * (s * r) <= 2 * w + 2 * (s2 * r) + (2 * r + PreciseUnit),
         2 * w + 2 * (s2 * r) <= 2 * w2 + 2 * (s * r) + (2 * r + PreciseUnit),
         NEW d \in Nat, NEW d2 \in Nat, IsDebt(d, t, r), IsDebt(d2, t, r2)
  PROVE  d2 <= d + ((r + s) \div PreciseUnit + 2) /\ d <= d2 + ((r + s) \div PreciseUnit + 2)
<1>1. PreciseUnit \in Nat
  BY RatioAssumption
<1>2. 2 * r + PreciseUnit \in Nat
  BY <1>1
<1>3. PICK x \in Nat, y \in Nat, a \in Nat, b \in Nat :
        /\ x = t * r /\ y = t * r2 /\ a = PreciseUnit * d /\ b = PreciseUnit * d2
  BY <1>1, ProductType
<1>4. 2 * y <= 2 * x + s + (2 * r + PreciseUnit) + t
  BY <1>2, <1>3, RatioUp
<1>5. 2 * x <= 2 * y + s + (2 * r + PreciseUnit) + t
  BY <1>2, <1>3, RatioDown
<1>6. /\ 2 * a <= 2 * x + PreciseUnit /\ 2 * x <= 2 * a + PreciseUnit
      /\ 2 * b <= 2 * y + PreciseUnit /\ 2 * y <= 2 * b + PreciseUnit
  BY <1>3 DEF IsDebt
<1>7. 2 * b <= 2 * a + 4 * PreciseUnit + 2 * (r + s)
  BY <1>1, <1>3, <1>4, <1>6
<1>8. 2 * a <= 2 * b + 4 * PreciseUnit + 2 * (r + s)
  BY <1>1, <1>3, <1>5, <1>6
<1>9. r + s \in Nat
  OBVIOUS
<1>10. d2 <= d + ((r + s) \div PreciseUnit + 2)
  <2>1. 2 * (PreciseUnit * d2) <= 2 * (PreciseUnit * d) + 4 * PreciseUnit + 2 * (r + s)
    BY <1>3, <1>7
  <2>2. QED
    BY <1>9, <2>1, WithinSlack
<1>11. d <= d2 + ((r + s) \div PreciseUnit + 2)
  <2>1. 2 * (PreciseUnit * d) <= 2 * (PreciseUnit * d2) + 4 * PreciseUnit + 2 * (r + s)
    BY <1>3, <1>8
  <2>2. QED
    BY <1>9, <2>1, WithinSlack
<1>12. QED
  BY <1>10, <1>11

-----------------------------------------------------------------------------
(* Which steps change shares *)

IssueStep(a, n) == n <= remainingIssuableSynths(a) /\ Issued(a, n)

BurnStep(a, n) ==
  /\ Burned(a, n)
  /\ \/ canBurnSynths(a)
     \/ n + maxIssuableSynths(_collateral(a)) = debtBalanceOf(a)

LEMMA StepKinds ==
  ASSUME IInv, [Next]_vars
  PROVE  \/ shares' = shares
         \/ \E a \in Account, n \in Nat : IssueStep(a, n)
         \/ \E a \in Account, n \in Nat : BurnStep(a, n)
         \/ \E a \in Account, n \in Migration : finalizeDebtMigration(a, n)
         \/ \E a, b \in Account : liquidateDelinquentAccount(a, b)
         \/ \E a \in Account : liquidateSelf(a)
<1> DEFINE G == \/ shares' = shares
                \/ \E a \in Account, n \in Nat : IssueStep(a, n)
                \/ \E a \in Account, n \in Nat : BurnStep(a, n)
                \/ \E a \in Account, n \in Migration : finalizeDebtMigration(a, n)
                \/ \E a, b \in Account : liquidateDelinquentAccount(a, b)
                \/ \E a \in Account : liquidateSelf(a)
<1>1. ASSUME NEW a \in Account, NEW n \in Amount, issueSynths(a, n) PROVE G
  BY <1>1, IssuanceAmountAssumption DEF issueSynths, IssueStep
<1>2. ASSUME NEW a \in Account, NEW n \in Amount, burnSynths(a, n) PROVE G
  BY <1>2, IssuanceAmountAssumption DEF burnSynths, BurnStep
<1>3. ASSUME NEW a \in Account, issueMaxSynths(a) PROVE G
  <2>1. PICK n \in Nat : n = remainingIssuableSynths(a)
    BY RemainingType
  <2>2. IssueStep(a, n)
    BY <1>3, <2>1 DEF issueMaxSynths, IssueStep
  <2>3. QED
    BY <2>2
<1>4. ASSUME NEW a \in Account, burnSynthsToTarget(a) PROVE G
  <2>1. PICK target \in Nat : target = maxIssuableSynths(_collateral(a))
    BY MaxIssuableType, CollateralType
  <2>2. PICK owed \in Nat : owed = debtBalanceOf(a)
    BY DebtBalanceType
  <2>3. target <= owed /\ Burned(a, owed - target)
    BY <1>4, <2>1, <2>2 DEF burnSynthsToTarget
  <2>4. PICK n \in Nat : n = owed - target
    <3>1. owed - target \in Nat
      BY <2>3
    <3>2. QED
      BY <3>1
  <2>5. n + target = owed
    BY <2>4
  <2>6. BurnStep(a, n)
    BY <2>1, <2>2, <2>3, <2>4, <2>5 DEF BurnStep
  <2>7. QED
    BY <2>6
<1>5. ASSUME NEW a \in Account, NEW b \in Account,
             \/ checkAndRemoveAccountInLiquidation(a)
             \/ flagAccountForLiquidation(a, b)
      PROVE  G
  BY <1>5 DEF checkAndRemoveAccountInLiquidation, flagAccountForLiquidation, shareVars
<1>6. ASSUME NEW a \in Account, payReward(a) \/ updateAnyEntry(a) \/ vest(a) PROVE G
  BY <1>6 DEF payReward, updateAnyEntry, vest, shareVars
<1>7. ASSUME NEW a \in Account, NEW b \in Account, NEW n \in TransferAmount, transfer(a, b, n)
      PROVE  G
  BY <1>7 DEF transfer, shareVars
<1>8. ASSUME NEW n \in DebtChange, DebtMoves(n) PROVE G
  BY <1>8 DEF DebtMoves
<1>9. ASSUME stoppedByBreaker \/ rateRecovers \/ PriceMoves \/ TimePasses PROVE G
  BY <1>9 DEF stoppedByBreaker, rateRecovers, PriceMoves, TimePasses, shareVars
<1>10. ASSUME NEW a \in Account, liquidateSelf(a) PROVE G
  BY <1>10
<1>11. ASSUME NEW a \in Account, NEW n \in Migration, finalizeDebtMigration(a, n) PROVE G
  BY <1>11
<1>12. ASSUME NEW a \in Account, NEW b \in Account, liquidateDelinquentAccount(a, b) PROVE G
  BY <1>12
<1>13. ASSUME UNCHANGED vars PROVE G
  BY <1>13 DEF vars, shareVars
<1> HIDE DEF G
<1>14. Call => G
  BY <1>1, <1>2, <1>3, <1>4, <1>5, <1>6, <1>7, <1>8, <1>9, <1>10, <1>11, <1>12 DEF Call
<1>15. G
  BY <1>9, <1>13, <1>14 DEF Next
<1>16. QED
  BY <1>15 DEF G

(* Ratio and debts are what they are but for rounding.                     *)
Rounded ==
  /\ debt \in Nat /\ totalShares \in Nat /\ rawDebtRatio \in Nat
  /\ totalShares # 0 => IsRatio(rawDebtRatio, debt * PreciseUnit, totalShares)
  /\ \A a \in Account : /\ shares[a] \in Nat /\ shares[a] <= totalShares
                        /\ debtBalanceOf(a) \in Nat
                        /\ IsDebt(debtBalanceOf(a), shares[a], rawDebtRatio)

LEMMA RoundedAlways == IInv => Rounded
<1> SUFFICES ASSUME IInv PROVE Rounded
  OBVIOUS
<1>1. /\ debt \in Nat /\ totalShares \in Nat /\ rawDebtRatio \in Nat /\ PreciseUnit \in Nat \ {0}
      /\ shares \in [Account -> Nat]
  BY RatioType, RatioAssumption, IssuanceAmountAssumption DEF IInv, TypeOK
<1>2. ASSUME totalShares # 0
      PROVE  IsRatio(rawDebtRatio, debt * PreciseUnit, totalShares)
  <2>1. PICK s \in Nat \ {0}, r \in Nat : s = totalShares /\ r = rawDebtRatio
    BY <1>1, <1>2
  <2>2. r = divideDecimalRound(debt, s, PreciseUnit)
    BY <1>2, <2>1 DEF rawDebtRatio
  <2>3. PICK w \in Nat : w = debt * PreciseUnit
    BY <1>1, ProductType
  <2>4. 2 * (s * r) <= 2 * w + s /\ 2 * w < 2 * (s * r) + s
    BY <1>1, <2>2, <2>3, DivideRoundBounds
  <2>5. s * r \in Nat
    BY <2>1, ProductType
  <2>6. IsRatio(r, w, s)
    BY <2>4, <2>5 DEF IsRatio
  <2>7. QED
    BY <2>1, <2>3, <2>6
<1>3. ASSUME NEW a \in Account
      PROVE  /\ shares[a] \in Nat /\ shares[a] <= totalShares
             /\ debtBalanceOf(a) \in Nat
             /\ IsDebt(debtBalanceOf(a), shares[a], rawDebtRatio)
  <2>1. shares[a] \in Nat /\ shares[a] <= totalShares
    BY <1>1, SumOfBound, IssuanceAccountAssumption DEF totalShares
  <2>2. PICK t \in Nat, r \in Nat : t = shares[a] /\ r = rawDebtRatio
    BY <1>1
  <2>3. PICK d : d = debtBalanceOf(a)
    OBVIOUS
  <2>4. d = multiplyDecimalRound(t, r, PreciseUnit)
    BY <2>2, <2>3 DEF debtBalanceOf
  <2>5. /\ d \in Nat /\ 2 * (PreciseUnit * d) <= 2 * (t * r) + PreciseUnit
        /\ 2 * (t * r) < 2 * (PreciseUnit * d) + PreciseUnit
    BY <1>1, <2>4, MultiplyRoundBounds
  <2>6. PreciseUnit * d \in Nat /\ t * r \in Nat
    BY <1>1, <2>5, ProductType
  <2>7. IsDebt(d, t, r)
    BY <1>1, <2>5, <2>6 DEF IsDebt
  <2>8. QED
    BY <2>1, <2>2, <2>3, <2>5, <2>7
<1>4. QED
  BY <1>1, <1>2, <1>3 DEF Rounded

LEMMA RoundedNext == IInv' => Rounded'
BY RoundedAlways, PTL

\* k shares stand for the debt n, give or take e.
Stands(n, k, e) ==
  /\ 2 * (n * PreciseUnit) <= 2 * (k * rawDebtRatio) + e
  /\ 2 * (k * rawDebtRatio) <= 2 * (n * PreciseUnit) + e

(* Shares that come or go with the debt they stand for leave what the      *)
(* others owe.                                                             *)
LEMMA OthersStay ==
  ASSUME IInv, IInv', NEW n \in Int, NEW k \in Int, debt' = debt + n,
         totalShares' = totalShares + k, Stands(n, k, 2 * rawDebtRatio + PreciseUnit),
         NEW b \in Account, shares'[b] = shares[b]
  PROVE  debtBalanceOf(b)' <= debtBalanceOf(b) + Slack /\ debtBalanceOf(b) <= debtBalanceOf(b)' + Slack
<1>1. PreciseUnit \in Nat \ {0}
  BY RatioAssumption
<1>2. Rounded /\ Rounded'
  BY RoundedAlways, RoundedNext
<1>3. PICK s \in Nat, s2 \in Nat, r \in Nat, r2 \in Nat, t \in Nat, d \in Nat, d2 \in Nat :
        /\ s = totalShares /\ s2 = totalShares' /\ r = rawDebtRatio /\ r2 = rawDebtRatio'
        /\ t = shares[b] /\ d = debtBalanceOf(b) /\ d2 = debtBalanceOf(b)'
  BY <1>2 DEF Rounded
<1>4. t <= s /\ t <= s2 /\ IsDebt(d, t, r) /\ IsDebt(d2, t, r2)
  BY <1>2, <1>3 DEF Rounded
<1>5. Slack = (r + s) \div PreciseUnit + 2
  BY <1>3 DEF Slack
<1>6. CASE s = 0 \/ s2 = 0
  <2>1. t = 0
    BY <1>4, <1>6
  <2>2. d = multiplyDecimalRound(0, r, PreciseUnit) /\ d2 = multiplyDecimalRound(0, r2, PreciseUnit)
    BY <1>3, <2>1 DEF debtBalanceOf
  <2>3. d = d2
    <3>1. 0 * r = 0 /\ 0 * r2 = 0
      OBVIOUS
    <3>2. QED
      BY <2>2, <3>1 DEF multiplyDecimalRound
  <2>4. (r + s) \div PreciseUnit \in Nat
    <3>1. r + s \in Nat
      OBVIOUS
    <3>2. QED
      BY <1>1, <3>1, QuotientType
  <2>5. d2 <= d + Slack /\ d <= d2 + Slack
    BY <1>5, <2>3, <2>4
  <2>6. QED
    BY <1>3, <2>5
<1>7. CASE s # 0 /\ s2 # 0
  <2>1. PICK w \in Nat, w2 \in Nat : w = debt * PreciseUnit /\ w2 = debt' * PreciseUnit
    BY <1>1, <1>2, ProductType DEF Rounded
  <2>2. IsRatio(r, w, s) /\ IsRatio(r2, w2, s2)
    BY <1>2, <1>3, <1>7, <2>1 DEF Rounded
  <2>3. PICK x \in Int, y \in Int : x = n * PreciseUnit /\ y = k * r
    BY <1>1
  <2>4. w2 = w + x
    <3>1. (debt + n) * PreciseUnit = debt * PreciseUnit + n * PreciseUnit
      BY <1>1, <1>2 DEF Rounded
    <3>2. QED
      BY <2>1, <2>3, <3>1
  <2>5. s2 * r = s * r + y
    <3>1. s2 = s + k
      BY <1>3
    <3>2. QED
      BY <2>3, <3>1
  <2>6. 2 * x <= 2 * y + (2 * r + PreciseUnit) /\ 2 * y <= 2 * x + (2 * r + PreciseUnit)
    BY <1>3, <2>3 DEF Stands
  <2>7. PICK z \in Nat : z = s * r
    BY ProductType
  <2>8. /\ 2 * w2 + 2 * (s * r) <= 2 * w + 2 * (s2 * r) + (2 * r + PreciseUnit)
        /\ 2 * w + 2 * (s2 * r) <= 2 * w2 + 2 * (s * r) + (2 * r + PreciseUnit)
    BY <1>1, <2>4, <2>5, <2>6, <2>7
  <2>9. d2 <= d + Slack /\ d <= d2 + Slack
    BY <1>4, <1>5, <2>2, <2>8, SharesOweTheSame
  <2>10. QED
    BY <1>3, <2>9
<1>8. QED
  BY <1>6, <1>7

LEMMA SharesRise ==
  ASSUME IInv, NEW a \in Account, NEW m \in Nat, shares' = [shares EXCEPT ![a] = @ + m]
  PROVE  /\ totalShares' = totalShares + m /\ shares'[a] = shares[a] + m
         /\ \A b \in Account \ {a} : shares'[b] = shares[b]
<1>1. shares \in [Account -> Nat] /\ totalShares \in Nat
  BY RatioType DEF IInv, TypeOK
<1>2. PICK v \in Nat : v = shares[a] + m
  BY <1>1
<1>3. shares' = [shares EXCEPT ![a] = v]
  BY <1>2
<1>4. SumOf(shares') = SumOf(shares) - shares[a] + v
  <2>1. PICK f \in [Account -> Nat] : f = shares
    BY <1>1
  <2>2. SumOf([f EXCEPT ![a] = v]) = SumOf(f) - f[a] + v
    BY SumOfUpdate, IssuanceAccountAssumption
  <2>3. QED
    BY <1>3, <2>1, <2>2
<1>5. totalShares' = totalShares + m
  BY <1>1, <1>2, <1>4 DEF totalShares
<1>6. QED
  BY <1>1, <1>2, <1>3, <1>5

LEMMA SharesFall ==
  ASSUME IInv, NEW a \in Account, NEW k \in Nat, k <= shares[a],
         shares' = [shares EXCEPT ![a] = @ - k]
  PROVE  /\ totalShares' = totalShares - k /\ shares'[a] = shares[a] - k
         /\ \A b \in Account \ {a} : shares'[b] = shares[b]
<1>1. shares \in [Account -> Nat] /\ totalShares \in Nat
  BY RatioType DEF IInv, TypeOK
<1>2. PICK v \in Nat : v = shares[a] - k
  BY <1>1
<1>3. shares' = [shares EXCEPT ![a] = v]
  BY <1>2
<1>4. SumOf(shares') = SumOf(shares) - shares[a] + v
  <2>1. PICK f \in [Account -> Nat] : f = shares
    BY <1>1
  <2>2. SumOf([f EXCEPT ![a] = v]) = SumOf(f) - f[a] + v
    BY SumOfUpdate, IssuanceAccountAssumption
  <2>3. QED
    BY <1>3, <2>1, <2>2
<1>5. totalShares' = totalShares - k
  BY <1>1, <1>2, <1>4 DEF totalShares
<1>6. QED
  BY <1>1, <1>2, <1>3, <1>5

(* The shares of an amount stand for it, but for half a share.             *)
LEMMA SharesForDebtBounds ==
  ASSUME IInv, NEW n \in Nat, rawDebtRatio # 0
  PROVE  _sharesForDebt(n) \in Nat /\ Stands(n, _sharesForDebt(n), rawDebtRatio)
<1>1. PreciseUnit \in Nat \ {0} /\ rawDebtRatio \in Nat
  BY RatioType, RatioAssumption
<1>2. PICK r \in Nat \ {0} : r = rawDebtRatio
  BY <1>1
<1>3. PICK k \in Nat : k = _sharesForDebt(n)
  BY SharesForDebtType
<1>4. k = divideDecimalRound(n, r, PreciseUnit)
  BY <1>2, <1>3 DEF _sharesForDebt
<1>5. 2 * (r * k) <= 2 * (n * PreciseUnit) + r /\ 2 * (n * PreciseUnit) < 2 * (r * k) + r
  BY <1>1, <1>4, DivideRoundBounds
<1>6. r * k = k * r /\ r * k \in Nat /\ n * PreciseUnit \in Nat
  BY <1>1, ProductType
<1>7. Stands(n, k, r)
  BY <1>2, <1>5, <1>6 DEF Stands
<1>8. QED
  BY <1>2, <1>3, <1>7

(* What a burn takes: the shares stand for the debt, and but for the last  *)
(* ones an account has, to half a share.                                   *)
LEMMA BurnMoves ==
  ASSUME IInv, NEW a \in Account, NEW n \in Nat, Burned(a, n)
  PROVE  \E burnt \in Nat, k \in Nat :
           /\ burnt = Lesser(debtBalanceOf(a), n) /\ burnt <= debtBalanceOf(a)
           /\ k <= shares[a]
           /\ debt' = debt - burnt
           /\ shares' = [shares EXCEPT ![a] = @ - k]
           /\ rawDebtRatio # 0 /\ debtBalanceOf(a) > 0
           /\ Stands(burnt, k, 2 * rawDebtRatio + PreciseUnit)
           /\ \/ burnt = debtBalanceOf(a) /\ k = shares[a]
              \/ Stands(burnt, k, rawDebtRatio)
<1>1. PICK burnt : burnt = Lesser(debtBalanceOf(a), n)
  OBVIOUS
<1>2. /\ debtBalanceOf(a) > 0 /\ burnt <= debt
      /\ shares' = [shares EXCEPT ![a] = @ - SharesBurned(a, burnt)]
      /\ debt' = debt - burnt
  BY <1>1 DEF Burned
<1>3. PICK d \in Nat, t \in Nat, r \in Nat : d = debtBalanceOf(a) /\ t = shares[a] /\ r = rawDebtRatio
  BY RoundedAlways DEF Rounded
<1>4. burnt \in Nat /\ burnt <= d
  BY <1>1, <1>3 DEF Lesser
<1>5. PICK k \in Nat : k = SharesBurned(a, burnt)
  BY <1>4, SharesBurnedType
<1>6. k <= t
  BY <1>3, <1>4, <1>5, SharesBurnedType
<1>7. PreciseUnit \in Nat \ {0}
  BY RatioAssumption
<1>8. IsDebt(d, t, r)
  BY <1>3, RoundedAlways DEF Rounded
<1>9. r # 0
  <2>1. SUFFICES ASSUME r = 0 PROVE FALSE
    OBVIOUS
  <2>2. d = multiplyDecimalRound(t, 0, PreciseUnit)
    BY <1>3, <2>1 DEF debtBalanceOf
  <2>3. 2 * (PreciseUnit * d) <= 2 * (t * 0) + PreciseUnit
    BY <1>7, <2>2, MultiplyRoundBounds
  <2>4. t * 0 = 0
    OBVIOUS
  <2>5. d >= 1
    BY <1>2, <1>3
  <2>6. PreciseUnit * 1 <= PreciseUnit * d
    BY <1>7, <2>5, TimesOrder
  <2>7. PreciseUnit * d \in Nat
    BY <1>7, ProductType
  <2>8. QED
    BY <1>7, <2>3, <2>4, <2>6, <2>7
<1>10. PICK x \in Nat, y \in Nat, z \in Nat :
         x = burnt * PreciseUnit /\ y = k * r /\ z = t * r
  BY <1>4, <1>7, ProductType
<1>11. CASE burnt = d
  <2>1. k = t
    BY <1>3, <1>5, <1>11 DEF SharesBurned
  <2>2. x = PreciseUnit * d /\ y = z
    BY <1>7, <1>10, <1>11, <2>1
  <2>3. 2 * x <= 2 * y + PreciseUnit /\ 2 * y <= 2 * x + PreciseUnit
    BY <1>8, <1>10, <2>2 DEF IsDebt
  <2>4. 2 * x <= 2 * y + (2 * r + PreciseUnit) /\ 2 * y <= 2 * x + (2 * r + PreciseUnit)
    BY <1>7, <1>10, <2>3
  <2>5. Stands(burnt, k, 2 * rawDebtRatio + PreciseUnit)
    BY <1>3, <1>10, <2>4 DEF Stands
  <2>6. QED
    BY <1>1, <1>2, <1>3, <1>4, <1>5, <1>6, <1>9, <1>11, <2>1, <2>5
<1>12. CASE burnt # d
  <2>1. PICK q \in Nat : q = _sharesForDebt(burnt)
    BY <1>4, SharesForDebtType
  <2>2. k = Lesser(q, t)
    BY <1>3, <1>5, <1>12, <2>1 DEF SharesBurned
  <2>3. Stands(burnt, q, r)
    BY <1>3, <1>4, <1>9, <2>1, SharesForDebtBounds
  <2>4. PICK u \in Nat : u = q * r
    BY ProductType
  <2>5. 2 * x <= 2 * u + r /\ 2 * u <= 2 * x + r
    BY <1>3, <1>10, <2>3, <2>4 DEF Stands
  <2>6. 2 * y <= 2 * x + r
    <3>1. k <= q
      BY <2>2 DEF Lesser
    <3>2. r * k <= r * q /\ r * k = k * r /\ r * q = q * r
      BY <3>1, TimesOrder
    <3>3. QED
      BY <1>10, <2>4, <2>5, <3>2
  <2>7. 2 * x <= 2 * y + r
    <3>1. CASE k = q
      BY <1>10, <2>4, <2>5, <3>1
    <3>2. CASE k = t
      <4>1. burnt + 1 <= d
        BY <1>4, <1>12
      <4>2. PreciseUnit * (burnt + 1) <= PreciseUnit * d
        BY <1>4, <1>7, <4>1, TimesOrder
      <4>3. PreciseUnit * (burnt + 1) = x + PreciseUnit
        BY <1>4, <1>7, <1>10
      <4>4. PICK v \in Nat : v = PreciseUnit * d
        BY <1>7, ProductType
      <4>5. 2 * v <= 2 * y + PreciseUnit
        BY <1>8, <1>10, <3>2, <4>4 DEF IsDebt
      <4>6. QED
        BY <1>7, <1>10, <4>2, <4>3, <4>4, <4>5
    <3>3. QED
      BY <2>2, <3>1, <3>2 DEF Lesser
  <2>8. 2 * x <= 2 * y + (2 * r + PreciseUnit) /\ 2 * y <= 2 * x + (2 * r + PreciseUnit)
    BY <1>7, <1>10, <2>6, <2>7
  <2>9. Stands(burnt, k, rawDebtRatio) /\ Stands(burnt, k, 2 * rawDebtRatio + PreciseUnit)
    BY <1>3, <1>10, <2>6, <2>7, <2>8 DEF Stands
  <2>10. QED
    BY <1>1, <1>2, <1>3, <1>4, <1>5, <1>6, <1>9, <2>9
<1>13. QED
  BY <1>11, <1>12

(* Negative amounts, for what goes.                                        *)
LEMMA StandsNegated ==
  ASSUME IInv, NEW n \in Nat, NEW k \in Nat, NEW e \in Int, Stands(n, k, e)
  PROVE  -n \in Int /\ -k \in Int /\ Stands(-n, -k, e)
<1>1. PreciseUnit \in Nat /\ rawDebtRatio \in Nat
  BY RatioType, RatioAssumption
<1>2. PICK r \in Nat : r = rawDebtRatio
  BY <1>1
<1>3. PICK x \in Nat, y \in Nat : x = n * PreciseUnit /\ y = k * r
  BY <1>1, ProductType
<1>4. (-n) * PreciseUnit = -x /\ (-k) * r = -y
  BY <1>1, <1>3
<1>5. 2 * x <= 2 * y + e /\ 2 * y <= 2 * x + e
  BY <1>2, <1>3 DEF Stands
<1>6. 2 * (-x) <= 2 * (-y) + e /\ 2 * (-y) <= 2 * (-x) + e
  BY <1>3, <1>5
<1>7. QED
  BY <1>2, <1>4, <1>6 DEF Stands

(* Liquidations leave the debt as it is.                                   *)
LEMMA LiquidationLeavesDebt ==
  ASSUME NEW a \in Account, NEW b \in Account,
         liquidateDelinquentAccount(a, b) \/ liquidateSelf(a)
  PROVE  debt' = debt
BY DEF liquidateDelinquentAccount, liquidateSelf, Liquidated

(* In no step do the others owe more, or less, than rounding can explain.  *)
LEMMA OthersOwe == ASSUME IInv, IInv', [Next]_vars PROVE OthersOweTheSame
<1>1. SUFFICES ASSUME NEW b \in Account, debt' # debt, shares' # shares, shares'[b] = shares[b],
                      debt' > debt => _sharesForDebt(debt' - debt) > 0
               PROVE  /\ debtBalanceOf(b)' <= debtBalanceOf(b) + Slack
                      /\ debtBalanceOf(b) <= debtBalanceOf(b)' + Slack
  BY DEF OthersOweTheSame
<1>2. debt \in Nat /\ rawDebtRatio \in Nat /\ PreciseUnit \in Nat \ {0}
  BY RatioType, RatioAssumption, IssuanceAmountAssumption DEF IInv, TypeOK
<1>3. PICK e \in Nat : e = 2 * rawDebtRatio + PreciseUnit
  BY <1>2
<1>4. ASSUME NEW a \in Account, NEW n \in Nat, IssueStep(a, n)
      PROVE  /\ debtBalanceOf(b)' <= debtBalanceOf(b) + Slack
             /\ debtBalanceOf(b) <= debtBalanceOf(b)' + Slack
  <2>1. debt' = debt + n /\ shares' = [shares EXCEPT ![a] = @ + SharesMinted(n)]
    BY <1>4 DEF IssueStep, Issued
  <2>2. debt' > debt /\ debt' - debt = n
    BY <1>1, <1>2, <2>1
  <2>3. _sharesForDebt(n) > 0
    BY <1>1, <2>2
  <2>4. PICK m \in Nat : m = _sharesForDebt(n)
    BY SharesForDebtType
  <2>5. SharesMinted(n) = m
    BY <2>3, <2>4 DEF SharesMinted
  <2>6. rawDebtRatio # 0
    BY <2>3 DEF _sharesForDebt
  <2>7. Stands(n, m, rawDebtRatio)
    BY <2>4, <2>6, SharesForDebtBounds
  <2>8. Stands(n, m, 2 * rawDebtRatio + PreciseUnit)
    <3>1. PICK x \in Nat, y \in Nat : x = n * PreciseUnit /\ y = m * rawDebtRatio
      BY <1>2, ProductType
    <3>2. 2 * x <= 2 * y + rawDebtRatio /\ 2 * y <= 2 * x + rawDebtRatio
      BY <2>7, <3>1 DEF Stands
    <3>3. 2 * x <= 2 * y + e /\ 2 * y <= 2 * x + e
      BY <1>2, <1>3, <3>1, <3>2
    <3>4. QED
      BY <1>3, <3>1, <3>3 DEF Stands
  <2>9. totalShares' = totalShares + m
    BY <2>1, <2>5, SharesRise
  <2>10. QED
    BY <1>1, <2>1, <2>8, <2>9, OthersStay
<1>5. ASSUME NEW a \in Account, NEW n \in Nat, BurnStep(a, n)
      PROVE  /\ debtBalanceOf(b)' <= debtBalanceOf(b) + Slack
             /\ debtBalanceOf(b) <= debtBalanceOf(b)' + Slack
  <2>1. PICK burnt \in Nat, k \in Nat :
          /\ k <= shares[a] /\ debt' = debt - burnt
          /\ shares' = [shares EXCEPT ![a] = @ - k]
          /\ Stands(burnt, k, 2 * rawDebtRatio + PreciseUnit)
    BY <1>5, BurnMoves DEF BurnStep
  <2>2. totalShares' = totalShares - k
    BY <2>1, SharesFall
  <2>3. 2 * rawDebtRatio + PreciseUnit \in Int
    BY <1>2
  <2>4. PICK n1 \in Int, k1 \in Int : n1 = -burnt /\ k1 = -k
    OBVIOUS
  <2>5. Stands(n1, k1, 2 * rawDebtRatio + PreciseUnit)
    BY <2>1, <2>3, <2>4, StandsNegated
  <2>6. totalShares \in Nat
    BY RatioType
  <2>7. debt' = debt + n1 /\ totalShares' = totalShares + k1
    BY <1>2, <2>1, <2>2, <2>4, <2>6
  <2>8. QED
    BY <1>1, <2>5, <2>7, OthersStay
<1>6. ASSUME NEW a \in Account, NEW n \in Migration, finalizeDebtMigration(a, n)
      PROVE  /\ debtBalanceOf(b)' <= debtBalanceOf(b) + Slack
             /\ debtBalanceOf(b) <= debtBalanceOf(b)' + Slack
  <2>1. n \in Nat
    BY IssuanceAmountAssumption
  <2>2. PICK r \in Nat : r = rawDebtRatio
    BY <1>2
  <2>3. PICK moved : moved = multiplyDecimalRound(n, r, PreciseUnit)
    OBVIOUS
  <2>4. /\ moved \in Nat
        /\ 2 * (PreciseUnit * moved) <= 2 * (n * r) + PreciseUnit
        /\ 2 * (n * r) < 2 * (PreciseUnit * moved) + PreciseUnit
    BY <1>2, <2>1, <2>2, <2>3, MultiplyRoundBounds
  <2>5. debt' = debt + moved /\ shares' = [shares EXCEPT ![a] = @ + n]
    BY <1>6, <2>2, <2>3 DEF finalizeDebtMigration
  <2>6. totalShares' = totalShares + n
    BY <2>1, <2>5, SharesRise
  <2>7. PICK x \in Nat, y \in Nat : x = moved * PreciseUnit /\ y = n * r
    BY <1>2, <2>1, <2>4, ProductType
  <2>8. PreciseUnit * moved = x
    BY <1>2, <2>4, <2>7
  <2>9. 2 * x <= 2 * y + e /\ 2 * y <= 2 * x + e
    BY <1>2, <1>3, <2>2, <2>4, <2>7, <2>8
  <2>10. Stands(moved, n, 2 * rawDebtRatio + PreciseUnit)
    BY <1>3, <2>2, <2>7, <2>9 DEF Stands
  <2>11. QED
    BY <1>1, <2>1, <2>4, <2>5, <2>6, <2>10, OthersStay
<1>7. QED
  BY <1>1, <1>4, <1>5, <1>6, StepKinds, LiquidationLeavesDebt

(* Every step keeps the invariant.                                         *)
LEMMA StepKeeps == IInv /\ [Next]_vars => IInv'
<1>1. ASSUME IInv, Next PROVE IInv'
  BY <1>1, CallKeeps, WorldStep DEF Next
<1>2. ASSUME IInv, UNCHANGED vars PROVE IInv'
  <2>1. Covers /\ Balances /\ RestTyped
    BY <1>2, CoversUnchanged, BalancesUnchanged, RestUnchanged DEF vars, tokenVars, shareVars
  <2>2. QED
    BY <2>1, KeptWhen
<1>3. QED
  BY <1>1, <1>2

(* Within the stake time what an account burns leaves it the debt of its   *)
(* target, but for the slack.                                              *)
LEMMA NoExit ==
  ASSUME IInv, IInv', [Next]_vars, NEW a \in Account, debt' < debt, shares'[a] < shares[a],
         now < lastIssue[a] + MinimumStakeTime
  PROVE  debtBalanceOf(a)' >= maxIssuableSynths(_collateral(a)) - Slack
<1>1. PreciseUnit \in Nat \ {0} /\ debt \in Nat /\ now \in Nat /\ lastIssue[a] \in Nat
      /\ MinimumStakeTime \in Nat
  BY RatioAssumption, IssuanceAmountAssumption DEF IInv, TypeOK
<1>2. Rounded /\ Rounded'
  BY RoundedAlways, RoundedNext
<1>3. PICK n \in Nat : BurnStep(a, n)
  <2>1. ASSUME NEW c \in Account, NEW n \in Nat, IssueStep(c, n) PROVE FALSE
    <3>1. debt' = debt + n
      BY <2>1 DEF IssueStep, Issued
    <3>2. QED
      BY <1>1, <3>1
  <2>2. ASSUME NEW c \in Account, NEW n \in Migration, finalizeDebtMigration(c, n) PROVE FALSE
    <3>1. n \in Nat
      BY IssuanceAmountAssumption
    <3>2. PICK moved \in Nat : moved = multiplyDecimalRound(n, rawDebtRatio, PreciseUnit)
      BY <1>1, <3>1, RatioType, MultiplyDecimalRoundType
    <3>3. debt' = debt + moved
      BY <2>2, <3>2 DEF finalizeDebtMigration
    <3>4. QED
      BY <1>1, <3>3
  <2>3. ASSUME NEW c \in Account, NEW b \in Account,
               liquidateDelinquentAccount(c, b) \/ liquidateSelf(c)
        PROVE  FALSE
    BY <1>1, <2>3, LiquidationLeavesDebt
  <2>4. shares' # shares /\ shares[a] \in Nat /\ shares'[a] \in Nat
    BY <1>2 DEF Rounded
  <2>5. ASSUME NEW c \in Account, NEW n \in Nat, BurnStep(c, n) PROVE c = a
    <3>1. PICK k \in Nat : k <= shares[c] /\ shares' = [shares EXCEPT ![c] = @ - k]
      BY <2>5, BurnMoves DEF BurnStep
    <3>2. \A b \in Account \ {c} : shares'[b] = shares[b]
      BY <3>1, SharesFall
    <3>3. QED
      BY <2>4, <3>2
  <2>6. \E c \in Account, n \in Nat : BurnStep(c, n)
    BY <2>1, <2>2, <2>3, <2>4, StepKinds
  <2>7. QED
    BY <2>5, <2>6
<1>4. PICK burnt \in Nat, k \in Nat :
        /\ burnt = Lesser(debtBalanceOf(a), n) /\ k <= shares[a]
        /\ debt' = debt - burnt /\ shares' = [shares EXCEPT ![a] = @ - k]
        /\ \/ burnt = debtBalanceOf(a) /\ k = shares[a]
           \/ Stands(burnt, k, rawDebtRatio)
  BY <1>3, BurnMoves DEF BurnStep
<1>5. PICK s \in Nat, s2 \in Nat, r \in Nat, r2 \in Nat, t \in Nat, t2 \in Nat, d \in Nat, d2 \in Nat :
        /\ s = totalShares /\ s2 = totalShares' /\ r = rawDebtRatio /\ r2 = rawDebtRatio'
        /\ t = shares[a] /\ t2 = shares'[a] /\ d = debtBalanceOf(a) /\ d2 = debtBalanceOf(a)'
  BY <1>2 DEF Rounded
<1>6. s2 = s - k /\ t2 = t - k
  <2>1. k <= shares[a] /\ shares' = [shares EXCEPT ![a] = @ - k]
    BY <1>4
  <2>2. totalShares' = totalShares - k /\ shares'[a] = shares[a] - k
    BY <2>1, SharesFall
  <2>3. QED
    BY <1>5, <2>2
<1>7. t <= s /\ t2 <= s2 /\ IsDebt(d, t, r) /\ IsDebt(d2, t2, r2)
  BY <1>2, <1>5 DEF Rounded
<1>8. Slack = (r + s) \div PreciseUnit + 2
  BY <1>5 DEF Slack
<1>9. PICK target \in Nat : target = maxIssuableSynths(_collateral(a))
  BY MaxIssuableType, CollateralType
<1>10. n + target = d
  <2>1. ~canBurnSynths(a)
    BY <1>1 DEF canBurnSynths
  <2>2. QED
    BY <1>3, <1>5, <1>9, <2>1 DEF BurnStep
<1>11. burnt = n
  BY <1>4, <1>5, <1>10 DEF Lesser
<1>12. 2 * (PreciseUnit * target) <= 2 * (PreciseUnit * d2) + 4 * PreciseUnit + 2 * (r + s)
  <2>1. PICK g \in Nat, h \in Nat : g = PreciseUnit * target /\ h = PreciseUnit * d2
    BY <1>1, ProductType
  <2>2. CASE burnt = d /\ k = t
    <3>1. target = 0
      BY <1>10, <1>11, <2>2
    <3>2. g = 0
      BY <1>1, <2>1, <3>1
    <3>3. QED
      BY <1>1, <2>1, <3>2
  <2>3. CASE Stands(burnt, k, r)
    <3>1. PICK x \in Nat, y \in Nat, z \in Nat, u \in Nat, v \in Nat :
            /\ x = n * PreciseUnit /\ y = k * r /\ z = t * r /\ u = t2 * r /\ v = t2 * r2
      BY <1>1, ProductType
    <3>2. 2 * x <= 2 * y + r /\ 2 * y <= 2 * x + r
      BY <1>5, <1>11, <2>3, <3>1 DEF Stands
    <3>3. z = u + y
      BY <1>6, <3>1
    <3>4. PreciseUnit * d = x + g
      <4>1. d = n + target
        BY <1>10
      <4>2. PreciseUnit * (n + target) = n * PreciseUnit + PreciseUnit * target
        BY <1>1
      <4>3. QED
        BY <2>1, <3>1, <4>1, <4>2
    <3>5. 2 * (x + g) <= 2 * z + PreciseUnit
      BY <1>7, <3>1, <3>4 DEF IsDebt
    <3>6. 2 * g <= 2 * u + r + PreciseUnit
      BY <1>1, <2>1, <3>1, <3>2, <3>3, <3>5
    <3>7. 2 * v <= 2 * h + PreciseUnit
      BY <1>7, <2>1, <3>1 DEF IsDebt
    <3>8. 2 * u <= 2 * v + s + r + t2
      <4>1. CASE s2 = 0
        <5>1. t2 = 0
          BY <1>7, <4>1
        <5>2. u = 0
          BY <3>1, <5>1
        <5>3. QED
          BY <3>1, <5>2
      <4>2. CASE s2 # 0
        <5>1. s # 0
          BY <1>6, <4>2
        <5>2. PICK w \in Nat, w2 \in Nat : w = debt * PreciseUnit /\ w2 = debt' * PreciseUnit
          BY <1>1, <1>2, ProductType DEF Rounded
        <5>3. IsRatio(r, w, s) /\ IsRatio(r2, w2, s2)
          BY <1>2, <1>5, <4>2, <5>1, <5>2 DEF Rounded
        <5>4. w = w2 + x
          <6>1. (debt - n) * PreciseUnit = debt * PreciseUnit - n * PreciseUnit
            BY <1>1
          <6>2. w2 = w - x
            BY <1>4, <1>11, <3>1, <5>2, <6>1
          <6>3. QED
            BY <5>2, <3>1, <6>2
        <5>5. PICK a1 \in Nat, a2 \in Nat : a1 = s * r /\ a2 = s2 * r
          BY ProductType
        <5>6. a1 = a2 + y
          BY <1>6, <3>1, <5>5
        <5>7. 2 * w + 2 * (s2 * r) <= 2 * w2 + 2 * (s * r) + r
          BY <3>1, <3>2, <5>2, <5>4, <5>5, <5>6
        <5>8. 2 * (t2 * r) <= 2 * (t2 * r2) + s + r + t2
          BY <1>7, <5>2, <5>3, <5>7, RatioDown
        <5>9. QED
          BY <3>1, <5>8
      <4>3. QED
        BY <4>1, <4>2
    <3>9. t2 <= s
      BY <1>6, <1>7
    <3>10. 2 * g <= 2 * h + 4 * PreciseUnit + 2 * (r + s)
      BY <1>1, <2>1, <3>1, <3>6, <3>7, <3>8, <3>9
    <3>11. QED
      BY <2>1, <3>10
  <2>4. QED
    BY <1>4, <1>5, <2>2, <2>3
<1>13. target <= d2 + ((r + s) \div PreciseUnit + 2)
  <2>1. r + s \in Nat
    OBVIOUS
  <2>2. QED
    BY <1>12, <2>1, WithinSlack
<1>14. (r + s) \div PreciseUnit \in Nat
  <2>1. r + s \in Nat
    OBVIOUS
  <2>2. QED
    BY <1>1, <2>1, QuotientType
<1>15. d2 >= target - Slack
  BY <1>8, <1>13, <1>14
<1>16. QED
  BY <1>5, <1>9, <1>15

-----------------------------------------------------------------------------
(* What a step does to the rewards of an account *)

LEMMA UpdateEntryRecord ==
  ASSUME NEW r \in Rewards, NEW a \in Account, NEW n, NEW u, u = updateEntry(r, a, n)
  PROVE  /\ u.accumulated = r.accumulated
         /\ u.initiated = r.initiated \cup {a}
         /\ u.entries[a].claimable = IF a \in r.initiated THEN earned(r, a, n) % Uint128
                                     ELSE r.entries[a].claimable
         /\ u.entries[a].accumulated = r.accumulated % Uint128
         /\ \A b \in Account \ {a} : u.entries[b] = r.entries[b]
<1> DEFINE c == IF a \in r.initiated THEN earned(r, a, n) % Uint128 ELSE r.entries[a].claimable
           e == [claimable |-> c, accumulated |-> r.accumulated % Uint128]
<1>1. r.entries \in [Account -> Entry]
  BY DEF Rewards
<1>2. u = [ accumulated |-> r.accumulated, entries |-> [r.entries EXCEPT ![a] = e],
            initiated |-> r.initiated \cup {a} ]
  BY <1>1 DEF updateEntry, Rewards
<1> HIDE DEF c
<1>3. u.accumulated = r.accumulated /\ u.initiated = r.initiated \cup {a}
      /\ u.entries = [r.entries EXCEPT ![a] = e]
  BY <1>2
<1>4. u.entries[a] = e /\ \A b \in Account \ {a} : u.entries[b] = r.entries[b]
  BY <1>1, <1>3
<1>5. u.entries[a].claimable = c /\ u.entries[a].accumulated = r.accumulated % Uint128
  BY <1>4
<1>6. QED
  BY <1>3, <1>4, <1>5 DEF c

LEMMA GetRewardRecord ==
  ASSUME NEW r, RewardsOK(r), NEW a \in Account, NEW n \in Nat,
         NEW g, g = getReward(r, a, n)
  PROVE  /\ g \in Rewards /\ g.accumulated = r.accumulated
         /\ g.initiated = r.initiated \cup {a}
         /\ g.entries[a].claimable = 0
         /\ g.entries[a].accumulated = r.accumulated % Uint128
         /\ \A b \in Account \ {a} : g.entries[b] = r.entries[b]
<1>1. PICK u : u = updateEntry(r, a, n)
  OBVIOUS
<1>2. EntryUpdated(r, a, n, u)
  BY <1>1, UpdateEntryIs
<1>3. u \in Rewards /\ u.entries \in [Account -> Entry] /\ u.entries[a] \in Entry /\ r \in Rewards
  BY <1>2 DEF EntryUpdated, RewardsOK, Rewards
<1>4. /\ u.accumulated = r.accumulated /\ u.initiated = r.initiated \cup {a}
      /\ u.entries[a].accumulated = r.accumulated % Uint128
      /\ \A b \in Account \ {a} : u.entries[b] = r.entries[b]
  BY <1>1, <1>3, UpdateEntryRecord
<1>5. PICK e : e = [claimable |-> 0, accumulated |-> u.entries[a].accumulated]
  OBVIOUS
<1>6. e \in Entry /\ e.claimable = 0 /\ e.accumulated = u.entries[a].accumulated
  BY <1>3, <1>5 DEF Entry
<1>7. g = [accumulated |-> u.accumulated, entries |-> [u.entries EXCEPT ![a] = e],
           initiated |-> u.initiated]
  <2>1. [u.entries[a] EXCEPT !.claimable = 0] = e
    BY <1>3, <1>5 DEF Entry
  <2>2. g = [u EXCEPT !.entries[a].claimable = 0]
    BY <1>1 DEF getReward
  <2>3. QED
    BY <1>3, <2>1, <2>2 DEF Rewards
<1>8. g.accumulated = u.accumulated /\ g.initiated = u.initiated
      /\ g.entries = [u.entries EXCEPT ![a] = e]
  BY <1>7
<1>9. g.entries[a] = e /\ \A b \in Account \ {a} : g.entries[b] = u.entries[b]
  BY <1>3, <1>8
<1>10. g \in Rewards
  BY <1>3, <1>6, <1>7 DEF Rewards
<1>11. QED
  BY <1>4, <1>6, <1>8, <1>9, <1>10

LEMMA NotifyRecord ==
  ASSUME NEW r \in Rewards, NEW gain, NEW supply,
         NEW n, n = notifyRewardAmount(r, gain, supply)
  PROVE  /\ n.entries = r.entries /\ n.initiated = r.initiated
         /\ n.accumulated = IF supply > 0 THEN r.accumulated + divideDecimal(gain, supply, Unit)
                            ELSE r.accumulated
<1>1. CASE supply > 0
  <2>1. PICK d : d = divideDecimal(gain, supply, Unit)
    OBVIOUS
  <2>2. n = [r EXCEPT !.accumulated = r.accumulated + d]
    BY <1>1, <2>1 DEF notifyRewardAmount, Rewards
  <2>3. n = [accumulated |-> r.accumulated + d, entries |-> r.entries, initiated |-> r.initiated]
    BY <2>2 DEF Rewards
  <2>4. n.accumulated = r.accumulated + d /\ n.entries = r.entries /\ n.initiated = r.initiated
    BY <2>3
  <2>5. QED
    BY <1>1, <2>1, <2>4
<1>2. CASE ~(supply > 0)
  <2>1. n = r
    BY <1>2 DEF notifyRewardAmount
  <2>2. QED
    BY <1>2, <2>1
<1>3. QED
  BY <1>1, <1>2

(* What a liquidation does to the rewards: the entry of the account is up   *)
(* to date and empty, the others earn.                                      *)
LEMMA LiquidatedRewards ==
  ASSUME IInv, NEW a \in Account, NEW amounts, NEW paidOut, Liquidated(a, amounts, paidOut),
         amounts.removed \in Nat
  PROVE  \E k \in Nat :
           /\ k = SharesBurned(a, amounts.removed) /\ k <= shares[a]
           /\ shares' = [shares EXCEPT ![a] = @ - k]
           /\ totalShares' = totalShares - k
           /\ rewards'.initiated = rewards.initiated \cup {a}
           /\ rewards.accumulated < Uint128 =>
                rewards'.entries[a].claimable = 0
                /\ rewards'.entries[a].accumulated = rewards.accumulated
           /\ \A b \in Account \ {a} : rewards'.entries[b] = rewards.entries[b]
           /\ rewards'.accumulated =
                IF amounts.redeemed > 0 /\ totalShares' > 0
                  THEN rewards.accumulated + divideDecimal(amounts.redeemed, totalShares', Unit)
                  ELSE rewards.accumulated
<1>1. PICK k \in Nat : k = SharesBurned(a, amounts.removed)
  BY SharesBurnedType
<1>2. k <= shares[a]
  BY <1>1, SharesBurnedType
<1>3. PICK t \in Nat : t = shares[a]
  BY DEF IInv, TypeOK
<1>4. PICK g : g = getReward(rewards, a, t)
  OBVIOUS
<1>5. PICK entry : entry = updateEntry(g, a, t)
  OBVIOUS
<1>6. /\ shares' = [shares EXCEPT ![a] = @ - k]
      /\ rewards' = IF amounts.redeemed > 0
                      THEN notifyRewardAmount(entry, amounts.redeemed, totalShares - k)
                      ELSE entry
  BY <1>1, <1>3, <1>4, <1>5 DEF Liquidated
<1>7. totalShares' = totalShares - k
  BY <1>2, <1>6, SharesFall
<1>8. RewardsOK(rewards) /\ rewards \in Rewards /\ rewards.accumulated \in Nat
  BY DEF IInv, RewardsOK, Rewards
<1>9. /\ g \in Rewards /\ g.accumulated = rewards.accumulated
      /\ g.initiated = rewards.initiated \cup {a}
      /\ g.entries[a].claimable = 0
      /\ g.entries[a].accumulated = rewards.accumulated % Uint128
      /\ \A b \in Account \ {a} : g.entries[b] = rewards.entries[b]
  BY <1>4, <1>8, GetRewardRecord
<1>10. RewardsOK(g)
  <2>1. shares \in [Account -> Nat] /\ g = getReward(rewards, a, shares[a])
    BY <1>3, <1>4 DEF IInv, TypeOK
  <2>2. PICK p : p = rewardPaid(rewards, a, shares[a])
    OBVIOUS
  <2>3. QED
    BY <1>8, <2>1, <2>2, PayOwes
<1>11. /\ entry.accumulated = g.accumulated
       /\ entry.initiated = g.initiated \cup {a}
       /\ entry.entries[a].claimable = IF a \in g.initiated THEN earned(g, a, t) % Uint128
                                       ELSE g.entries[a].claimable
       /\ entry.entries[a].accumulated = g.accumulated % Uint128
       /\ \A b \in Account \ {a} : entry.entries[b] = g.entries[b]
  BY <1>5, <1>9, UpdateEntryRecord
<1>12. entry \in Rewards
  <2>1. EntryUpdated(g, a, t, entry)
    BY <1>5, <1>10, UpdateEntryIs
  <2>2. QED
    BY <2>1 DEF EntryUpdated, RewardsOK
<1>13. /\ rewards'.entries = entry.entries /\ rewards'.initiated = entry.initiated
       /\ rewards'.accumulated =
            IF amounts.redeemed > 0 /\ totalShares' > 0
              THEN rewards.accumulated + divideDecimal(amounts.redeemed, totalShares', Unit)
              ELSE rewards.accumulated
  <2>1. CASE amounts.redeemed > 0
    <3>1. rewards' = notifyRewardAmount(entry, amounts.redeemed, totalShares')
      BY <1>6, <1>7, <2>1
    <3>2. PICK n, supply : n = rewards' /\ supply = totalShares'
      OBVIOUS
    <3>3. /\ n.entries = entry.entries /\ n.initiated = entry.initiated
          /\ n.accumulated = IF supply > 0
                               THEN entry.accumulated + divideDecimal(amounts.redeemed, supply, Unit)
                               ELSE entry.accumulated
      BY <1>12, <3>1, <3>2, NotifyRecord
    <3>4. QED
      BY <1>9, <1>11, <2>1, <3>2, <3>3
  <2>2. CASE ~(amounts.redeemed > 0)
    BY <1>6, <1>9, <1>11, <2>2
  <2>3. QED
    BY <2>1, <2>2
<1>14. ASSUME rewards.accumulated < Uint128
       PROVE  rewards'.entries[a].claimable = 0
              /\ rewards'.entries[a].accumulated = rewards.accumulated
  <2>1. rewards.accumulated % Uint128 = rewards.accumulated
    BY <1>8, <1>14, RemainderBound, RewardUnitAssumption
  <2>2. earned(g, a, t) = 0
    <3>1. g.accumulated - g.entries[a].accumulated = 0
      BY <1>8, <1>9, <2>1
    <3>2. earned(g, a, t) = multiplyDecimal(t, 0, Unit) + 0
      BY <1>9, <3>1 DEF earned
    <3>3. multiplyDecimal(t, 0, Unit) = 0
      <4>1. t * 0 = 0 /\ Unit \in Nat \ {0} /\ Unit * 0 <= 0 /\ 0 < Unit * 0 + Unit
        BY RewardUnitAssumption
      <4>2. 0 \div Unit = 0
        BY <4>1, QuotientIs
      <4>3. QED
        BY <4>1, <4>2 DEF multiplyDecimal
    <3>4. QED
      BY <3>2, <3>3
  <2>3. 0 % Uint128 = 0
    <3>1. Uint128 \in Nat \ {0}
      BY RewardUnitAssumption
    <3>2. 0 % Uint128 \in Nat /\ 0 % Uint128 <= 0
      BY <3>1, RemainderBound
    <3>3. QED
      BY <3>2
  <2>4. entry.entries[a].claimable = 0
    BY <1>9, <1>11, <2>2, <2>3
  <2>5. entry.entries[a].accumulated = rewards.accumulated
    BY <1>9, <1>11, <2>1
  <2>6. QED
    BY <1>13, <2>4, <2>5
<1>15. QED
  BY <1>1, <1>2, <1>6, <1>7, <1>9, <1>11, <1>13, <1>14

-----------------------------------------------------------------------------
(* What the liquidations take *)

LEMMA ForcedIs ==
  ASSUME IInv, NEW a \in Account, NEW liquidator \in Account,
         liquidateDelinquentAccount(a, liquidator)
  PROVE  \E amounts, paidOut :
           /\ Liquidated(a, amounts, paidOut)
           /\ amounts.redeemed \in Nat /\ amounts.removed \in Nat
           /\ \/ amounts.removed = debtBalanceOf(a)
              \/ amounts.redeemed = WithPenalty(amounts.removed, SnxLiquidationPenalty)
           /\ paidOut \in [Account -> Nat]
           /\ \A b \in Account \ {a} : paidOut[b] >= hzn[b]
<1>1. PICK owed \in Nat, liquid \in Nat, escrowed \in Nat :
        owed = debtBalanceOf(a) /\ liquid = hzn[a] /\ escrowed = EscrowAfterReward(a)
  BY DebtBalanceType, EscrowAfterRewardType
<1>2. PICK amounts : amounts = ForcedAmounts(owed, liquid, escrowed)
  OBVIOUS
<1>3. PICK revoked : revoked = [hzn EXCEPT ![a] = @ + amounts.escrowed]
  OBVIOUS
<1>4. PICK flagPaid : flagPaid = Transferred(revoked, a, caller[a], FlagReward)
  OBVIOUS
<1>5. PICK paidOut : paidOut = Transferred(flagPaid, a, liquidator, LiquidateReward)
  OBVIOUS
<1>6. /\ isLiquidationOpen(a, liquid + escrowed)
      /\ CanFix(owed, _snxToUSD((liquid + escrowed) - rewardsSum))
      /\ amounts.escrowed <= escrowed
      /\ revoked[a] >= FlagReward
      /\ flagPaid[a] >= LiquidateReward
      /\ Liquidated(a, amounts, paidOut)
  BY <1>1, <1>2, <1>3, <1>4, <1>5 DEF liquidateDelinquentAccount
<1>7. /\ rewardsSum \in Nat /\ FlagReward \in Nat /\ LiquidateReward \in Nat
      /\ SnxLiquidationPenalty \in Nat /\ hzn \in [Account -> Nat]
      /\ (Unit + SnxLiquidationPenalty) * IssuanceRatio < Unit * Unit
  BY IssuanceAmountAssumption, RatioAssumption DEF IInv, TypeOK, rewardsSum
<1>8. liquid + escrowed >= rewardsSum /\ deadline[a] > 0
  BY <1>6 DEF isLiquidationOpen
<1>9. PICK rest \in Nat : rest = (liquid + escrowed) - rewardsSum
  <2>1. (liquid + escrowed) - rewardsSum \in Nat
    BY <1>7, <1>8
  <2>2. QED
    BY <2>1
<1>10. PICK value \in Nat : value = _snxToUSD(rest)
  BY ValueType
<1>11. PICK removed \in Nat : removed = AmountToFix(owed, value, SnxLiquidationPenalty)
  BY <1>6, <1>7, <1>9, <1>10, AmountToFixType
<1>12. PICK target \in Nat : target = WithPenalty(removed, SnxLiquidationPenalty)
  BY <1>7, WithPenaltyType
<1>13. PICK revoke \in Nat : revoke = _redeemableCollateralForTarget(target, liquid)
  <2>1. target + rewardsSum \in Nat
    BY <1>7
  <2>2. _redeemableCollateralForTarget(target, liquid) \in Nat
    BY <2>1, FloorsubType DEF _redeemableCollateralForTarget
  <2>3. QED
    BY <2>2
<1>14. \/ amounts = [redeemed |-> rest, escrowed |-> escrowed, removed |-> owed]
       \/ amounts = [redeemed |-> target, escrowed |-> revoke, removed |-> removed]
  <2>1. removed = AmountToFix(owed, _snxToUSD((liquid + escrowed) - rewardsSum),
                              SnxLiquidationPenalty)
    BY <1>9, <1>10, <1>11
  <2>2. amounts = IF target + rewardsSum >= liquid + escrowed
                    THEN [redeemed |-> rest, escrowed |-> escrowed, removed |-> owed]
                    ELSE [redeemed |-> target, escrowed |-> revoke, removed |-> removed]
    BY <1>2, <1>9, <1>12, <1>13, <2>1, Zenon DEF ForcedAmounts
  <2>3. QED
    BY <2>2
<1>15. /\ amounts.redeemed \in Nat /\ amounts.removed \in Nat /\ amounts.escrowed \in Nat
       /\ \/ amounts.removed = owed
          \/ amounts.removed = removed /\ amounts.redeemed = target
  BY <1>14
<1>16. caller[a] \in Account
  BY <1>8 DEF IInv, TypeOK
<1>17. revoked \in [Account -> Nat] /\ \A b \in Account \ {a} : revoked[b] = hzn[b]
  BY <1>1, <1>3, <1>7, <1>15
<1>18. flagPaid \in [Account -> Nat] /\ \A b \in Account \ {a} : flagPaid[b] >= revoked[b]
  BY <1>4, <1>6, <1>7, <1>16, <1>17, TransferredType, TransferredOthers
<1>19. paidOut \in [Account -> Nat] /\ \A b \in Account \ {a} : paidOut[b] >= flagPaid[b]
  BY <1>5, <1>6, <1>7, <1>18, TransferredType, TransferredOthers
<1>20. ASSUME NEW b \in Account \ {a} PROVE paidOut[b] >= hzn[b]
  <2>1. paidOut[b] \in Nat /\ flagPaid[b] \in Nat /\ revoked[b] \in Nat /\ hzn[b] \in Nat
    BY <1>7, <1>17, <1>18, <1>19
  <2>2. QED
    BY <1>17, <1>18, <1>19, <2>1
<1>21. \/ amounts.removed = debtBalanceOf(a)
       \/ amounts.redeemed = WithPenalty(amounts.removed, SnxLiquidationPenalty)
  BY <1>1, <1>12, <1>15
<1>22. QED
  BY <1>6, <1>15, <1>19, <1>20, <1>21

LEMMA SelfIs ==
  ASSUME IInv, NEW a \in Account, liquidateSelf(a)
  PROVE  \E amounts :
           /\ Liquidated(a, amounts, hzn)
           /\ amounts.redeemed \in Nat /\ amounts.removed \in Nat
           /\ amounts.removed <= divideDecimal(_snxToUSD(amounts.redeemed),
                                               Unit + SelfLiquidationPenalty, Unit)
<1>1. PICK owed \in Nat, liquid \in Nat, escrowed \in Nat :
        owed = debtBalanceOf(a) /\ liquid = hzn[a] /\ escrowed = EscrowAfterReward(a)
  BY DebtBalanceType, EscrowAfterRewardType
<1>2. PICK amounts : amounts = SelfAmounts(owed, liquid, escrowed)
  OBVIOUS
<1>3. /\ CanFix(owed, _snxToUSD(liquid + escrowed)) /\ Liquidated(a, amounts, hzn)
  BY <1>1, <1>2 DEF liquidateSelf
<1>4. /\ SelfLiquidationPenalty \in Nat /\ Unit \in Nat \ {0}
      /\ (Unit + SelfLiquidationPenalty) * IssuanceRatio < Unit * Unit
  BY RatioAssumption, RewardUnitAssumption
<1>5. PICK value \in Nat : value = _snxToUSD(liquid + escrowed)
  <2>1. liquid + escrowed \in Nat
    BY <1>1
  <2>2. QED
    BY <2>1, ValueType
<1>6. PICK toFix \in Nat : toFix = AmountToFix(owed, value, SelfLiquidationPenalty)
  BY <1>3, <1>4, <1>5, AmountToFixType
<1>7. PICK pay \in Nat : pay = WithPenalty(toFix, SelfLiquidationPenalty)
  BY <1>4, WithPenaltyType
<1>8. PICK redeemed \in Nat : redeemed = Lesser(pay, liquid)
  BY DEF Lesser
<1>9. PICK worth \in Nat :
        worth = divideDecimal(_snxToUSD(redeemed), Unit + SelfLiquidationPenalty, Unit)
  <2>1. _snxToUSD(redeemed) \in Nat /\ Unit + SelfLiquidationPenalty \in Nat \ {0}
    BY <1>4, ValueType
  <2>2. QED
    BY <1>4, <2>1, DivideDecimalType
<1>10. amounts = [redeemed |-> redeemed, escrowed |-> 0, removed |-> Lesser(worth, toFix)]
  BY <1>2, <1>5, <1>6, <1>7, <1>8, <1>9 DEF SelfAmounts
<1>11. amounts.redeemed = redeemed /\ amounts.removed = Lesser(worth, toFix)
  BY <1>10
<1>12. Lesser(worth, toFix) \in Nat /\ Lesser(worth, toFix) <= worth
  BY DEF Lesser
<1>13. QED
  BY <1>3, <1>9, <1>11, <1>12

-----------------------------------------------------------------------------
(* Who has shares has entered *)

\* Whoever has shares that did not come by migration is known to LiquidatorRewards.
Entered == \A a \in Account : shares[a] > 0 /\ a \notin migrated => a \in rewards.initiated

(* LiquidatorRewards forgets nobody.                                       *)
LEMMA InitiatedStay ==
  ASSUME IInv, [Next]_vars
  PROVE  rewards.initiated \subseteq rewards'.initiated /\ migrated \subseteq migrated'
<1> DEFINE G == rewards.initiated \subseteq rewards'.initiated /\ migrated \subseteq migrated'
<1>1. rewards \in Rewards /\ RewardsOK(rewards) /\ \A a \in Account : shares[a] \in Nat
  BY DEF IInv, TypeOK, RewardsOK
<1>2. ASSUME NEW a \in Account, rewards' = updateEntry(rewards, a, shares[a]), migrated' = migrated
      PROVE  G
  <2>1. PICK u : u = updateEntry(rewards, a, shares[a])
    OBVIOUS
  <2>2. u.initiated = rewards.initiated \cup {a}
    BY <1>1, <2>1, UpdateEntryRecord
  <2>3. QED
    BY <1>2, <2>1, <2>2
<1>3. ASSUME NEW a \in Account, NEW n, Issued(a, n) \/ Burned(a, n) PROVE G
  BY <1>2, <1>3 DEF Issued, Burned, EntryAtIssue, EntryAtBurn
<1>4. ASSUME NEW a \in Account, NEW n, issueSynths(a, n) \/ burnSynths(a, n) PROVE G
  BY <1>3, <1>4 DEF issueSynths, burnSynths
<1>5. ASSUME NEW a \in Account, issueMaxSynths(a) \/ burnSynthsToTarget(a) PROVE G
  BY <1>3, <1>5 DEF issueMaxSynths, burnSynthsToTarget
<1>6. ASSUME NEW a \in Account, NEW b \in Account,
             \/ checkAndRemoveAccountInLiquidation(a)
             \/ flagAccountForLiquidation(a, b)
      PROVE  G
  BY <1>6 DEF checkAndRemoveAccountInLiquidation, flagAccountForLiquidation, tokenVars
<1>7. ASSUME NEW a \in Account, payReward(a) PROVE G
  <2>0. PICK n \in Nat : n = shares[a]
    BY <1>1
  <2>1. PICK g : g = getReward(rewards, a, n)
    OBVIOUS
  <2>2. g.initiated = rewards.initiated \cup {a}
    BY <1>1, <2>1, GetRewardRecord
  <2>3. rewards' = g /\ migrated' = migrated
    BY <1>7, <2>0, <2>1 DEF payReward
  <2>4. QED
    BY <2>2, <2>3
<1>8. ASSUME NEW a \in Account, updateAnyEntry(a) \/ vest(a) PROVE G
  BY <1>2, <1>8 DEF updateAnyEntry, vest
<1>9. ASSUME NEW a \in Account, NEW b \in Account, NEW n, transfer(a, b, n) PROVE G
  BY <1>9 DEF transfer
<1>10. ASSUME NEW a \in Account, NEW n, finalizeDebtMigration(a, n) PROVE G
  BY <1>10 DEF finalizeDebtMigration
<1>11. ASSUME NEW n, DebtMoves(n) PROVE G
  BY <1>11 DEF DebtMoves, tokenVars
<1>12. ASSUME stoppedByBreaker \/ rateRecovers \/ PriceMoves \/ TimePasses PROVE G
  BY <1>12 DEF stoppedByBreaker, rateRecovers, PriceMoves, TimePasses, tokenVars
<1>13. ASSUME NEW a \in Account, liquidateSelf(a) PROVE G
  <2>1. PICK amounts : Liquidated(a, amounts, hzn) /\ amounts.removed \in Nat
    BY <1>13, SelfIs
  <2>2. rewards'.initiated = rewards.initiated \cup {a}
    BY <2>1, LiquidatedRewards
  <2>3. QED
    BY <2>1, <2>2 DEF Liquidated
<1>14. ASSUME NEW a \in Account, NEW b \in Account, liquidateDelinquentAccount(a, b) PROVE G
  <2>1. PICK amounts, paidOut : Liquidated(a, amounts, paidOut) /\ amounts.removed \in Nat
    BY <1>14, ForcedIs
  <2>2. rewards'.initiated = rewards.initiated \cup {a}
    BY <2>1, LiquidatedRewards
  <2>3. QED
    BY <2>1, <2>2 DEF Liquidated
<1>15. ASSUME UNCHANGED vars PROVE G
  BY <1>15 DEF vars, tokenVars
<1> HIDE DEF G
<1>16. Call => G
  BY <1>4, <1>5, <1>6, <1>7, <1>8, <1>9, <1>10, <1>11, <1>12, <1>13, <1>14 DEF Call
<1>17. G
  BY <1>12, <1>15, <1>16 DEF Next
<1>18. QED
  BY <1>17 DEF G

LEMMA EnteredKept == IInv /\ Entered /\ [Next]_vars => Entered'
<1> SUFFICES ASSUME IInv, Entered, [Next]_vars, NEW b \in Account,
                    shares'[b] > 0, b \notin migrated'
             PROVE  b \in rewards'.initiated
  BY DEF Entered
<1>1. \A c \in Account : shares[c] \in Nat
  BY DEF IInv, TypeOK
<1>2. shares[b] > 0 => b \in rewards'.initiated
  BY InitiatedStay DEF Entered
<1>3. ASSUME NEW a \in Account, NEW n \in Nat, IssueStep(a, n) PROVE b \in rewards'.initiated
  <2>1. /\ rewards' = updateEntry(rewards, a, shares[a])
        /\ shares' = [shares EXCEPT ![a] = @ + SharesMinted(n)]
    BY <1>3 DEF IssueStep, Issued, EntryAtIssue
  <2>2. \A c \in Account \ {a} : shares'[c] = shares[c]
    BY <2>1, SharesMintedType, SharesRise
  <2>3. PICK u : u = updateEntry(rewards, a, shares[a])
    OBVIOUS
  <2>4. u.initiated = rewards.initiated \cup {a}
    BY <2>3, UpdateEntryRecord DEF IInv, TypeOK
  <2>5. QED
    BY <1>2, <2>1, <2>2, <2>3, <2>4
<1>4. ASSUME NEW a \in Account, NEW k \in Nat, k <= shares[a],
             shares' = [shares EXCEPT ![a] = @ - k]
      PROVE  b \in rewards'.initiated
  <2>1. shares'[a] = shares[a] - k /\ \A c \in Account \ {a} : shares'[c] = shares[c]
    BY <1>4, SharesFall
  <2>2. shares[b] > 0
    BY <1>1, <1>4, <2>1
  <2>3. QED
    BY <1>2, <2>2
<1>5. ASSUME NEW a \in Account, NEW n \in Nat, BurnStep(a, n) PROVE b \in rewards'.initiated
  <2>1. PICK k \in Nat : k <= shares[a] /\ shares' = [shares EXCEPT ![a] = @ - k]
    BY <1>5, BurnMoves DEF BurnStep
  <2>2. QED
    BY <1>4, <2>1
<1>6. ASSUME NEW a \in Account, NEW n \in Migration, finalizeDebtMigration(a, n)
      PROVE  b \in rewards'.initiated
  <2>1. n \in Nat /\ shares' = [shares EXCEPT ![a] = @ + n] /\ migrated' = migrated \cup {a}
    BY <1>6, IssuanceAmountAssumption DEF finalizeDebtMigration
  <2>2. \A c \in Account \ {a} : shares'[c] = shares[c]
    BY <2>1, SharesRise
  <2>3. QED
    BY <1>2, <2>1, <2>2
<1>7. ASSUME NEW a \in Account, NEW c \in Account, liquidateDelinquentAccount(a, c)
      PROVE  b \in rewards'.initiated
  <2>1. PICK amounts, paidOut : Liquidated(a, amounts, paidOut) /\ amounts.removed \in Nat
    BY <1>7, ForcedIs
  <2>2. PICK k \in Nat : k <= shares[a] /\ shares' = [shares EXCEPT ![a] = @ - k]
    BY <2>1, LiquidatedRewards
  <2>3. QED
    BY <1>4, <2>2
<1>8. ASSUME NEW a \in Account, liquidateSelf(a) PROVE b \in rewards'.initiated
  <2>1. PICK amounts : Liquidated(a, amounts, hzn) /\ amounts.removed \in Nat
    BY <1>8, SelfIs
  <2>2. PICK k \in Nat : k <= shares[a] /\ shares' = [shares EXCEPT ![a] = @ - k]
    BY <2>1, LiquidatedRewards
  <2>3. QED
    BY <1>4, <2>2
<1>9. QED
  BY <1>2, <1>3, <1>5, <1>6, <1>7, <1>8, StepKinds

LEMMA InitEntered == Init => Entered
<1> SUFFICES ASSUME Init, NEW a \in Account, shares[a] > 0 PROVE a \in rewards.initiated
  BY DEF Entered
<1>1. FirstDebt > 0
  BY DEF Init
<1>2. rewards = [NewRewards EXCEPT !.initiated = Account]
  BY <1>1 DEF Init
<1>3. QED
  BY <1>2 DEF NewRewards

-----------------------------------------------------------------------------
(* Issuing *)

\* What LiquidatorRewards keeps of each account fits its 128 bits.
RewardsFit ==
  /\ rewards.accumulated < Uint128
  /\ \A a \in Account : earned(rewards, a, shares[a]) < Uint128

LEMMA TimesNothing ==
  ASSUME NEW m \in Nat PROVE multiplyDecimal(m, 0, Unit) = 0 /\ multiplyDecimal(0, m, Unit) = 0
<1>1. m * 0 = 0 /\ 0 * m = 0 /\ Unit \in Nat \ {0} /\ Unit * 0 <= 0 /\ 0 < Unit * 0 + Unit
  BY RewardUnitAssumption
<1>2. 0 \div Unit = 0
  BY <1>1, QuotientIs
<1>3. QED
  BY <1>1, <1>2 DEF multiplyDecimal

(* Issuing changes neither the HZN of the account nor what it earned.       *)
LEMMA CollateralKept ==
  ASSUME IInv, Entered, RewardsFit, NEW a \in Account, NEW n \in Nat, Issued(a, n),
         a \notin migrated
  PROVE  _collateral(a)' = _collateral(a)
<1>1. /\ rewards' = updateEntry(rewards, a, shares[a])
      /\ UNCHANGED <<hzn, escrow>>
  BY DEF Issued, EntryAtIssue
<1>2. PICK t \in Nat, t2 \in Nat : t = shares[a] /\ t2 = shares'[a]
  <2>1. PICK m \in Nat : m = SharesMinted(n)
    BY SharesMintedType
  <2>2. shares[a] \in Nat /\ shares' = [shares EXCEPT ![a] = @ + m]
    BY <2>1 DEF Issued, IInv, TypeOK
  <2>3. shares'[a] = shares[a] + m
    BY <2>2, SharesRise
  <2>4. shares'[a] \in Nat
    BY <2>2, <2>3
  <2>5. QED
    BY <2>2, <2>4
<1>3. PICK u : u = updateEntry(rewards, a, t)
  OBVIOUS
<1>4. RewardsOK(rewards) /\ rewards \in Rewards /\ rewards.accumulated \in Nat
      /\ rewards.accumulated < Uint128
  BY DEF IInv, RewardsOK, Rewards, RewardsFit
<1>5. /\ u.accumulated = rewards.accumulated
      /\ u.entries[a].claimable = IF a \in rewards.initiated THEN earned(rewards, a, t) % Uint128
                                  ELSE rewards.entries[a].claimable
      /\ u.entries[a].accumulated = rewards.accumulated % Uint128
  BY <1>3, <1>4, UpdateEntryRecord
<1>6. rewards.accumulated % Uint128 = rewards.accumulated
  BY <1>4, RemainderBound, RewardUnitAssumption
<1>7. PICK e \in Nat : e = earned(rewards, a, t)
  BY <1>4, EarnedBound
<1>8. PICK c \in Nat : c = rewards.entries[a].claimable
  BY <1>4 DEF Rewards, Entry
<1>11. u.entries[a].claimable = e
  <2>1. CASE a \in rewards.initiated
    <3>1. e < Uint128
      BY <1>2, <1>7 DEF RewardsFit
    <3>2. e % Uint128 = e
      BY <3>1, RemainderBound, RewardUnitAssumption
    <3>3. QED
      BY <1>5, <1>7, <2>1, <3>2
  <2>2. CASE a \notin rewards.initiated
    <3>1. t = 0
      BY <1>2, <2>2 DEF Entered
    <3>2. PICK d \in Nat : d = rewards.accumulated - rewards.entries[a].accumulated
      <4>1. /\ rewards.entries[a].accumulated \in Nat
            /\ rewards.entries[a].accumulated <= rewards.accumulated
        BY <1>4 DEF RewardsOK, Rewards, Entry
      <4>2. rewards.accumulated - rewards.entries[a].accumulated \in Nat
        BY <1>4, <4>1
      <4>3. QED
        BY <4>2
    <3>3. e = multiplyDecimal(0, d, Unit) + c
      BY <1>7, <1>8, <3>1, <3>2 DEF earned
    <3>4. e = c
      BY <1>8, <3>2, <3>3, TimesNothing
    <3>5. QED
      BY <1>5, <1>8, <2>2, <3>4
  <2>3. QED
    BY <2>1, <2>2
<1>12. earned(u, a, t2) = e
  <2>1. u.accumulated - u.entries[a].accumulated = 0
    BY <1>4, <1>5, <1>6
  <2>2. earned(u, a, t2) = multiplyDecimal(t2, 0, Unit) + e
    BY <1>11, <2>1 DEF earned
  <2>3. QED
    BY <1>2, <1>7, <2>2, TimesNothing
<1>13. earned(rewards', a, shares'[a]) = earned(rewards, a, shares[a])
  BY <1>1, <1>2, <1>3, <1>7, <1>12
<1>14. QED
  BY <1>1, <1>13 DEF _collateral

(* An account that mints m shares for the debt n, where there were s and it *)
(* had t of them, owes n more, but for the slack after it.                  *)
LEMMA MintedDebt ==
  ASSUME NEW s \in Nat, NEW t \in Nat, t <= s, NEW m \in Nat \ {0}, NEW r \in Nat, NEW r2 \in Nat,
         NEW w \in Nat, NEW q \in Nat, NEW d \in Nat, NEW d2 \in Nat, NEW n \in Nat,
         q = n * PreciseUnit, IsRatio(r, w, s), IsRatio(r2, w + q, s + m),
         2 * (m * r) <= 2 * q + r,
         IsDebt(d, t, r), IsDebt(d2, t + m, r2)
  PROVE  2 * (PreciseUnit * d2) <= 2 * (PreciseUnit * (d + n)) + 4 * PreciseUnit + 2 * (r2 + (s + m))
<1>1. PreciseUnit \in Nat \ {0}
  BY RatioAssumption
<1>2. PICK y \in Nat, x \in Nat, s2 \in Nat : s = t + y /\ x = t + m /\ s2 = s + m
  <2>1. s - t \in Nat /\ s = t + (s - t) /\ t + m \in Nat /\ s + m \in Nat
    OBVIOUS
  <2>2. QED
    BY <2>1
<1>3. s2 = x + y /\ x <= s2 /\ y <= s /\ s <= s2 /\ s2 \in Nat \ {0} /\ m >= 1
  BY <1>2
<1>4. PICK q1 \in Nat, q2 \in Nat, q3 \in Nat, q5 \in Nat, q6 \in Nat :
        q1 = s * r /\ q2 = s2 * r2 /\ q3 = m * r /\ q5 = t * r /\ q6 = x * r2
  BY ProductType
<1>5. /\ 2 * q1 <= 2 * w + s /\ 2 * w <= 2 * q1 + s
      /\ 2 * q2 <= 2 * (w + q) + s2 /\ 2 * (w + q) <= 2 * q2 + s2
  BY <1>2, <1>4 DEF IsRatio
<1>6. 2 * q2 <= 2 * q1 + s + 2 * q + s2
  BY <1>4, <1>5
<1>7. q1 <= q2 + s2
  BY <1>3, <1>4, <1>5
<1>8. PICK z \in Nat : z = 2 * q1 + s + 2 * q + s2
  BY <1>4
<1>9. x * (2 * q2) <= x * z
  BY <1>6, <1>8, TimesOrder
<1>10. x * (2 * q2) = s2 * (2 * q6)
  BY <1>4
<1>11. PICK a1 \in Nat, a2 \in Nat, a3 \in Nat, b1 \in Nat, b2 \in Nat, b3 \in Nat, b4 \in Nat :
         /\ a1 = s2 * q5 /\ a2 = y * q3 /\ a3 = y * q
         /\ b1 = s2 * q /\ b2 = x * s /\ b3 = x * s2 /\ b4 = y * r
  BY ProductType
<1>12. x * q1 = a1 + a2
  <2>1. (t + m) * ((t + y) * r) = ((t + m) + y) * (t * r) + y * (m * r)
    OBVIOUS
  <2>2. QED
    BY <1>2, <1>3, <1>4, <1>11, <2>1
<1>13. x * q + a3 = b1
  <2>1. (x + y) * q = x * q + y * q
    OBVIOUS
  <2>2. QED
    BY <1>3, <1>11, <2>1
<1>14. x * z = 2 * (x * q1) + b2 + 2 * (x * q) + b3
  <2>1. x * (2 * q1 + s + 2 * q + s2) = 2 * (x * q1) + x * s + 2 * (x * q) + x * s2
    BY <1>4
  <2>2. QED
    BY <1>8, <1>11, <2>1
<1>15. 2 * a2 <= 2 * a3 + b4
  <2>1. 2 * q3 \in Nat /\ 2 * q + r \in Nat /\ 2 * q3 <= 2 * q + r
    BY <1>4
  <2>2. y * (2 * q3) <= y * (2 * q + r)
    BY <2>1, TimesOrder
  <2>3. y * (2 * q3) = 2 * a2 /\ y * (2 * q + r) = 2 * a3 + b4
    BY <1>4, <1>11
  <2>4. QED
    BY <2>2, <2>3
<1>16. b4 <= q1
  <2>1. r * y <= r * s
    BY <1>3, TimesOrder
  <2>2. QED
    BY <1>4, <1>11, <2>1
<1>17. b2 <= s2 * s2 /\ b3 <= s2 * s2 /\ s2 * s2 \in Nat
  <2>1. s2 * x <= s2 * s2
    BY <1>3, TimesOrder
  <2>2. x * s <= x * s2
    BY <1>3, TimesOrder
  <2>3. x * s2 = s2 * x /\ x * s \in Nat /\ x * s2 \in Nat /\ s2 * s2 \in Nat
    BY ProductType
  <2>4. QED
    BY <1>11, <2>1, <2>2, <2>3
<1>18. PICK v \in Nat : v = s2 * s2
  BY <1>17
<1>19. x * q \in Nat /\ x * q1 \in Nat /\ x * z \in Nat /\ x * (2 * q2) \in Nat
  BY <1>4, ProductType
<1>20. s2 * (2 * q6) <= 2 * a1 + 2 * b1 + q2 + s2 + 2 * v
  <2>1. PICK l \in Nat, e1 \in Nat, e2 \in Nat, e3 \in Nat :
          l = x * (2 * q2) /\ e1 = x * q1 /\ e2 = x * q /\ e3 = x * z
    BY <1>19
  <2>2. l <= e3 /\ e1 = a1 + a2 /\ e2 + a3 = b1 /\ e3 = 2 * e1 + b2 + 2 * e2 + b3
    BY <1>9, <1>12, <1>13, <1>14, <2>1
  <2>3. b2 <= v /\ b3 <= v /\ b4 <= q2 + s2
    BY <1>4, <1>7, <1>11, <1>16, <1>17, <1>18
  <2>4. e3 <= 2 * a1 + (2 * a3 + b4) + b2 + 2 * e2 + b3
    BY <1>11, <1>15, <2>1, <2>2
  <2>5. e3 <= 2 * a1 + 2 * b1 + q2 + s2 + 2 * v
    <3>1. 2 * a3 + 2 * e2 = 2 * b1
      BY <1>11, <2>1, <2>2
    <3>2. e3 <= 2 * a1 + 2 * b1 + b4 + b2 + b3
      BY <1>11, <2>1, <2>4, <3>1
    <3>3. QED
      BY <1>3, <1>4, <1>11, <1>18, <2>1, <2>3, <3>2
  <2>6. s2 * (2 * q6) = l
    BY <1>10, <2>1
  <2>7. QED
    BY <1>4, <1>11, <1>18, <2>1, <2>2, <2>5, <2>6
<1>21. 2 * a1 + 2 * b1 + q2 + s2 + 2 * v = s2 * (2 * q5 + 2 * q + r2 + 1 + 2 * s2)
  <2>1. s2 * (2 * q5 + 2 * q + r2 + 1 + 2 * s2)
          = 2 * (s2 * q5) + 2 * (s2 * q) + s2 * r2 + s2 + 2 * (s2 * s2)
    BY <1>4
  <2>2. QED
    BY <1>4, <1>11, <1>18, <2>1
<1>22. 2 * q6 <= 2 * q5 + 2 * q + r2 + 1 + 2 * s2
  <2>1. PICK left \in Nat, right \in Nat :
          left = 2 * q6 /\ right = 2 * q5 + 2 * q + r2 + 1 + 2 * s2
    <3>1. 2 * q6 \in Nat /\ 2 * q5 + 2 * q + r2 + 1 + 2 * s2 \in Nat
      BY <1>2, <1>4
    <3>2. QED
      BY <3>1
  <2>2. s2 * left <= s2 * right
    BY <1>20, <1>21, <2>1
  <2>3. left <= right
    BY <1>3, <2>2, TimesCancel
  <2>4. QED
    BY <2>1, <2>3
<1>23. PICK f \in Nat, g \in Nat : f = PreciseUnit * d /\ g = PreciseUnit * d2
  BY <1>1, ProductType
<1>24. 2 * g <= 2 * q6 + PreciseUnit /\ 2 * q5 <= 2 * f + PreciseUnit
  BY <1>2, <1>4, <1>23 DEF IsDebt
<1>25. PreciseUnit * (d + n) = f + q
  <2>1. PreciseUnit * (d + n) = PreciseUnit * d + n * PreciseUnit
    BY <1>1
  <2>2. QED
    BY <1>23, <2>1
<1>26. 2 * g <= 2 * (f + q) + 4 * PreciseUnit + 2 * (r2 + s2)
  BY <1>1, <1>3, <1>4, <1>22, <1>23, <1>24
<1>27. QED
  BY <1>2, <1>23, <1>25, <1>26

(* Whoever issues stays within the issuance ratio, but for the slack.       *)
LEMMA IssueWithin ==
  ASSUME IInv, IInv', Entered, RewardsFit, NEW a \in Account, [Next]_vars
  PROVE  IssuedWithinRatio(a)
<1>1. SUFFICES ASSUME shares'[a] > shares[a], a \notin migrated', totalShares > 0 \/ debt = 0,
                      _sharesForDebt(debt' - debt) > 0
               PROVE  debtBalanceOf(a)' <= maxIssuableSynths(_collateral(a))' + Slack'
  BY DEF IssuedWithinRatio
<1>2. PreciseUnit \in Nat \ {0}
  BY RatioAssumption
<1>3. Rounded /\ Rounded'
  BY RoundedAlways, RoundedNext
<1>4. PICK n \in Nat : IssueStep(a, n)
  <2>1. shares[a] \in Nat /\ shares'[a] \in Nat /\ shares' # shares
    BY <1>1, <1>3 DEF Rounded
  <2>2. ASSUME NEW c \in Account, NEW k \in Nat, k <= shares[c],
               shares' = [shares EXCEPT ![c] = @ - k]
        PROVE  FALSE
    <3>1. /\ shares'[c] = shares[c] - k /\ \A b \in Account \ {c} : shares'[b] = shares[b]
      BY <2>2, SharesFall
    <3>2. QED
      BY <1>1, <2>1, <3>1
  <2>3. ASSUME NEW c \in Account, NEW n \in Nat, BurnStep(c, n) PROVE FALSE
    <3>1. PICK k \in Nat : k <= shares[c] /\ shares' = [shares EXCEPT ![c] = @ - k]
      BY <2>3, BurnMoves DEF BurnStep
    <3>2. QED
      BY <2>2, <3>1
  <2>4. ASSUME NEW c \in Account, NEW n \in Migration, finalizeDebtMigration(c, n) PROVE FALSE
    <3>1. n \in Nat /\ shares' = [shares EXCEPT ![c] = @ + n] /\ migrated' = migrated \cup {c}
      BY <2>4, IssuanceAmountAssumption DEF finalizeDebtMigration
    <3>2. \A b \in Account \ {c} : shares'[b] = shares[b]
      BY <3>1, SharesRise
    <3>3. QED
      BY <1>1, <2>1, <3>1, <3>2
  <2>5. ASSUME NEW c \in Account, NEW b \in Account, liquidateDelinquentAccount(c, b) PROVE FALSE
    <3>1. PICK amounts, paidOut : Liquidated(c, amounts, paidOut) /\ amounts.removed \in Nat
      BY <2>5, ForcedIs
    <3>2. PICK k \in Nat : k <= shares[c] /\ shares' = [shares EXCEPT ![c] = @ - k]
      BY <3>1, LiquidatedRewards
    <3>3. QED
      BY <2>2, <3>2
  <2>6. ASSUME NEW c \in Account, liquidateSelf(c) PROVE FALSE
    <3>1. PICK amounts : Liquidated(c, amounts, hzn) /\ amounts.removed \in Nat
      BY <2>6, SelfIs
    <3>2. PICK k \in Nat : k <= shares[c] /\ shares' = [shares EXCEPT ![c] = @ - k]
      BY <3>1, LiquidatedRewards
    <3>3. QED
      BY <2>2, <3>2
  <2>7. ASSUME NEW c \in Account, NEW n \in Nat, IssueStep(c, n) PROVE c = a
    <3>1. shares' = [shares EXCEPT ![c] = @ + SharesMinted(n)]
      BY <2>7 DEF IssueStep, Issued
    <3>2. \A b \in Account \ {c} : shares'[b] = shares[b]
      BY <3>1, SharesMintedType, SharesRise
    <3>3. QED
      BY <1>1, <2>1, <3>2
  <2>8. QED
    BY <2>1, <2>3, <2>4, <2>5, <2>6, <2>7, StepKinds
<1>5. /\ debt' = debt + n /\ shares' = [shares EXCEPT ![a] = @ + SharesMinted(n)]
      /\ price' = price /\ migrated' = migrated /\ Issued(a, n)
  BY <1>4 DEF IssueStep, Issued, oracleVars
<1>6. _sharesForDebt(n) > 0
  <2>1. debt' - debt = n
    BY <1>3, <1>5 DEF Rounded
  <2>2. QED
    BY <1>1, <2>1
<1>7. PICK m \in Nat \ {0} : m = _sharesForDebt(n)
  BY <1>6, SharesForDebtType
<1>8. SharesMinted(n) = m
  BY <1>6, <1>7 DEF SharesMinted
<1>9. rawDebtRatio # 0
  BY <1>6 DEF _sharesForDebt
<1>10. PICK s \in Nat, r \in Nat, r2 \in Nat, t \in Nat, d \in Nat, d2 \in Nat, w \in Nat, q \in Nat :
         /\ s = totalShares /\ r = rawDebtRatio /\ r2 = rawDebtRatio' /\ t = shares[a]
         /\ d = debtBalanceOf(a) /\ d2 = debtBalanceOf(a)'
         /\ w = debt * PreciseUnit /\ q = n * PreciseUnit
  BY <1>2, <1>3, ProductType DEF Rounded
<1>11. totalShares' = s + m /\ shares'[a] = t + m
  BY <1>5, <1>8, <1>10, SharesRise
<1>12. t <= s /\ IsDebt(d, t, r) /\ IsDebt(d2, t + m, r2)
  BY <1>3, <1>10, <1>11 DEF Rounded
<1>13. IsRatio(r, w, s)
  <2>1. CASE s = 0
    <3>1. w = 0
      BY <1>1, <1>2, <1>10, <2>1
    <3>2. s * r = 0
      BY <2>1
    <3>3. QED
      BY <2>1, <3>1, <3>2 DEF IsRatio
  <2>2. CASE s # 0
    BY <1>3, <1>10, <2>2 DEF Rounded
  <2>3. QED
    BY <2>1, <2>2
<1>14. IsRatio(r2, w + q, s + m)
  <2>1. debt' * PreciseUnit = w + q
    <3>1. (debt + n) * PreciseUnit = debt * PreciseUnit + n * PreciseUnit
      BY <1>2, <1>3 DEF Rounded
    <3>2. QED
      BY <1>5, <1>10, <3>1
  <2>2. totalShares' # 0
    BY <1>11
  <2>3. IsRatio(rawDebtRatio', debt' * PreciseUnit, totalShares')
    BY <1>3, <2>2 DEF Rounded
  <2>4. QED
    BY <1>10, <1>11, <2>1, <2>3
<1>15. Stands(n, m, r)
  BY <1>7, <1>9, <1>10, SharesForDebtBounds
<1>16. 2 * (m * r) <= 2 * q + r
  BY <1>10, <1>15 DEF Stands
<1>17. 2 * (PreciseUnit * d2) <= 2 * (PreciseUnit * (d + n)) + 4 * PreciseUnit + 2 * (r2 + (s + m))
  BY <1>10, <1>12, <1>13, <1>14, <1>16, MintedDebt
<1>18. d2 <= (d + n) + ((r2 + (s + m)) \div PreciseUnit + 2)
  <2>1. d + n \in Nat /\ r2 + (s + m) \in Nat
    OBVIOUS
  <2>2. QED
    BY <1>17, <2>1, WithinSlack
<1>19. PICK max \in Nat : max = maxIssuableSynths(_collateral(a))
  BY MaxIssuableType, CollateralType
<1>20. d + n <= max
  <2>1. n <= floorsub(max, d)
    BY <1>4, <1>10, <1>19 DEF IssueStep, remainingIssuableSynths
  <2>2. n # 0
    <3>1. SUFFICES ASSUME n = 0 PROVE FALSE
      OBVIOUS
    <3>2. q = 0
      BY <1>2, <1>10, <3>1
    <3>3. 2 * (m * r) <= r
      BY <1>10, <1>16, <3>2
    <3>4. r * 1 <= r * m /\ r * m = m * r
      BY TimesOrder
    <3>5. m * r \in Nat
      BY ProductType
    <3>6. QED
      BY <1>9, <1>10, <3>3, <3>4, <3>5
  <2>3. QED
    BY <2>1, <2>2 DEF floorsub
<1>21. maxIssuableSynths(_collateral(a))' = max
  <2>1. _collateral(a)' = _collateral(a)
    BY <1>1, <1>5, CollateralKept
  <2>2. QED
    BY <1>5, <1>19, <2>1 DEF maxIssuableSynths, _snxToUSD
<1>22. Slack' = (r2 + (s + m)) \div PreciseUnit + 2
  BY <1>10, <1>11 DEF Slack
<1>23. (r2 + (s + m)) \div PreciseUnit \in Nat
  <2>1. r2 + (s + m) \in Nat
    OBVIOUS
  <2>2. QED
    BY <1>2, <2>1, QuotientType
<1>24. d2 <= max + Slack'
  BY <1>18, <1>20, <1>22, <1>23
<1>25. QED
  BY <1>10, <1>21, <1>24

-----------------------------------------------------------------------------
(* Sending HZN *)

(* HZN is taken from an account by a transfer and by its liquidation.      *)
LEMMA HoldingsFall ==
  ASSUME IInv, [Next]_vars, NEW a \in Account, hzn'[a] < hzn[a]
  PROVE  \/ \E b \in Account, n \in TransferAmount : transfer(a, b, n)
         \/ \E b \in Account : liquidateDelinquentAccount(a, b)
         \/ liquidateSelf(a)
<1> DEFINE G == \/ \E b \in Account, n \in TransferAmount : transfer(a, b, n)
                \/ \E b \in Account : liquidateDelinquentAccount(a, b)
                \/ liquidateSelf(a)
<1>1. hzn \in [Account -> Nat] /\ escrow \in [Account -> Nat]
  BY DEF IInv, TypeOK
<1>2. hzn' # hzn
  <2>1. hzn[a] \in Nat
    BY <1>1
  <2>2. QED
    BY <2>1
<1>3. ASSUME NEW c \in Account, NEW n, Issued(c, n) \/ Burned(c, n) PROVE G
  BY <1>2, <1>3 DEF Issued, Burned
<1>4. ASSUME NEW c \in Account, NEW n, issueSynths(c, n) \/ burnSynths(c, n) PROVE G
  BY <1>3, <1>4 DEF issueSynths, burnSynths
<1>5. ASSUME NEW c \in Account, issueMaxSynths(c) \/ burnSynthsToTarget(c) PROVE G
  BY <1>3, <1>5 DEF issueMaxSynths, burnSynthsToTarget
<1>6. ASSUME NEW c \in Account, NEW b \in Account,
             \/ checkAndRemoveAccountInLiquidation(c)
             \/ flagAccountForLiquidation(c, b)
      PROVE  G
  BY <1>2, <1>6 DEF checkAndRemoveAccountInLiquidation, flagAccountForLiquidation, tokenVars
<1>7. ASSUME NEW c \in Account, payReward(c) \/ updateAnyEntry(c) PROVE G
  BY <1>2, <1>7 DEF payReward, updateAnyEntry
<1>8. ASSUME NEW c \in Account, vest(c) PROVE G
  <2>1. hzn' = [hzn EXCEPT ![c] = @ + escrow[c]]
    BY <1>8 DEF vest
  <2>2. hzn'[a] >= hzn[a]
    BY <1>1, <2>1
  <2>3. QED
    BY <1>1, <2>1, <2>2
<1>9. ASSUME NEW c \in Account, NEW b \in Account, NEW n \in TransferAmount, transfer(c, b, n)
      PROVE  G
  <2>1. CASE c = a
    BY <1>9, <2>1
  <2>2. CASE c # a
    <3>1. n \in Nat /\ hzn' = Transferred(hzn, c, b, n)
      BY <1>9, IssuanceAmountAssumption DEF transfer
    <3>2. Transferred(hzn, c, b, n)[a] >= hzn[a]
      BY <1>1, <2>2, <3>1, TransferredOthers
    <3>3. Transferred(hzn, c, b, n) \in [Account -> Nat]
      BY <1>1, <1>9, <3>1, TransferredType DEF transfer
    <3>4. QED
      BY <1>1, <3>1, <3>2, <3>3
  <2>3. QED
    BY <2>1, <2>2
<1>10. ASSUME NEW c \in Account, NEW n \in Migration, finalizeDebtMigration(c, n) PROVE G
  <2>1. n \in Nat /\ hzn' = [hzn EXCEPT ![c] = @ + n]
    BY <1>10, IssuanceAmountAssumption DEF finalizeDebtMigration
  <2>2. hzn'[a] >= hzn[a] /\ hzn'[a] \in Nat
    BY <1>1, <2>1
  <2>3. QED
    BY <1>1, <2>2
<1>11. ASSUME NEW n, DebtMoves(n) PROVE G
  BY <1>2, <1>11 DEF DebtMoves, tokenVars
<1>12. ASSUME stoppedByBreaker \/ rateRecovers \/ PriceMoves \/ TimePasses PROVE G
  BY <1>2, <1>12 DEF stoppedByBreaker, rateRecovers, PriceMoves, TimePasses, tokenVars
<1>13. ASSUME NEW c \in Account, liquidateSelf(c) PROVE G
  <2>1. CASE c = a
    BY <1>13, <2>1
  <2>2. CASE c # a
    <3>1. PICK amounts : Liquidated(c, amounts, hzn) /\ amounts.redeemed \in Nat
      BY <1>13, SelfIs
    <3>2. hzn' = [hzn EXCEPT ![c] = @ - amounts.redeemed]
      BY <3>1 DEF Liquidated
    <3>3. hzn'[a] = hzn[a]
      BY <1>1, <2>2, <3>2
    <3>4. QED
      BY <1>1, <3>3
  <2>3. QED
    BY <2>1, <2>2
<1>14. ASSUME NEW c \in Account, NEW b \in Account, liquidateDelinquentAccount(c, b) PROVE G
  <2>1. CASE c = a
    BY <1>14, <2>1
  <2>2. CASE c # a
    <3>1. PICK amounts, paidOut :
            /\ Liquidated(c, amounts, paidOut) /\ amounts.redeemed \in Nat
            /\ paidOut \in [Account -> Nat] /\ \A d \in Account \ {c} : paidOut[d] >= hzn[d]
      BY <1>14, ForcedIs
    <3>2. hzn' = [paidOut EXCEPT ![c] = @ - amounts.redeemed]
      BY <3>1 DEF Liquidated
    <3>3. hzn'[a] = paidOut[a] /\ paidOut[a] >= hzn[a] /\ paidOut[a] \in Nat
      BY <1>1, <2>2, <3>1, <3>2
    <3>4. QED
      BY <1>1, <3>3
  <2>3. QED
    BY <2>1, <2>2
<1>15. ASSUME UNCHANGED vars PROVE G
  BY <1>2, <1>15 DEF vars, tokenVars
<1> HIDE DEF G
<1>16. Call => G
  BY <1>4, <1>5, <1>6, <1>7, <1>8, <1>9, <1>10, <1>11, <1>12, <1>13, <1>14 DEF Call
<1>17. G
  BY <1>12, <1>15, <1>16 DEF Next
<1>18. QED
  BY <1>17 DEF G

(* A liquidation that leaves flags, rewards and their HZN takes none.      *)
LEMMA SelfTakesHoldings ==
  ASSUME IInv, RewardsFit, NEW a \in Account, liquidateSelf(a),
         rewards' = rewards, rewardTokens' = rewardTokens
  PROVE  hzn'[a] = hzn[a]
<1>1. PICK amounts : /\ Liquidated(a, amounts, hzn)
                     /\ amounts.redeemed \in Nat /\ amounts.removed \in Nat
  BY SelfIs
<1>2. /\ rewards'.initiated = rewards.initiated \cup {a}
      /\ rewards'.entries[a].claimable = 0
      /\ rewards'.entries[a].accumulated = rewards.accumulated
  BY <1>1, LiquidatedRewards DEF RewardsFit
<1>3. /\ a \in rewards.initiated /\ rewards.entries[a].claimable = 0
      /\ rewards.entries[a].accumulated = rewards.accumulated
  BY <1>2
<1>4. RewardsOK(rewards) /\ rewards \in Rewards /\ rewards.accumulated \in Nat
      /\ hzn \in [Account -> Nat] /\ rewardTokens \in Nat
  BY DEF IInv, TypeOK, RewardsOK, Rewards
<1>5. PICK t \in Nat : t = shares[a]
  BY DEF IInv, TypeOK
<1>6. earned(rewards, a, t) = 0
  <2>1. rewards.accumulated - rewards.entries[a].accumulated = 0
    BY <1>3, <1>4
  <2>2. multiplyDecimal(t, 0, Unit) = 0
    BY <1>5, TimesNothing
  <2>3. earned(rewards, a, t) = multiplyDecimal(t, 0, Unit) + 0
    BY <1>3, <2>1 DEF earned
  <2>4. QED
    BY <2>2, <2>3
<1>7. PICK u : u = updateEntry(rewards, a, t)
  OBVIOUS
<1>8. u.entries[a].claimable = 0 % Uint128
  BY <1>3, <1>4, <1>6, <1>7, UpdateEntryRecord
<1>9. rewardPaid(rewards, a, shares[a]) = 0
  <2>1. 0 % Uint128 = 0
    BY RemainderBound, RewardUnitAssumption
  <2>2. QED
    BY <1>5, <1>7, <1>8, <2>1 DEF rewardPaid
<1>10. rewardTokens' = rewardTokens - 0 + amounts.redeemed
  BY <1>1, <1>9 DEF Liquidated
<1>11. amounts.redeemed = 0
  BY <1>1, <1>4, <1>10
<1>12. hzn' = [hzn EXCEPT ![a] = @ - 0]
  BY <1>1, <1>11 DEF Liquidated
<1>13. QED
  BY <1>4, <1>12

(* What an account must hold for its debt lets it issue that debt, but for  *)
(* the smallest part of HZN.                                               *)
LEMMA HeldForDebt ==
  ASSUME IInv, NEW owed \in Nat, NEW held \in Nat,
         divideDecimalRound(_usdToSnx(owed), IssuanceRatio, Unit) <= held
  PROVE  owed <= maxIssuableSynths(held) + _snxToUSD(1) + 1
<1>1. PICK p \in Nat \ {0}, u \in Nat \ {0}, i \in Nat \ {0} :
        p = price /\ u = Unit /\ i = IssuanceRatio
  BY PriceType, RewardUnitAssumption, RatioAssumption
<1>2. i < u
  BY <1>1, IssuanceRatioBelowOne, RewardUnitAssumption, RatioAssumption
<1>3. PICK x \in Nat : x = _usdToSnx(owed)
  BY ValueType
<1>4. PICK l \in Nat : l = divideDecimalRound(x, i, u)
  BY DivideDecimalRoundType
<1>5. PICK v \in Nat : v = _snxToUSD(held)
  BY ValueType
<1>6. PICK m \in Nat : m = maxIssuableSynths(held)
  BY MaxIssuableType
<1>7. PICK g \in Nat : g = _snxToUSD(1)
  BY ValueType
<1>8. PICK ou \in Nat, px \in Nat, xu \in Nat, il \in Nat, ih \in Nat :
        ou = owed * u /\ px = p * x /\ xu = x * u /\ il = i * l /\ ih = i * held
  BY ProductType
<1>9. PICK hp \in Nat, uv \in Nat, vi \in Nat, um \in Nat, ug \in Nat :
        hp = held * p /\ uv = u * v /\ vi = v * i /\ um = u * m /\ ug = u * g
  BY ProductType
<1>10. 2 * ou < 2 * px + p
  <2>1. x = divideDecimalRound(owed, p, u)
    BY <1>1, <1>3 DEF _usdToSnx
  <2>2. QED
    BY <1>8, <2>1, DivideRoundBounds
<1>11. 2 * xu < 2 * il + i
  BY <1>4, <1>8, DivideRoundBounds
<1>12. 2 * hp < 2 * uv + u
  <2>1. v = multiplyDecimalRound(held, p, u)
    BY <1>1, <1>5 DEF _snxToUSD
  <2>2. QED
    BY <1>9, <2>1, MultiplyRoundBounds
<1>13. vi < um + u
  <2>1. m = multiplyDecimal(v, i, u)
    BY <1>1, <1>5, <1>6 DEF maxIssuableSynths
  <2>2. QED
    BY <1>9, <2>1, MultiplyBounds
<1>14. 2 * p < 2 * ug + u
  <2>1. g = multiplyDecimalRound(1, p, u) /\ 1 \in Nat
    BY <1>1, <1>7 DEF _snxToUSD
  <2>2. 2 * (1 * p) < 2 * (u * g) + u
    BY <2>1, MultiplyRoundBounds
  <2>3. QED
    BY <1>9, <2>2
<1>15. il <= ih
  <2>1. l <= held
    BY <1>1, <1>3, <1>4
  <2>2. QED
    BY <1>8, <2>1, TimesOrder
\* Each of them times what makes the products comparable.
<1>16. PICK uu \in Nat, a \in Nat, b \in Nat, c \in Nat, d \in Nat, e \in Nat :
         uu = u * u /\ a = u * ou /\ b = u * px /\ c = p * ih /\ d = u * vi /\ e = u * p
  BY ProductType
<1>17. PICK um2 \in Nat, ug2 \in Nat, pi \in Nat, iu \in Nat :
         um2 = u * um /\ ug2 = u * ug /\ pi = p * i /\ iu = i * u
  BY ProductType
<1>18. 2 * a + u <= 2 * b + e
  <2>1. 2 * ou + 1 \in Nat /\ 2 * px + p \in Nat /\ 2 * ou + 1 <= 2 * px + p
    BY <1>10
  <2>2. u * (2 * ou + 1) <= u * (2 * px + p)
    BY <2>1, TimesOrder
  <2>3. u * (2 * ou + 1) = 2 * a + u /\ u * (2 * px + p) = 2 * b + e
    BY <1>16
  <2>4. QED
    BY <2>2, <2>3
<1>19. 2 * b <= 2 * c + pi
  <2>1. 2 * xu <= 2 * ih + i /\ 2 * xu \in Nat /\ 2 * ih + i \in Nat
    BY <1>11, <1>15
  <2>2. p * (2 * xu) <= p * (2 * ih + i)
    BY <2>1, TimesOrder
  <2>3. p * (2 * (x * u)) = 2 * (u * (p * x))
    OBVIOUS
  <2>4. p * (2 * ih + i) = 2 * (p * ih) + p * i
    OBVIOUS
  <2>5. QED
    BY <1>8, <1>16, <1>17, <2>2, <2>3, <2>4
<1>20. 2 * c <= 2 * d + iu
  <2>1. 2 * hp <= 2 * uv + u /\ 2 * hp \in Nat /\ 2 * uv + u \in Nat
    BY <1>12
  <2>2. i * (2 * hp) <= i * (2 * uv + u)
    BY <2>1, TimesOrder
  <2>3. i * (2 * (held * p)) = 2 * (p * (i * held))
    OBVIOUS
  <2>4. i * (2 * (u * v) + u) = 2 * (u * (v * i)) + i * u
    OBVIOUS
  <2>5. QED
    BY <1>8, <1>9, <1>16, <1>17, <2>2, <2>3, <2>4
<1>21. d <= um2 + uu
  <2>1. vi <= um + u /\ um + u \in Nat
    BY <1>13
  <2>2. u * vi <= u * (um + u)
    BY <2>1, TimesOrder
  <2>3. u * (um + u) = um2 + uu
    BY <1>16, <1>17
  <2>4. QED
    BY <1>16, <2>2, <2>3
<1>22. pi <= e /\ iu <= uu
  <2>1. p * i <= p * u /\ u * i <= u * u
    BY <1>2, TimesOrder
  <2>2. p * u = u * p /\ u * i = i * u
    OBVIOUS
  <2>3. QED
    BY <1>16, <1>17, <2>1, <2>2
<1>23. 2 * e <= 2 * ug2 + uu
  <2>1. 2 * p <= 2 * ug + u /\ 2 * p \in Nat /\ 2 * ug + u \in Nat
    BY <1>14
  <2>2. u * (2 * p) <= u * (2 * ug + u)
    BY <2>1, TimesOrder
  <2>3. u * (2 * p) = 2 * e /\ u * (2 * ug + u) = 2 * ug2 + uu
    BY <1>16, <1>17
  <2>4. QED
    BY <2>2, <2>3
<1>24. 2 * a + u <= 2 * um2 + 2 * ug2 + 4 * uu
  BY <1>16, <1>17, <1>18, <1>19, <1>20, <1>21, <1>22, <1>23
<1>25. SUFFICES ASSUME ~(owed <= m + g + 1) PROVE FALSE
  BY <1>6, <1>7
<1>26. m + g + 2 <= owed /\ m + g + 2 \in Nat
  BY <1>25
<1>27. uu * (m + g + 2) <= uu * owed
  BY <1>16, <1>26, TimesOrder
<1>28. uu * owed = a
  <2>1. (u * u) * owed = u * (owed * u)
    OBVIOUS
  <2>2. QED
    BY <1>8, <1>16, <2>1
<1>29. uu * (m + g + 2) = um2 + ug2 + 2 * uu
  <2>1. (u * u) * (m + g + 2) = u * (u * m) + u * (u * g) + 2 * (u * u)
    OBVIOUS
  <2>2. QED
    BY <1>9, <1>16, <1>17, <2>1
<1>30. um2 + ug2 + 2 * uu <= a
  BY <1>27, <1>28, <1>29
<1>31. QED
  BY <1>1, <1>16, <1>17, <1>24, <1>30

(* Whoever sends HZN stays within the issuance ratio.                      *)
LEMMA SentWithin ==
  ASSUME IInv, IInv', RewardsFit, NEW a \in Account, [Next]_vars
  PROVE  SentWithinRatio(a)
<1>1. SUFFICES ASSUME hzn'[a] < hzn[a], UNCHANGED <<rewards, rewardTokens, deadline>>
               PROVE  debtBalanceOf(a)' <= maxIssuableSynths(_collateral(a))' + _snxToUSD(1)' + 1
  BY DEF SentWithinRatio
<1>2. hzn \in [Account -> Nat] /\ hzn[a] \in Nat /\ hzn'[a] \in Nat /\ deadline[a] \in Nat
      /\ deadline \in [Account -> Nat]
  BY IssuanceAmountAssumption DEF IInv, TypeOK
<1>3. ~ liquidateSelf(a)
  <2>1. SUFFICES ASSUME liquidateSelf(a) PROVE FALSE
    OBVIOUS
  <2>2. hzn'[a] = hzn[a]
    BY <1>1, <2>1, SelfTakesHoldings
  <2>3. QED
    BY <1>1, <1>2, <2>2
<1>4. ASSUME NEW b \in Account, liquidateDelinquentAccount(a, b) PROVE FALSE
  <2>1. deadline' = [deadline EXCEPT ![a] = 0] /\ deadline[a] > 0
    BY <1>4 DEF liquidateDelinquentAccount, isLiquidationOpen
  <2>2. deadline'[a] = 0
    BY <1>2, <2>1
  <2>3. QED
    BY <1>1, <2>1, <2>2
<1>5. PICK b \in Account, n \in TransferAmount : transfer(a, b, n)
  BY <1>1, <1>3, <1>4, HoldingsFall
<1>6. /\ n \in Nat /\ n <= hzn[a] /\ hzn' = Transferred(hzn, a, b, n)
      /\ debtBalanceOf(a) > 0 => n <= transferableSynthetix(a)
      /\ UNCHANGED <<escrow, rewards, shareVars, oracleVars>>
  BY <1>5, IssuanceAmountAssumption DEF transfer
<1>7. debtBalanceOf(a)' = debtBalanceOf(a) /\ price' = price
  BY <1>6 DEF debtBalanceOf, rawDebtRatio, totalShares, shareVars, oracleVars
<1>8. PICK owed \in Nat : owed = debtBalanceOf(a)
  BY DebtBalanceType
<1>9. PICK held \in Nat : held = _collateral(a)'
  <2>1. IInv' => \A c \in Account : _collateral(c)' \in Nat
    BY CollateralTypeNext
  <2>2. QED
    BY <2>1
<1>10. maxIssuableSynths(_collateral(a))' = maxIssuableSynths(held) /\ _snxToUSD(1)' = _snxToUSD(1)
  BY <1>7, <1>9 DEF maxIssuableSynths, _snxToUSD
<1>11. CASE owed = 0
  <2>1. maxIssuableSynths(held) \in Nat /\ _snxToUSD(1) \in Nat
    BY MaxIssuableType, ValueType
  <2>2. QED
    BY <1>7, <1>8, <1>10, <1>11, <2>1
<1>12. CASE owed > 0
  <2>1. PICK l \in Nat : l = divideDecimalRound(_usdToSnx(owed), IssuanceRatio, Unit)
    <3>1. _usdToSnx(owed) \in Nat /\ Unit \in Nat /\ IssuanceRatio \in Nat \ {0}
      BY ValueType, RewardUnitAssumption, RatioAssumption
    <3>2. divideDecimalRound(_usdToSnx(owed), IssuanceRatio, Unit) \in Nat
      BY <3>1, DivideDecimalRoundType
    <3>3. QED
      BY <3>2
  <2>2. n <= floorsub(hzn[a], l)
    BY <1>6, <1>8, <1>12, <2>1 DEF transferableSynthetix
  <2>3. hzn'[a] >= hzn[a] - n
    <3>1. PICK f : f = [hzn EXCEPT ![a] = @ - n]
      OBVIOUS
    <3>2. f \in [Account -> Int] /\ f[a] = hzn[a] - n
      BY <1>2, <1>6, <3>1
    <3>3. hzn' = [f EXCEPT ![b] = @ + n]
      BY <1>6, <3>1 DEF Transferred
    <3>4. hzn'[a] = f[a] \/ hzn'[a] = f[a] + n
      BY <3>2, <3>3
    <3>5. QED
      BY <1>2, <1>6, <3>2, <3>4
  <2>4. l <= hzn'[a]
    BY <1>1, <1>2, <1>6, <2>2, <2>3 DEF floorsub
  <2>5. hzn'[a] <= held
    <3>1. /\ escrow'[a] \in Nat /\ earned(rewards', a, shares'[a]) \in Nat
      <4>1. IInv' => \A c \in Account : escrow'[c] \in Nat /\ earned(rewards', c, shares'[c]) \in Nat
        BY CollateralTypeNext
      <4>2. QED
        BY <4>1
    <3>2. held = hzn'[a] + escrow'[a] + earned(rewards', a, shares'[a])
      BY <1>9 DEF _collateral
    <3>3. QED
      BY <1>2, <3>1, <3>2
  <2>6. divideDecimalRound(_usdToSnx(owed), IssuanceRatio, Unit) <= held
    BY <1>2, <2>1, <2>4, <2>5
  <2>7. owed <= maxIssuableSynths(held) + _snxToUSD(1) + 1
    BY <2>6, HeldForDebt
  <2>8. QED
    BY <1>7, <1>8, <1>10, <2>7
<1>13. QED
  BY <1>8, <1>11, <1>12

(* Neither issuing nor sending takes an account beyond the issuance ratio,  *)
(* but for rounding, as long as what LiquidatorRewards keeps of each        *)
(* account fits its 128 bits.                                              *)
THEOREM RatioStaysRespected == Spec /\ []RewardsFit => RatioRespected
<1>1. ASSUME IInv, IInv', Entered, RewardsFit, [Next]_vars
      PROVE  \A a \in Account : IssuedWithinRatio(a) /\ SentWithinRatio(a)
  BY <1>1, IssueWithin, SentWithin
<1>2. Spec => []IInv
  BY IssuanceInvariant
<1>3. Spec => []Entered
  BY <1>2, InitEntered, EnteredKept, PTL DEF Spec
<1>4. QED
  BY <1>1, <1>2, <1>3, PTL DEF Spec, RatioRespected

-----------------------------------------------------------------------------
(* What the others gain and owe when an account is liquidated *)

(* The debt n of k shares that are gone is on those that are left, in parts. *)
LEMMA DebtTaken ==
  ASSUME NEW s \in Nat, NEW left \in Nat \ {0}, NEW k \in Nat, s = left + k,
         NEW t \in Nat, t <= left, NEW r \in Nat, NEW r2 \in Nat, NEW w \in Nat, NEW n \in Nat,
         IsRatio(r, w, s), IsRatio(r2, w, left), 2 * (k * r) <= 2 * (n * PreciseUnit) + r,
         NEW d \in Nat, NEW d2 \in Nat, IsDebt(d, t, r), IsDebt(d2, t, r2),
         NEW x \in Nat, t * n <= left * x
  PROVE  2 * (PreciseUnit * d2) <= 2 * (PreciseUnit * (d + x)) + 2 * PreciseUnit + 2 * (r + s)
<1>1. PICK p \in Nat \ {0} : p = PreciseUnit
  BY RatioAssumption
<1>2. PICK lr \in Nat, lr2 \in Nat, kr \in Nat, np \in Nat, tr \in Nat, tr2 \in Nat :
        /\ lr = left * r /\ lr2 = left * r2 /\ kr = k * r /\ np = n * p
        /\ tr = t * r /\ tr2 = t * r2
  BY ProductType
<1>3. PICK pd \in Nat, pd2 \in Nat, px \in Nat : pd = p * d /\ pd2 = p * d2 /\ px = p * x
  BY ProductType
<1>4. s * r = lr + kr
  <2>1. (left + k) * r = left * r + k * r
    OBVIOUS
  <2>2. QED
    BY <1>2, <2>1
<1>5. 2 * w <= 2 * (lr + kr) + s /\ 2 * lr2 <= 2 * w + left
  BY <1>2, <1>4 DEF IsRatio
<1>6. 2 * lr2 <= 2 * lr + 2 * np + r + 2 * s
  <2>1. 2 * kr <= 2 * np + r
    BY <1>1, <1>2
  <2>2. left <= s
    OBVIOUS
  <2>3. QED
    BY <1>2, <1>5, <2>1, <2>2
\* What t shares owe of it, times the shares that are left.
<1>7. PICK z \in Nat : z = r + 2 * s
  <2>1. r + 2 * s \in Nat
    OBVIOUS
  <2>2. QED
    BY <2>1
<1>8. PICK a \in Nat, b \in Nat, c \in Nat, e \in Nat, f \in Nat :
        a = left * tr2 /\ b = left * tr /\ c = t * np /\ e = t * z /\ f = left * z
  BY ProductType
<1>9. 2 * a <= 2 * b + 2 * c + e
  <2>1. 2 * lr2 \in Nat /\ 2 * lr + 2 * np + z \in Nat /\ 2 * lr2 <= 2 * lr + 2 * np + z
    BY <1>2, <1>6, <1>7
  <2>2. t * (2 * lr2) <= t * (2 * lr + 2 * np + z)
    BY <2>1, TimesOrder
  <2>3. t * (2 * lr2) = 2 * a
    <3>1. t * (2 * (left * r2)) = 2 * (left * (t * r2))
      OBVIOUS
    <3>2. QED
      BY <1>2, <1>8, <3>1
  <2>4. t * (2 * lr + 2 * np + z) = 2 * b + 2 * c + e
    <3>1. t * (2 * (left * r) + 2 * np + z) = 2 * (left * (t * r)) + 2 * (t * np) + t * z
      BY <1>2
    <3>2. QED
      BY <1>2, <1>8, <3>1
  <2>5. QED
    BY <2>2, <2>3, <2>4
<1>10. e <= f
  <2>1. z * t <= z * left
    BY TimesOrder
  <2>2. z * t = t * z /\ z * left = left * z
    OBVIOUS
  <2>3. QED
    BY <1>8, <2>1, <2>2
<1>11. PICK g \in Nat : g = left * px
  BY ProductType
<1>12. c <= g
  <2>1. PICK tn \in Nat, lx \in Nat : tn = t * n /\ lx = left * x
    BY ProductType
  <2>2. p * tn <= p * lx
    BY <1>1, <2>1, TimesOrder
  <2>3. t * (n * p) = p * (t * n) /\ left * (p * x) = p * (left * x)
    BY <1>1
  <2>4. QED
    BY <1>2, <1>3, <1>8, <1>11, <2>1, <2>2, <2>3
<1>13. 2 * pd2 <= 2 * tr2 + p /\ 2 * tr <= 2 * pd + p
  BY <1>1, <1>2, <1>3 DEF IsDebt
<1>14. left * (2 * pd2) <= 2 * a + left * p
  <2>1. 2 * pd2 \in Nat /\ 2 * tr2 + p \in Nat
    BY <1>1, <1>2, <1>3
  <2>2. left * (2 * pd2) <= left * (2 * tr2 + p)
    BY <1>13, <2>1, TimesOrder
  <2>3. left * (2 * tr2 + p) = 2 * (left * tr2) + left * p
    BY <1>1, <1>2
  <2>4. QED
    BY <1>8, <2>2, <2>3
<1>15. 2 * b <= left * (2 * pd + p)
  <2>1. 2 * tr \in Nat /\ 2 * pd + p \in Nat
    BY <1>1, <1>2, <1>3
  <2>2. left * (2 * tr) <= left * (2 * pd + p)
    BY <1>13, <2>1, TimesOrder
  <2>3. left * (2 * tr) = 2 * (left * tr)
    BY <1>2
  <2>4. QED
    BY <1>8, <2>2, <2>3
<1>16. left * (2 * pd2) <= left * (2 * pd + 2 * p + 2 * px + z)
  <2>1. PICK l1 \in Nat, l2 \in Nat, l3 \in Nat :
          l1 = left * (2 * pd2) /\ l2 = left * p /\ l3 = left * (2 * pd + p)
    <3>1. 2 * pd2 \in Nat /\ 2 * pd + p \in Nat
      BY <1>1, <1>3
    <3>2. left * (2 * pd2) \in Nat /\ left * p \in Nat /\ left * (2 * pd + p) \in Nat
      BY <1>1, <3>1, ProductType
    <3>3. QED
      BY <3>2
  <2>2. l1 <= l3 + l2 + 2 * g + f
    BY <1>8, <1>9, <1>10, <1>11, <1>12, <1>14, <1>15, <2>1
  <2>3. left * (2 * pd + 2 * p + 2 * px + z)
          = left * (2 * pd + p) + left * p + 2 * (left * px) + left * z
    BY <1>1, <1>3, <1>7
  <2>4. QED
    BY <1>8, <1>11, <2>1, <2>2, <2>3
<1>17. 2 * pd2 <= 2 * pd + 2 * p + 2 * px + z
  <2>1. 2 * pd2 \in Nat /\ 2 * pd + 2 * p + 2 * px + z \in Nat
    BY <1>1, <1>3, <1>7
  <2>2. QED
    BY <1>16, <2>1, TimesCancel
<1>18. p * (d + x) = pd + px
  BY <1>1, <1>3
<1>19. 2 * pd2 <= 2 * (pd + px) + 2 * p + 2 * (r + s)
  BY <1>1, <1>3, <1>7, <1>17
<1>20. QED
  BY <1>1, <1>3, <1>18, <1>19

(* Who has t of the shares that are left gets j of the HZN h that is redeemed *)
(* for the debt n: of i for each share.  It is worth y, and the part of the  *)
(* debt no more, but for what g is worth, and 2.                            *)
LEMMA ValueGained ==
  ASSUME NEW s \in Nat, NEW left \in Nat \ {0}, left <= s, NEW t \in Nat, t <= left,
         NEW p \in Nat, NEW h \in Nat, NEW n \in Nat,
         2 * (Unit * n) <= 2 * (h * p) + p + Unit,
         NEW i \in Nat, h * Unit <= left * i + left,
         NEW j \in Nat, t * i <= Unit * j + Unit,
         NEW y \in Nat, j * p <= Unit * y + Unit,
         NEW g \in Nat, 2 * ((s \div Unit + 3) * p) <= 2 * (Unit * g) + Unit
  PROVE  t * n <= left * (y + g + 2)
<1>1. PICK u \in Nat \ {0} : u = Unit
  BY RewardUnitAssumption
<1>2. PICK un \in Nat, hp \in Nat, hu \in Nat, li \in Nat, ti \in Nat, uj \in Nat :
        /\ un = u * n /\ hp = h * p /\ hu = h * u /\ li = left * i /\ ti = t * i /\ uj = u * j
  BY ProductType
<1>3. PICK jp \in Nat, uy \in Nat, ug \in Nat, tn \in Nat, uu \in Nat \ {0} :
        /\ jp = j * p /\ uy = u * y /\ ug = u * g /\ tn = t * n /\ uu = u * u
  <2>1. u * u \in Nat \ {0}
    OBVIOUS
  <2>2. QED
    BY <2>1, ProductType
<1>4. PICK tu \in Nat, tp \in Nat, lp \in Nat, lu \in Nat, pu \in Nat, sp \in Nat :
        /\ tu = t * u /\ tp = t * p /\ lp = left * p /\ lu = left * u /\ pu = p * u /\ sp = s * p
  BY ProductType
<1>5. PICK a \in Nat, tpu \in Nat, tuu \in Nat, b \in Nat, ltp \in Nat, c \in Nat :
        /\ a = uu * tn /\ tpu = tp * u /\ tuu = t * uu /\ b = tp * hu
        /\ ltp = left * tp /\ c = lp * ti
  BY ProductType
<1>6. PICK lpu \in Nat, e \in Nat, luu \in Nat, luuy \in Nat, luug \in Nat, uug \in Nat :
        /\ lpu = left * pu /\ e = lu * jp /\ luu = left * uu /\ luuy = luu * y
        /\ luug = luu * g /\ uug = uu * g
  BY ProductType
<1>7. 2 * a <= 2 * b + tpu + tuu
  <2>1. 2 * un \in Nat /\ 2 * hp + p + u \in Nat /\ 2 * un <= 2 * hp + p + u
    BY <1>1, <1>2
  <2>2. tu * (2 * un) <= tu * (2 * hp + p + u)
    BY <2>1, TimesOrder
  <2>3. tu * (2 * un) = 2 * a
    <3>1. (t * u) * (2 * (u * n)) = 2 * ((u * u) * (t * n))
      OBVIOUS
    <3>2. QED
      BY <1>2, <1>3, <1>4, <1>5, <3>1
  <2>4. tu * (2 * hp + p + u) = 2 * b + tpu + tuu
    <3>1. (t * u) * (2 * (h * p) + p + u) = 2 * ((t * p) * (h * u)) + (t * p) * u + t * (u * u)
      OBVIOUS
    <3>2. QED
      BY <1>2, <1>3, <1>4, <1>5, <3>1
  <2>5. QED
    BY <2>2, <2>3, <2>4
<1>8. b <= c + ltp
  <2>1. hu <= li + left /\ li + left \in Nat
    BY <1>1, <1>2
  <2>2. tp * hu <= tp * (li + left)
    BY <2>1, TimesOrder
  <2>3. tp * (li + left) = c + ltp
    <3>1. (t * p) * (left * i + left) = (left * p) * (t * i) + left * (t * p)
      OBVIOUS
    <3>2. QED
      BY <1>2, <1>4, <1>5, <3>1
  <2>4. QED
    BY <1>5, <2>2, <2>3
<1>9. c <= e + lpu
  <2>1. ti <= uj + u /\ uj + u \in Nat
    BY <1>1, <1>2
  <2>2. lp * ti <= lp * (uj + u)
    BY <2>1, TimesOrder
  <2>3. lp * (uj + u) = e + lpu
    <3>1. (left * p) * (u * j + u) = (left * u) * (j * p) + left * (p * u)
      OBVIOUS
    <3>2. QED
      BY <1>2, <1>3, <1>4, <1>6, <3>1
  <2>4. QED
    BY <1>5, <2>2, <2>3
<1>10. e <= luuy + luu
  <2>1. jp <= uy + u /\ uy + u \in Nat
    BY <1>1, <1>3
  <2>2. lu * jp <= lu * (uy + u)
    BY <2>1, TimesOrder
  <2>3. lu * (uy + u) = luuy + luu
    <3>1. (left * u) * (u * y + u) = (left * (u * u)) * y + left * (u * u)
      OBVIOUS
    <3>2. QED
      BY <1>3, <1>4, <1>6, <3>1
  <2>4. QED
    BY <1>6, <2>2, <2>3
<1>11. tpu <= lpu /\ tuu <= luu
  <2>1. pu * t <= pu * left /\ uu * t <= uu * left
    BY TimesOrder
  <2>2. (p * u) * t = (t * p) * u /\ pu * left = left * pu /\ uu * t = t * uu /\ uu * left = left * uu
    OBVIOUS
  <2>3. QED
    BY <1>4, <1>5, <1>6, <2>1, <2>2
<1>12. 2 * tp + 4 * pu <= 2 * uug + uu
  <2>1. PICK q \in Nat : q = s \div u
    BY QuotientType
  <2>2. s <= u * q + u
    BY <2>1, QuotientBound
  <2>3. PICK uq \in Nat, qp \in Nat, puq \in Nat :
          uq = u * q /\ qp = (q + 3) * p /\ puq = p * uq
    <3>1. q + 3 \in Nat
      OBVIOUS
    <3>2. QED
      BY <3>1, ProductType
  <2>4. sp <= puq + pu
    <3>1. s <= uq + u /\ uq + u \in Nat
      BY <2>2, <2>3
    <3>2. p * s <= p * (uq + u)
      BY <3>1, TimesOrder
    <3>3. p * (uq + u) = p * uq + p * u /\ p * s = s * p
      BY <2>3
    <3>4. QED
      BY <1>4, <2>3, <3>2, <3>3
  <2>5. tp <= sp
    <3>1. p * t <= p * s
      BY TimesOrder
    <3>2. p * t = t * p /\ p * s = s * p
      OBVIOUS
    <3>3. QED
      BY <1>4, <3>1, <3>2
  <2>6. 2 * puq + 6 * pu <= 2 * uug + uu
    <3>1. 2 * qp <= 2 * ug + u /\ 2 * qp \in Nat /\ 2 * ug + u \in Nat
      BY <1>1, <1>3, <2>1, <2>3
    <3>2. u * (2 * qp) <= u * (2 * ug + u)
      BY <3>1, TimesOrder
    <3>3. u * (2 * qp) = 2 * puq + 6 * pu
      <4>1. u * (2 * ((q + 3) * p)) = 2 * (p * (u * q)) + 6 * (p * u)
        OBVIOUS
      <4>2. QED
        BY <1>4, <2>3, <4>1
    <3>4. u * (2 * ug + u) = 2 * uug + uu
      <4>1. u * (2 * (u * g) + u) = 2 * ((u * u) * g) + u * u
        OBVIOUS
      <4>2. QED
        BY <1>3, <1>6, <4>1
    <3>5. QED
      BY <3>2, <3>3, <3>4
  <2>7. QED
    BY <1>3, <1>4, <1>6, <2>3, <2>4, <2>5, <2>6
<1>13. 2 * ltp + 4 * lpu <= 2 * luug + luu
  <2>1. 2 * tp + 4 * pu \in Nat /\ 2 * uug + uu \in Nat
    BY <1>3, <1>4, <1>6
  <2>2. left * (2 * tp + 4 * pu) <= left * (2 * uug + uu)
    BY <1>12, <2>1, TimesOrder
  <2>3. left * (2 * tp + 4 * pu) = 2 * ltp + 4 * lpu
    <3>1. left * (2 * tp + 4 * pu) = 2 * (left * tp) + 4 * (left * pu)
      BY <1>4
    <3>2. QED
      BY <1>5, <1>6, <3>1
  <2>4. left * (2 * uug + uu) = 2 * luug + luu
    <3>1. left * (2 * (uu * g) + uu) = 2 * ((left * uu) * g) + left * uu
      OBVIOUS
    <3>2. QED
      BY <1>6, <3>1
  <2>5. QED
    BY <2>2, <2>3, <2>4
<1>14. 2 * a <= 2 * luuy + 2 * luug + 4 * luu
  <2>1. 2 * b <= 2 * luuy + 2 * luu + 2 * lpu + 2 * ltp
    BY <1>5, <1>6, <1>8, <1>9, <1>10
  <2>2. 2 * a <= 2 * luuy + 3 * luu + 3 * lpu + 2 * ltp
    BY <1>5, <1>6, <1>7, <1>11, <2>1
  <2>3. QED
    BY <1>5, <1>6, <1>13, <2>2
<1>15. uu * tn <= uu * (left * (y + g + 2))
  <2>1. (uu) * (left * (y + g + 2)) = (left * uu) * y + (left * uu) * g + 2 * (left * uu)
    OBVIOUS
  <2>2. uu * (left * (y + g + 2)) = luuy + luug + 2 * luu
    BY <1>6, <2>1
  <2>3. a <= luuy + luug + 2 * luu
    BY <1>5, <1>6, <1>14
  <2>4. QED
    BY <1>5, <2>2, <2>3
<1>16. left * (y + g + 2) \in Nat
  <2>1. y + g + 2 \in Nat
    OBVIOUS
  <2>2. QED
    BY <2>1, ProductType
<1>17. tn <= left * (y + g + 2)
  BY <1>15, <1>16, TimesCancel
<1>18. QED
  BY <1>3, <1>17

(* What is redeemed is worth the debt that is removed.                     *)
LEMMA PenaltyCovers ==
  ASSUME IInv, NEW n \in Nat, NEW h, NEW penalty \in Nat, h = WithPenalty(n, penalty)
  PROVE  h \in Nat /\ 2 * (Unit * n) <= 2 * (h * price) + price + Unit
<1>1. PICK u \in Nat \ {0}, p \in Nat \ {0} : u = Unit /\ p = price
  BY PriceType, RewardUnitAssumption
<1>2. PICK x \in Nat : x = _usdToSnx(n)
  BY ValueType
<1>3. h \in Nat
  BY WithPenaltyType
<1>4. 2 * (n * u) < 2 * (p * x) + p
  <2>1. x = divideDecimalRound(n, p, u)
    BY <1>1, <1>2 DEF _usdToSnx
  <2>2. QED
    BY <2>1, DivideRoundBounds
<1>5. PICK up \in Nat : up = u + penalty
  <2>1. u + penalty \in Nat
    OBVIOUS
  <2>2. QED
    BY <2>1
<1>6. h = multiplyDecimal(x, up, u)
  BY <1>1, <1>2, <1>5 DEF WithPenalty
<1>7. x * up < u * h + u
  BY <1>6, MultiplyBounds
<1>8. x * u <= x * up
  BY <1>5, TimesOrder
<1>9. x <= h
  <2>1. SUFFICES ASSUME h + 1 <= x PROVE FALSE
    BY <1>3
  <2>2. u * (h + 1) <= u * x
    BY <1>3, <2>1, TimesOrder
  <2>3. PICK a \in Nat, b \in Nat, c \in Nat : a = u * x /\ b = x * up /\ c = u * h
    BY <1>3, ProductType
  <2>4. u * (h + 1) = c + u /\ x * u = a
    BY <1>3, <2>3
  <2>5. QED
    BY <1>7, <1>8, <2>2, <2>3, <2>4
<1>10. p * x <= p * h
  BY <1>3, <1>9, TimesOrder
<1>11. PICK a \in Nat, b \in Nat, c \in Nat : a = n * u /\ b = p * x /\ c = p * h
  BY <1>3, ProductType
<1>12. 2 * a <= 2 * c + p + u
  BY <1>4, <1>10, <1>11
<1>13. u * n = a /\ h * p = c
  BY <1>3, <1>11
<1>14. QED
  BY <1>1, <1>3, <1>12, <1>13

LEMMA SelfCovers ==
  ASSUME IInv, NEW n \in Nat, NEW h \in Nat, NEW penalty \in Nat,
         n <= divideDecimal(_snxToUSD(h), Unit + penalty, Unit)
  PROVE  2 * (Unit * n) <= 2 * (h * price) + price + Unit
<1>1. PICK u \in Nat \ {0}, p \in Nat \ {0} : u = Unit /\ p = price
  BY PriceType, RewardUnitAssumption
<1>2. PICK v \in Nat : v = _snxToUSD(h)
  BY ValueType
<1>3. PICK up \in Nat \ {0} : up = u + penalty
  <2>1. u + penalty \in Nat \ {0}
    OBVIOUS
  <2>2. QED
    BY <2>1
<1>4. PICK z \in Nat : z = divideDecimal(v, up, u)
  BY DivideDecimalType
<1>5. up * z <= v * u
  BY <1>4, DivideBounds
<1>6. z <= v
  <2>1. z * u <= z * up
    BY <1>3, TimesOrder
  <2>2. PICK a \in Nat, b \in Nat, c \in Nat : a = u * z /\ b = up * z /\ c = u * v
    BY ProductType
  <2>3. z * u = a /\ z * up = b /\ v * u = c
    BY <2>2
  <2>4. a <= c
    BY <1>5, <2>1, <2>2, <2>3
  <2>5. QED
    BY <2>2, <2>4, TimesCancel
<1>7. n <= v
  BY <1>1, <1>2, <1>3, <1>4, <1>6
<1>8. 2 * (u * v) <= 2 * (h * p) + u
  <2>1. v = multiplyDecimalRound(h, p, u)
    BY <1>1, <1>2 DEF _snxToUSD
  <2>2. QED
    BY <2>1, MultiplyRoundBounds
<1>9. u * n <= u * v
  BY <1>7, TimesOrder
<1>10. PICK a \in Nat, b \in Nat, c \in Nat : a = u * n /\ b = u * v /\ c = h * p
  BY ProductType
<1>11. 2 * a <= 2 * c + p + u
  BY <1>8, <1>9, <1>10
<1>12. QED
  BY <1>1, <1>10, <1>11

(* The parts of a sum, rounded down, are no more than the sum.             *)
LEMMA EarnedMore ==
  ASSUME NEW t \in Nat, NEW x \in Nat, NEW i \in Nat
  PROVE  multiplyDecimal(t, x, Unit) + multiplyDecimal(t, i, Unit) <= multiplyDecimal(t, x + i, Unit)
<1>1. PICK u \in Nat \ {0} : u = Unit
  BY RewardUnitAssumption
<1>2. PICK y \in Nat : y = x + i
  <2>1. x + i \in Nat
    OBVIOUS
  <2>2. QED
    BY <2>1
<1>3. PICK a \in Nat, b \in Nat, c \in Nat :
        a = multiplyDecimal(t, x, u) /\ b = multiplyDecimal(t, i, u) /\ c = multiplyDecimal(t, y, u)
  BY MultiplyDecimalType
<1>4. u * a <= t * x
  BY <1>3, MultiplyBounds
<1>5. u * b <= t * i
  BY <1>3, MultiplyBounds
<1>6. t * y < u * c + u
  BY <1>3, MultiplyBounds
<1>7. t * y = t * x + t * i
  BY <1>2
<1>8. PICK ua \in Nat, ub \in Nat, uc \in Nat, tx \in Nat, tj \in Nat :
        ua = u * a /\ ub = u * b /\ uc = u * c /\ tx = t * x /\ tj = t * i
  BY ProductType
<1>9. ua + ub < uc + u
  BY <1>4, <1>5, <1>6, <1>7, <1>8
<1>10. a + b <= c
  <2>1. SUFFICES ASSUME c + 1 <= a + b PROVE FALSE
    OBVIOUS
  <2>2. c + 1 \in Nat /\ a + b \in Nat
    OBVIOUS
  <2>3. u * (c + 1) <= u * (a + b)
    BY <2>1, <2>2, TimesOrder
  <2>4. u * (c + 1) = uc + u /\ u * (a + b) = ua + ub
    BY <1>8
  <2>5. QED
    BY <1>8, <1>9, <2>3, <2>4
<1>11. QED
  BY <1>1, <1>2, <1>3, <1>10

(* j more HZN is worth y more, but for the divisions.                      *)
LEMMA WorthMore ==
  ASSUME IInv, NEW c \in Nat, NEW c2 \in Nat, NEW j \in Nat, c + j <= c2
  PROVE  \E y \in Nat : _snxToUSD(c2) = _snxToUSD(c) + y /\ j * price <= Unit * y + Unit
<1>1. PICK u \in Nat \ {0}, p \in Nat \ {0} : u = Unit /\ p = price
  BY PriceType, RewardUnitAssumption
<1>2. PICK v \in Nat, v2 \in Nat : v = _snxToUSD(c) /\ v2 = _snxToUSD(c2)
  BY ValueType
<1>3. 2 * (u * v) <= 2 * (c * p) + u
  <2>1. v = multiplyDecimalRound(c, p, u)
    BY <1>1, <1>2 DEF _snxToUSD
  <2>2. QED
    BY <2>1, MultiplyRoundBounds
<1>4. 2 * (c2 * p) < 2 * (u * v2) + u
  <2>1. v2 = multiplyDecimalRound(c2, p, u)
    BY <1>1, <1>2 DEF _snxToUSD
  <2>2. QED
    BY <2>1, MultiplyRoundBounds
<1>5. c * p + j * p <= c2 * p
  <2>1. c + j \in Nat
    OBVIOUS
  <2>2. p * (c + j) <= p * c2
    BY <2>1, TimesOrder
  <2>3. p * (c + j) = c * p + j * p /\ p * c2 = c2 * p
    OBVIOUS
  <2>4. QED
    BY <2>2, <2>3
<1>6. PICK cp \in Nat, c2p \in Nat, jp \in Nat, uv \in Nat, uv2 \in Nat :
        cp = c * p /\ c2p = c2 * p /\ jp = j * p /\ uv = u * v /\ uv2 = u * v2
  BY ProductType
<1>7. uv + jp < uv2 + u
  BY <1>3, <1>4, <1>5, <1>6
<1>8. v <= v2
  <2>1. SUFFICES ASSUME v2 + 1 <= v PROVE FALSE
    OBVIOUS
  <2>2. v2 + 1 \in Nat
    OBVIOUS
  <2>3. u * (v2 + 1) <= u * v
    BY <2>1, <2>2, TimesOrder
  <2>4. u * (v2 + 1) = uv2 + u
    BY <1>6
  <2>5. QED
    BY <1>6, <1>7, <2>3, <2>4
<1>9. PICK y \in Nat : v2 = v + y
  <2>1. v2 - v \in Nat /\ v2 = v + (v2 - v)
    BY <1>8
  <2>2. QED
    BY <2>1
<1>10. PICK uy \in Nat : uy = u * y
  BY ProductType
<1>11. uv2 = uv + uy
  <2>1. u * (v + y) = u * v + u * y
    OBVIOUS
  <2>2. QED
    BY <1>6, <1>9, <1>10, <2>1
<1>12. jp <= uy + u
  BY <1>6, <1>7, <1>10, <1>11
<1>13. QED
  BY <1>1, <1>2, <1>6, <1>9, <1>10, <1>12

(* When shares go and the debt stays, an account is liquidated for debt that *)
(* is worth no more than the HZN that is redeemed.                         *)
LEMMA LiquidatedInPart ==
  ASSUME IInv, [Next]_vars, NEW a \in Account, NEW b \in Account, a # b,
         debt' = debt, shares'[a] < shares[a], shares'[a] > 0
  PROVE  \E amounts, paidOut :
           /\ Liquidated(a, amounts, paidOut)
           /\ amounts.redeemed \in Nat /\ amounts.removed \in Nat
           /\ 2 * (Unit * amounts.removed) <= 2 * (amounts.redeemed * price) + price + Unit
           /\ hzn'[b] >= hzn[b] /\ hzn'[b] \in Nat
<1>1. /\ \A c \in Account : shares[c] \in Nat
      /\ hzn \in [Account -> Nat] /\ shares' # shares
  <2>1. /\ \A c \in Account : shares[c] \in Nat
        /\ hzn \in [Account -> Nat]
    BY DEF IInv, TypeOK
  <2>2. shares[a] \in Nat
    BY <2>1
  <2>3. QED
    BY <2>1, <2>2
<1>2. ASSUME NEW c \in Account, NEW k \in Nat, shares' = [shares EXCEPT ![c] = @ + k]
      PROVE  FALSE
  <2>1. shares'[c] = shares[c] + k /\ \A x \in Account \ {c} : shares'[x] = shares[x]
    BY <1>2, SharesRise
  <2>2. shares'[a] >= shares[a]
    BY <1>1, <2>1
  <2>3. shares[a] \in Nat /\ (shares'[a] = shares[a] \/ shares'[a] = shares[a] + k)
    BY <1>1, <2>1
  <2>4. QED
    BY <2>2, <2>3
<1>3. ASSUME NEW c \in Account, NEW n \in Nat, IssueStep(c, n) PROVE FALSE
  <2>1. shares' = [shares EXCEPT ![c] = @ + SharesMinted(n)] /\ SharesMinted(n) \in Nat
    BY <1>3, SharesMintedType DEF IssueStep, Issued
  <2>2. QED
    BY <1>2, <2>1
<1>4. ASSUME NEW c \in Account, NEW n \in Migration, finalizeDebtMigration(c, n) PROVE FALSE
  <2>1. n \in Nat /\ shares' = [shares EXCEPT ![c] = @ + n]
    BY <1>4, IssuanceAmountAssumption DEF finalizeDebtMigration
  <2>2. QED
    BY <1>2, <2>1
<1>5. ASSUME NEW c \in Account, NEW n \in Nat, BurnStep(c, n) PROVE FALSE
  <2>1. PICK burnt \in Nat, k \in Nat :
          /\ k <= shares[c]
          /\ debt' = debt - burnt
          /\ shares' = [shares EXCEPT ![c] = @ - k]
          /\ rawDebtRatio # 0 /\ debtBalanceOf(c) > 0
          /\ \/ burnt = debtBalanceOf(c) /\ k = shares[c]
             \/ Stands(burnt, k, rawDebtRatio)
    BY <1>5, BurnMoves DEF BurnStep
  <2>2. burnt = 0
    <3>1. debt \in Nat
      BY RoundedAlways DEF Rounded
    <3>2. QED
      BY <2>1, <3>1
  <2>3. PICK r \in Nat \ {0} : r = rawDebtRatio
    BY <2>1, RatioType
  <2>4. debtBalanceOf(c) \in Nat
    BY DebtBalanceType
  <2>5. 2 * (k * r) <= 2 * (0 * PreciseUnit) + r
    BY <2>1, <2>2, <2>3, <2>4 DEF Stands
  <2>6. k = 0
    <3>1. 0 * PreciseUnit = 0
      BY RatioAssumption
    <3>2. SUFFICES ASSUME 1 <= k PROVE FALSE
      OBVIOUS
    <3>3. r * 1 <= r * k /\ r * k = k * r /\ r * k \in Nat
      BY <3>2, TimesOrder
    <3>4. QED
      BY <2>5, <3>1, <3>3
  <2>7. shares'[c] = shares[c] - k /\ \A x \in Account \ {c} : shares'[x] = shares[x]
    BY <2>1, SharesFall
  <2>8. shares'[a] = shares[a]
    BY <1>1, <2>6, <2>7
  <2>9. shares[a] \in Nat
    BY <1>1
  <2>10. QED
    BY <2>8, <2>9
<1>6. ASSUME NEW c \in Account, NEW amounts, NEW paidOut,
             Liquidated(c, amounts, paidOut), amounts.removed \in Nat
      PROVE  c = a /\ amounts.removed # debtBalanceOf(a)
  <2>1. PICK k \in Nat : /\ k = SharesBurned(c, amounts.removed) /\ k <= shares[c]
                         /\ shares' = [shares EXCEPT ![c] = @ - k]
    BY <1>6, LiquidatedRewards
  <2>2. shares'[c] = shares[c] - k /\ \A x \in Account \ {c} : shares'[x] = shares[x]
    BY <2>1, SharesFall
  <2>3. shares[a] \in Nat
    BY <1>1
  <2>4. c = a
    BY <2>2, <2>3
  <2>5. amounts.removed # debtBalanceOf(a)
    <3>1. SUFFICES ASSUME amounts.removed = debtBalanceOf(a) PROVE FALSE
      OBVIOUS
    <3>2. k = shares[a]
      BY <2>1, <2>4, <3>1 DEF SharesBurned
    <3>3. QED
      BY <2>2, <2>3, <2>4, <3>2
  <2>6. QED
    BY <2>4, <2>5
<1>7. ASSUME NEW c \in Account, liquidateSelf(c)
      PROVE  \E amounts, paidOut :
               /\ Liquidated(a, amounts, paidOut)
               /\ amounts.redeemed \in Nat /\ amounts.removed \in Nat
               /\ 2 * (Unit * amounts.removed) <= 2 * (amounts.redeemed * price) + price + Unit
               /\ hzn'[b] >= hzn[b] /\ hzn'[b] \in Nat
  <2>1. PICK amounts : /\ Liquidated(c, amounts, hzn)
                       /\ amounts.redeemed \in Nat /\ amounts.removed \in Nat
                       /\ amounts.removed <= divideDecimal(_snxToUSD(amounts.redeemed),
                                                           Unit + SelfLiquidationPenalty, Unit)
    BY <1>7, SelfIs
  <2>2. c = a
    BY <1>6, <2>1
  <2>3. 2 * (Unit * amounts.removed) <= 2 * (amounts.redeemed * price) + price + Unit
    <3>1. SelfLiquidationPenalty \in Nat
      BY RatioAssumption
    <3>2. QED
      BY <2>1, <3>1, SelfCovers
  <2>4. hzn' = [hzn EXCEPT ![a] = @ - amounts.redeemed]
    BY <2>1, <2>2 DEF Liquidated
  <2>5. hzn'[b] = hzn[b] /\ hzn[b] \in Nat
    BY <1>1, <2>4
  <2>6. hzn'[b] >= hzn[b] /\ hzn'[b] \in Nat
    BY <2>5
  <2>7. QED
    BY <2>1, <2>2, <2>3, <2>6
<1>8. ASSUME NEW c \in Account, NEW d \in Account, liquidateDelinquentAccount(c, d)
      PROVE  \E amounts, paidOut :
               /\ Liquidated(a, amounts, paidOut)
               /\ amounts.redeemed \in Nat /\ amounts.removed \in Nat
               /\ 2 * (Unit * amounts.removed) <= 2 * (amounts.redeemed * price) + price + Unit
               /\ hzn'[b] >= hzn[b] /\ hzn'[b] \in Nat
  <2>1. PICK amounts, paidOut :
          /\ Liquidated(c, amounts, paidOut)
          /\ amounts.redeemed \in Nat /\ amounts.removed \in Nat
          /\ \/ amounts.removed = debtBalanceOf(c)
             \/ amounts.redeemed = WithPenalty(amounts.removed, SnxLiquidationPenalty)
          /\ paidOut \in [Account -> Nat]
          /\ \A x \in Account \ {c} : paidOut[x] >= hzn[x]
    BY <1>8, ForcedIs
  <2>2. c = a /\ amounts.removed # debtBalanceOf(a)
    BY <1>6, <2>1
  <2>3. amounts.redeemed = WithPenalty(amounts.removed, SnxLiquidationPenalty)
    BY <2>1, <2>2
  <2>4. 2 * (Unit * amounts.removed) <= 2 * (amounts.redeemed * price) + price + Unit
    <3>1. SnxLiquidationPenalty \in Nat
      BY RatioAssumption
    <3>2. PICK n \in Nat, h \in Nat : n = amounts.removed /\ h = amounts.redeemed
      BY <2>1
    <3>3. h = WithPenalty(n, SnxLiquidationPenalty)
      BY <2>3, <3>2
    <3>4. QED
      BY <3>1, <3>2, <3>3, PenaltyCovers
  <2>5. hzn' = [paidOut EXCEPT ![a] = @ - amounts.redeemed]
    BY <2>1, <2>2 DEF Liquidated
  <2>6. hzn'[b] = paidOut[b] /\ paidOut[b] \in Nat /\ paidOut[b] >= hzn[b]
    BY <2>1, <2>2, <2>5
  <2>7. hzn'[b] >= hzn[b] /\ hzn'[b] \in Nat
    BY <2>6
  <2>8. QED
    BY <2>1, <2>2, <2>4, <2>7
<1>9. QED
  BY <1>1, <1>3, <1>4, <1>5, <1>7, <1>8, StepKinds

(* The others do not lose by a liquidation, but for rounding.              *)
LEMMA OthersGain == ASSUME IInv, IInv', [Next]_vars PROVE OthersDoNotLose
<1>1. SUFFICES ASSUME NEW a \in Account, NEW b \in Account, a # b,
                      debt' = debt, shares'[a] < shares[a], shares'[a] > 0
               PROVE  NetWorth(b)' >= NetWorth(b) - RewardSlack
  BY DEF OthersDoNotLose
<1>2. Rounded /\ Rounded'
  BY RoundedAlways, RoundedNext
<1>3. PICK amounts, paidOut :
        /\ Liquidated(a, amounts, paidOut)
        /\ amounts.redeemed \in Nat /\ amounts.removed \in Nat
        /\ 2 * (Unit * amounts.removed) <= 2 * (amounts.redeemed * price) + price + Unit
        /\ hzn'[b] >= hzn[b] /\ hzn'[b] \in Nat
  BY <1>1, LiquidatedInPart
<1>4. PICK h \in Nat, n \in Nat, p \in Nat \ {0} :
        h = amounts.redeemed /\ n = amounts.removed /\ p = price
  BY <1>3, PriceType
<1>5. 2 * (Unit * n) <= 2 * (h * p) + p + Unit
  BY <1>3, <1>4
<1>6. PICK k \in Nat :
        /\ k = SharesBurned(a, n) /\ k <= shares[a]
        /\ shares' = [shares EXCEPT ![a] = @ - k]
        /\ totalShares' = totalShares - k
        /\ \A c \in Account \ {a} : rewards'.entries[c] = rewards.entries[c]
        /\ rewards'.accumulated =
             IF h > 0 /\ totalShares' > 0
               THEN rewards.accumulated + divideDecimal(h, totalShares', Unit)
               ELSE rewards.accumulated
  <2>1. amounts.removed \in Nat
    BY <1>3
  <2>2. QED
    BY <1>3, <1>4, <2>1, LiquidatedRewards
<1>7. /\ UNCHANGED <<price, debt>> /\ escrow'[b] = escrow[b] /\ escrow[b] \in Nat
      /\ hzn[b] \in Nat /\ PreciseUnit \in Nat \ {0} /\ Unit \in Nat \ {0}
  <2>1. escrow \in [Account -> Nat] /\ hzn \in [Account -> Nat]
    BY DEF IInv, TypeOK
  <2>2. UNCHANGED <<price, debt>>
    BY <1>3 DEF Liquidated, oracleVars
  <2>3. escrow' = [escrow EXCEPT ![a] = @ + rewardPaid(rewards, a, shares[a]) - amounts.escrowed]
    BY <1>3 DEF Liquidated
  <2>4. escrow'[b] = escrow[b]
    BY <1>1, <2>1, <2>3
  <2>5. QED
    BY <2>1, <2>2, <2>4, RatioAssumption, RewardUnitAssumption
<1>8. shares'[b] = shares[b]
  BY <1>1, <1>6, SharesFall
<1>9. PICK s \in Nat, left \in Nat \ {0}, t \in Nat, r \in Nat, r2 \in Nat, d \in Nat, d2 \in Nat,
           w \in Nat :
        /\ s = totalShares /\ left = totalShares' /\ t = shares[b]
        /\ r = rawDebtRatio /\ r2 = rawDebtRatio'
        /\ d = debtBalanceOf(b) /\ d2 = debtBalanceOf(b)' /\ w = debt * PreciseUnit
  <2>1. totalShares' \in Nat \ {0}
    <3>1. shares'[a] \in Nat /\ shares'[a] <= totalShares' /\ totalShares' \in Nat
      BY <1>2 DEF Rounded
    <3>2. QED
      BY <1>1, <3>1
  <2>2. debt * PreciseUnit \in Nat
    BY <1>2, <1>7, ProductType DEF Rounded
  <2>3. QED
    BY <1>2, <2>1, <2>2 DEF Rounded
<1>10. s = left + k /\ left <= s /\ t <= left
  <2>1. left = s - k
    BY <1>6, <1>9
  <2>2. shares'[b] <= totalShares'
    BY <1>2 DEF Rounded
  <2>3. QED
    BY <1>8, <1>9, <2>1, <2>2
<1>11. IsRatio(r, w, s) /\ IsRatio(r2, w, left) /\ IsDebt(d, t, r) /\ IsDebt(d2, t, r2)
  <2>1. totalShares # 0 /\ totalShares' # 0
    <3>1. s # 0 /\ left # 0
      BY <1>10
    <3>2. s = totalShares /\ left = totalShares'
      BY <1>9
    <3>3. QED
      BY <3>1, <3>2
  <2>2. IsRatio(r, w, s)
    BY <1>2, <1>9, <2>1 DEF Rounded
  <2>3. IsRatio(rawDebtRatio', debt' * PreciseUnit, totalShares')
    BY <1>2, <2>1 DEF Rounded
  <2>4. IsDebt(debtBalanceOf(b)', shares'[b], rawDebtRatio')
    BY <1>2 DEF Rounded
  <2>5. IsDebt(d, t, r)
    BY <1>2, <1>9 DEF Rounded
  <2>6. QED
    BY <1>7, <1>8, <1>9, <2>2, <2>3, <2>4, <2>5
\* The shares that are burned stand for no more than the debt that is removed.
<1>12. 2 * (k * r) <= 2 * (n * PreciseUnit) + r
  <2>1. k # shares[a]
    <3>1. shares'[a] = shares[a] - k /\ shares[a] \in Nat
      BY <1>2, <1>6, SharesFall DEF Rounded
    <3>2. QED
      BY <1>1, <3>1
  <2>2. k = Lesser(_sharesForDebt(n), shares[a])
    BY <1>6, <2>1 DEF SharesBurned
  <2>3. PICK m \in Nat : m = _sharesForDebt(n)
    BY SharesForDebtType
  <2>4. k <= m
    BY <1>2, <2>2, <2>3 DEF Lesser, Rounded
  <2>5. r * k <= r * m
    BY <2>4, TimesOrder
  <2>6. PICK a1 \in Nat, a2 \in Nat, a3 \in Nat : a1 = k * r /\ a2 = m * r /\ a3 = n * PreciseUnit
    BY <1>7, ProductType
  <2>7. r * k = a1 /\ r * m = a2
    BY <2>6
  <2>8. CASE r = 0
    BY <2>6, <2>8
  <2>9. CASE r # 0
    <3>1. Stands(n, m, r)
      BY <1>9, <2>3, <2>9, SharesForDebtBounds
    <3>2. 2 * a2 <= 2 * a3 + r
      BY <1>9, <2>6, <3>1 DEF Stands
    <3>3. QED
      BY <2>5, <2>6, <2>7, <3>2
  <2>10. QED
    BY <2>8, <2>9
\* What a share gains, and b by his shares.
<1>13. PICK i \in Nat :
         rewards'.accumulated = rewards.accumulated + i /\ h * Unit <= left * i + left
  <2>1. rewards.accumulated \in Nat
    BY DEF IInv, RewardsOK, Rewards
  <2>2. CASE h > 0
    <3>1. PICK i \in Nat : i = divideDecimal(h, left, Unit)
      BY <1>7, DivideDecimalType
    <3>2. h * Unit < left * i + left
      BY <1>7, <3>1, DivideBounds
    <3>3. h * Unit \in Nat /\ left * i \in Nat
      BY <1>7, ProductType
    <3>4. h * Unit <= left * i + left
      BY <3>2, <3>3
    <3>5. rewards'.accumulated = rewards.accumulated + i
      BY <1>6, <1>9, <2>2, <3>1
    <3>6. QED
      BY <3>4, <3>5
  <2>3. CASE h = 0
    <3>1. rewards'.accumulated = rewards.accumulated + 0
      BY <1>6, <2>1, <2>3
    <3>2. h * Unit = 0 /\ left * 0 = 0
      BY <1>7, <2>3
    <3>3. h * Unit <= left * 0 + left
      BY <3>2
    <3>4. QED
      BY <3>1, <3>3
  <2>4. QED
    BY <2>2, <2>3
<1>14. PICK j \in Nat : j = multiplyDecimal(t, i, Unit) /\ t * i <= Unit * j + Unit
  <2>1. PICK j \in Nat : j = multiplyDecimal(t, i, Unit)
    BY <1>7, MultiplyDecimalType
  <2>2. t * i < Unit * j + Unit
    BY <1>7, <2>1, MultiplyBounds
  <2>3. t * i \in Nat /\ Unit * j \in Nat
    BY <1>7, ProductType
  <2>4. QED
    BY <1>7, <2>1, <2>2, <2>3
<1>15. PICK e \in Nat, e2 \in Nat :
         e = earned(rewards, b, t) /\ e2 = earned(rewards', b, t) /\ e + j <= e2
  <2>1. /\ rewards.accumulated \in Nat /\ rewards.entries[b].accumulated \in Nat
        /\ rewards.entries[b].accumulated <= rewards.accumulated
        /\ rewards.entries[b].claimable \in Nat
    BY DEF IInv, RewardsOK, Rewards, Entry
  <2>2. PICK c \in Nat, x \in Nat :
          /\ c = rewards.entries[b].claimable
          /\ x = rewards.accumulated - rewards.entries[b].accumulated
    <3>1. rewards.accumulated - rewards.entries[b].accumulated \in Nat
      BY <2>1
    <3>2. QED
      BY <2>1, <3>1
  <2>3. rewards'.entries[b] = rewards.entries[b]
    BY <1>1, <1>6
  <2>4. rewards'.accumulated - rewards'.entries[b].accumulated = x + i
    BY <1>13, <2>1, <2>2, <2>3
  <2>5. /\ earned(rewards, b, t) = multiplyDecimal(t, x, Unit) + c
        /\ earned(rewards', b, t) = multiplyDecimal(t, x + i, Unit) + c
    BY <2>2, <2>3, <2>4 DEF earned
  <2>6. PICK m \in Nat, m2 \in Nat :
          m = multiplyDecimal(t, x, Unit) /\ m2 = multiplyDecimal(t, x + i, Unit)
    <3>1. x + i \in Nat
      OBVIOUS
    <3>2. QED
      BY <1>7, <3>1, MultiplyDecimalType
  <2>7. m + j <= m2
    BY <1>14, <2>6, EarnedMore
  <2>8. earned(rewards, b, t) = m + c /\ earned(rewards', b, t) = m2 + c
    BY <2>5, <2>6
  <2>9. QED
    BY <2>7, <2>8
<1>16. PICK c \in Nat, c2 \in Nat :
         c = _collateral(b) /\ c2 = _collateral(b)' /\ c + j <= c2
  <2>1. _collateral(b) = hzn[b] + escrow[b] + e
    BY <1>9, <1>15 DEF _collateral
  <2>2. _collateral(b)' = hzn'[b] + escrow[b] + e2
    BY <1>7, <1>8, <1>9, <1>15 DEF _collateral
  <2>3. hzn[b] + escrow[b] + e + j <= hzn'[b] + escrow[b] + e2
    BY <1>3, <1>7, <1>15
  <2>4. hzn[b] + escrow[b] + e \in Nat /\ hzn'[b] + escrow[b] + e2 \in Nat
    BY <1>3, <1>7
  <2>5. QED
    BY <2>1, <2>2, <2>3, <2>4
<1>17. PICK y \in Nat : _snxToUSD(c2) = _snxToUSD(c) + y /\ j * p <= Unit * y + Unit
  BY <1>4, <1>16, WorthMore
\* What the smallest parts of HZN that are lost by the divisions are worth.
<1>18. PICK g \in Nat : /\ g = _snxToUSD(totalShares \div Unit + 3)
                        /\ 2 * ((s \div Unit + 3) * p) <= 2 * (Unit * g) + Unit
  <2>1. PICK q \in Nat : q = s \div Unit + 3
    <3>1. s \div Unit \in Nat
      BY <1>7, QuotientType
    <3>2. s \div Unit + 3 \in Nat
      BY <3>1
    <3>3. QED
      BY <3>2
  <2>2. PICK g \in Nat : g = _snxToUSD(q)
    BY ValueType
  <2>3. g = multiplyDecimalRound(q, p, Unit)
    BY <1>4, <2>2 DEF _snxToUSD
  <2>4. 2 * (q * p) < 2 * (Unit * g) + Unit
    BY <1>7, <2>3, MultiplyRoundBounds
  <2>5. q * p \in Nat /\ Unit * g \in Nat
    BY <1>7, ProductType
  <2>6. 2 * (q * p) <= 2 * (Unit * g) + Unit
    BY <1>7, <2>4, <2>5
  <2>7. QED
    BY <1>9, <2>1, <2>2, <2>6
<1>19. t * n <= left * (y + g + 2)
  BY <1>5, <1>10, <1>13, <1>14, <1>17, <1>18, ValueGained
<1>20. PICK x \in Nat : x = y + g + 2
  <2>1. y + g + 2 \in Nat
    OBVIOUS
  <2>2. QED
    BY <2>1
<1>21. 2 * (PreciseUnit * d2) <= 2 * (PreciseUnit * (d + x)) + 2 * PreciseUnit + 2 * (r + s)
  <2>1. t * n <= left * x
    BY <1>19, <1>20
  <2>2. QED
    BY <1>10, <1>11, <1>12, <2>1, DebtTaken
<1>22. PICK q \in Nat : q = (r + s) \div PreciseUnit
  <2>1. r + s \in Nat
    OBVIOUS
  <2>2. (r + s) \div PreciseUnit \in Nat
    BY <1>7, <2>1, QuotientType
  <2>3. QED
    BY <2>2
<1>23. d2 <= d + y + g + q + 3
  <2>1. PICK z \in Nat, v \in Nat : z = r + s /\ v = d + x
    <3>1. r + s \in Nat /\ d + x \in Nat
      OBVIOUS
    <3>2. QED
      BY <3>1
  <2>2. z < PreciseUnit * q + PreciseUnit
    BY <1>7, <1>22, <2>1, QuotientBound
  <2>3. SUFFICES ASSUME v + q + 2 <= d2 PROVE FALSE
    BY <1>20, <2>1
  <2>4. v + q + 2 \in Nat
    OBVIOUS
  <2>5. PreciseUnit * (v + q + 2) <= PreciseUnit * d2
    BY <1>7, <2>3, <2>4, TimesOrder
  <2>6. PICK a1 \in Nat, a2 \in Nat, a3 \in Nat :
          a1 = PreciseUnit * d2 /\ a2 = PreciseUnit * v /\ a3 = PreciseUnit * q
    BY <1>7, ProductType
  <2>7. PreciseUnit * (v + q + 2) = a2 + a3 + 2 * PreciseUnit
    BY <1>7, <2>6
  <2>8. 2 * a1 <= 2 * a2 + 2 * PreciseUnit + 2 * z
    BY <1>21, <2>1, <2>6
  <2>9. z < a3 + PreciseUnit /\ a2 + a3 + 2 * PreciseUnit <= a1
    BY <2>2, <2>5, <2>6, <2>7
  <2>10. QED
    BY <1>7, <2>1, <2>6, <2>8, <2>9
<1>24. RewardSlack = q + 2 + g + 1
  BY <1>9, <1>18, <1>22 DEF RewardSlack, Slack
<1>25. PICK v \in Nat : v = _snxToUSD(c)
  BY ValueType
<1>26. NetWorth(b) = v - d
  BY <1>9, <1>16, <1>25 DEF NetWorth
<1>27. NetWorth(b)' = (v + y) - d2
  <2>1. _snxToUSD(_collateral(b))' = _snxToUSD(c2)
    BY <1>7, <1>16 DEF _snxToUSD
  <2>2. QED
    BY <1>9, <1>17, <1>25, <2>1 DEF NetWorth
<1>28. (v + y) - d2 >= (v - d) - (q + 2 + g + 1)
  BY <1>23
<1>29. QED
  BY <1>24, <1>26, <1>27, <1>28

(* What one account does with its debt is never at the cost of another, but *)
(* for rounding: whoever issues or burns leaves what the others owe, and    *)
(* what is taken from a liquidated account is worth the debt it leaves.     *)
THEOREM OthersStayUnharmed == Spec => OthersUnharmed
<1>1. ASSUME IInv, IInv', [Next]_vars PROVE OthersOweTheSame /\ OthersDoNotLose
  BY <1>1, OthersOwe, OthersGain
<1>2. QED
  BY <1>1, IssuanceInvariant, PTL DEF Spec, OthersUnharmed

(* Within the stake time an account burns down to the target, and no        *)
(* further but for rounding.                                               *)
THEOREM StakeTimeHolds == Spec => NoExitBeforeStakeTime
<1>1. ASSUME IInv, IInv', [Next]_vars
      PROVE  \A a \in Account :
               debt' < debt /\ shares'[a] < shares[a] /\ now < lastIssue[a] + MinimumStakeTime
               => debtBalanceOf(a)' >= maxIssuableSynths(_collateral(a)) - Slack
  BY <1>1, NoExit
<1>2. QED
  BY <1>1, IssuanceInvariant, PTL DEF Spec, NoExitBeforeStakeTime
=============================================================================
