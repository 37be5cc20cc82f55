------------------------------ MODULE Issuance ------------------------------
(***************************************************************************)
(* Issuer.sol (accounts, debt shares, liquidation), Liquidator.sol, the    *)
(* HZN token of BaseSynthetix.sol and LiquidatorRewards: collateral and    *)
(* debt of each account.  HZN is liquid, in escrow, or earned and not yet  *)
(* paid; the debt of an account is its part of the debt of all, by shares. *)
(* The ratio of debt to shares is that of OneNetAggregatorDebtRatio, read  *)
(* at each call.  A liquidation takes shares and HZN and leaves the synths *)
(* in circulation: the others take over the debt, and the HZN.             *)
(*                                                                         *)
(* Left to other modules: the histories of the shares, the cache, and the  *)
(* settlement before a burn (DebtMoves stands for what it changes).  Who   *)
(* burns is taken to have the zUSD.  When a probe breaks a circuit is left *)
(* open (CircuitBreaker says when), and so is when a rate is stale.        *)
(***************************************************************************)
EXTENDS Sums, LiquidatorRewards

CONSTANTS
  PreciseUnit,              \* 1.0 of the ratio of debt to shares
  Nobody,                   \* no account
  Price,                    \* prices of HZN
  FirstHZN, FirstEscrow, FirstDebt,  \* what each account begins with
  IssuanceRatio, LiquidationRatio, SnxLiquidationPenalty, SelfLiquidationPenalty,
  FlagReward, LiquidateReward, MinimumStakeTime, LiquidationDelay,  \* settings
  Amount,                   \* zUSD issued and burned
  TransferAmount,           \* HZN transferred
  DebtChange,               \* by how much synth prices move the debt
  Migration,                \* debt shares that arrive from the other chain, with as much HZN
  MaxDebt, MaxTime, MaxCalls  \* bounds

ASSUME RatioAssumption ==
  /\ PreciseUnit \in Nat \ {0} /\ Nobody \notin Account
  /\ {IssuanceRatio, LiquidationRatio, SnxLiquidationPenalty, SelfLiquidationPenalty} \subseteq Nat
  /\ IssuanceRatio > 0 /\ LiquidationRatio > IssuanceRatio /\ LiquidationDelay > 0
  /\ (Unit + SnxLiquidationPenalty) * IssuanceRatio < Unit * Unit
  /\ (Unit + SelfLiquidationPenalty) * IssuanceRatio < Unit * Unit
ASSUME IssuanceAmountAssumption ==
  /\ Price \subseteq Nat \ {0} /\ Price # {}
  /\ Amount \cup TransferAmount \cup DebtChange \cup Migration \subseteq Nat \ {0}
  /\ {FirstHZN, FirstEscrow, FirstDebt, FlagReward, LiquidateReward, MinimumStakeTime,
      LiquidationDelay, MaxDebt, MaxTime, MaxCalls} \subseteq Nat

\* The accounts that ever take part, and bounds that admit the first state.
ASSUME IssuanceAccountAssumption == IsFiniteSet(Account)
ASSUME FirstAssumption == MaxTime > 0 /\ SumOf([a \in Account |-> FirstDebt]) <= MaxDebt

VARIABLES
  hzn,           \* balances of liquid HZN
  escrow,        \* balances in RewardEscrowV2
  rewardTokens,  \* the HZN LiquidatorRewards holds
  rewards,       \* the storage of LiquidatorRewards
  shares,        \* debt shares
  debt,          \* the debt they stand for, all synths at their prices
  price,         \* of HZN
  broken,        \* oracles whose circuit is broken, or whose rate is stale
  now,           \* block.timestamp
  lastIssue,     \* lastIssueEvent
  deadline,      \* of a flagged account; 0 when it is not flagged
  caller,        \* who flagged it
  migrated,      \* history: the accounts whose shares came without updateEntry
  calls          \* how many there were, for the bound

tokenVars == <<hzn, escrow, rewardTokens, rewards>>
shareVars == <<shares, debt, lastIssue>>
oracleVars == <<price, broken, now>>
flagVars == <<deadline, caller>>
vars == <<tokenVars, shareVars, oracleVars, flagVars, migrated, calls>>

Oracle == {"HZN", "DebtRatio"}

Init ==
  /\ hzn = [a \in Account |-> FirstHZN]
  /\ escrow = [a \in Account |-> FirstEscrow]
  /\ rewardTokens = 0
  /\ rewards = [NewRewards EXCEPT !.initiated = IF FirstDebt > 0 THEN Account ELSE {}]
  /\ shares = [a \in Account |-> FirstDebt]
  /\ debt = SumOf(shares)
  /\ price \in Price
  /\ broken = {}
  /\ now = 1
  /\ lastIssue = [a \in Account |-> 0]
  /\ deadline = [a \in Account |-> 0]
  /\ caller = [a \in Account |-> Nobody]
  /\ migrated = {}
  /\ calls = 0

-----------------------------------------------------------------------------
(* Debt, collateral and their ratio *)

totalShares == SumOf(shares)

rawDebtRatio == IF totalShares = 0 THEN PreciseUnit
                ELSE divideDecimalRound(debt, totalShares, PreciseUnit)

_sharesForDebt(amount) ==
  IF rawDebtRatio = 0 THEN 0 ELSE divideDecimalRound(amount, rawDebtRatio, PreciseUnit)

debtBalanceOf(a) == multiplyDecimalRound(shares[a], rawDebtRatio, PreciseUnit)

_snxToUSD(amount) == multiplyDecimalRound(amount, price, Unit)
_usdToSnx(amount) == divideDecimalRound(amount, price, Unit)

_collateral(a) == hzn[a] + escrow[a] + earned(rewards, a, shares[a])

maxIssuableSynths(collateral) == multiplyDecimal(_snxToUSD(collateral), IssuanceRatio, Unit)

collateralisationRatio(owed, collateral) ==
  IF collateral = 0 THEN 0 ELSE divideDecimalRound(_usdToSnx(owed), collateral, Unit)

Lesser(x, y) == IF x < y THEN x ELSE y

-----------------------------------------------------------------------------
(* Issuing and burning *)

_verifyCircuitBreakers == broken # {}

\* _addToDebtRegister: when the amount rounds to no shares, the amount is minted.
SharesMinted(amount) == IF _sharesForDebt(amount) = 0 THEN amount ELSE _sharesForDebt(amount)

EntryAtIssue(a, minted) == updateEntry(rewards, a, shares[a])

\* _issueSynths, after the check of the amount
Issued(a, amount) ==
  /\ ~_verifyCircuitBreakers
  /\ debt + amount <= MaxDebt
  /\ rewards' = EntryAtIssue(a, SharesMinted(amount))
  /\ shares' = [shares EXCEPT ![a] = @ + SharesMinted(amount)]
  /\ lastIssue' = [lastIssue EXCEPT ![a] = now]
  /\ debt' = debt + amount
  /\ UNCHANGED <<hzn, escrow, rewardTokens, oracleVars, flagVars, migrated>>

\* A slip: what was issued before is forgotten.
MaxIssuableAgain(a) == maxIssuableSynths(_collateral(a))

remainingIssuableSynths(a) == floorsub(maxIssuableSynths(_collateral(a)), debtBalanceOf(a))

issueSynths(a, amount) ==
  /\ amount <= remainingIssuableSynths(a)
  /\ Issued(a, amount)

\* With nothing left to issue, the time of the issue is recorded all the same.
issueMaxSynths(a) == Issued(a, remainingIssuableSynths(a))

EntryAtBurn(a) == updateEntry(rewards, a, shares[a])

\* _removeFromDebtRegister
SharesBurned(a, amount) ==
  IF amount = debtBalanceOf(a) THEN shares[a] ELSE Lesser(_sharesForDebt(amount), shares[a])

\* _burnSynths, and the end of _voluntaryBurnSynths
Burned(a, amount) ==
  LET existing == debtBalanceOf(a)
      burnt    == Lesser(existing, amount)
  IN  /\ ~_verifyCircuitBreakers
      /\ existing > 0
      /\ burnt <= debt
      /\ rewards' = EntryAtBurn(a)
      /\ shares' = [shares EXCEPT ![a] = @ - SharesBurned(a, burnt)]
      /\ debt' = debt - burnt
      /\ deadline' = IF existing - burnt <= maxIssuableSynths(_collateral(a))
                       THEN [deadline EXCEPT ![a] = 0] ELSE deadline
      /\ UNCHANGED <<hzn, escrow, rewardTokens, lastIssue, oracleVars, caller, migrated>>

\* A slip: the stake time is not looked at.
CanAlwaysBurn(a) == TRUE

canBurnSynths(a) == now >= lastIssue[a] + MinimumStakeTime

burnSynths(a, amount) == canBurnSynths(a) /\ Burned(a, amount)

burnSynthsToTarget(a) ==
  LET target == maxIssuableSynths(_collateral(a))
  IN  target <= debtBalanceOf(a) /\ Burned(a, debtBalanceOf(a) - target)

\* Issuing and burning probe both oracles and return without effect when one
\* is broken.
stoppedByBreaker ==
  \E oracle \in Oracle \ broken :
    /\ broken' = broken \cup {oracle}
    /\ UNCHANGED <<tokenVars, shareVars, price, now, flagVars, migrated>>

-----------------------------------------------------------------------------
(* Flags *)

rateIsInvalid == "HZN" \in broken

rewardsSum == FlagReward + LiquidateReward

flagAccountForLiquidation(a, sender) ==
  /\ ~rateIsInvalid
  /\ deadline[a] = 0
  /\ collateralisationRatio(debtBalanceOf(a), _collateral(a)) >= LiquidationRatio
  /\ _collateral(a) >= rewardsSum
  /\ deadline' = [deadline EXCEPT ![a] = now + LiquidationDelay]
  /\ caller' = [caller EXCEPT ![a] = sender]
  /\ UNCHANGED <<tokenVars, shareVars, oracleVars, migrated>>

\* The caller is kept, for the flag reward.
checkAndRemoveAccountInLiquidation(a) ==
  /\ ~rateIsInvalid
  /\ deadline[a] > 0
  /\ collateralisationRatio(debtBalanceOf(a), _collateral(a)) <= IssuanceRatio
  /\ deadline' = [deadline EXCEPT ![a] = 0]
  /\ UNCHANGED <<tokenVars, shareVars, oracleVars, caller, migrated>>

-----------------------------------------------------------------------------
(* Liquidation *)

\* calculateAmountToFixCollateral, and when it does not revert
CanFix(owed, value) == multiplyDecimal(value, IssuanceRatio, Unit) <= owed
AmountToFix(owed, value, penalty) ==
  divideDecimal(owed - multiplyDecimal(value, IssuanceRatio, Unit),
                Unit - multiplyDecimal(Unit + penalty, IssuanceRatio, Unit), Unit)

WithPenalty(amount, penalty) == multiplyDecimal(_usdToSnx(amount), Unit + penalty, Unit)

\* In the amounts, "liquid" and "escrowed" are what the account has after its
\* liquidation rewards were paid out to it.

isLiquidationOpen(a, collateral) ==
  /\ collateralisationRatio(debtBalanceOf(a), collateral) > IssuanceRatio
  /\ deadline[a] > 0 /\ now > deadline[a]
  /\ collateral >= rewardsSum

isSelfLiquidationOpen(a, collateral) ==
  LET ratio == collateralisationRatio(debtBalanceOf(a), collateral)
  IN  ratio > IssuanceRatio /\ ratio <= divideDecimal(Unit, Unit + SnxLiquidationPenalty, Unit)

\* A slip: the flag and liquidate rewards are not provided for.
RevokedForTarget(target, liquid) == floorsub(target, liquid)

\* _redeemableCollateralForTarget: the escrow that is revoked
_redeemableCollateralForTarget(target, liquid) == floorsub(target + rewardsSum, liquid)

\* A slip: what is redeemed pays the flagger and the liquidator.
ForcedLessRewards(owed, liquid, escrowed) ==
  LET collateral == liquid + escrowed
      removed    == AmountToFix(owed, _snxToUSD(collateral - rewardsSum), SnxLiquidationPenalty)
      target     == floorsub(WithPenalty(removed, SnxLiquidationPenalty), rewardsSum)
  IN  IF target + rewardsSum >= collateral
        THEN [redeemed |-> collateral - rewardsSum, escrowed |-> escrowed, removed |-> owed]
        ELSE [ redeemed |-> target,
               escrowed |-> _redeemableCollateralForTarget(target, liquid),
               removed  |-> removed ]

\* _liquidationAmounts of a forced liquidation: wipe out the account, or take
\* what is needed.
ForcedAmounts(owed, liquid, escrowed) ==
  LET collateral == liquid + escrowed
      removed    == AmountToFix(owed, _snxToUSD(collateral - rewardsSum), SnxLiquidationPenalty)
      target     == WithPenalty(removed, SnxLiquidationPenalty)
  IN  IF target + rewardsSum >= collateral
        THEN [redeemed |-> collateral - rewardsSum, escrowed |-> escrowed, removed |-> owed]
        ELSE [ redeemed |-> target,
               escrowed |-> _redeemableCollateralForTarget(target, liquid),
               removed  |-> removed ]

\* Of a self liquidation: nothing from the escrow.
SelfAmounts(owed, liquid, escrowed) ==
  LET toFix    == AmountToFix(owed, _snxToUSD(liquid + escrowed), SelfLiquidationPenalty)
      redeemed == Lesser(WithPenalty(toFix, SelfLiquidationPenalty), liquid)
  IN  [ redeemed |-> redeemed,
        escrowed |-> 0,
        removed  |-> Lesser(divideDecimal(_snxToUSD(redeemed), Unit + SelfLiquidationPenalty, Unit),
                            toFix) ]

Transferred(balance, from, to, amount) ==
  [[balance EXCEPT ![from] = @ - amount] EXCEPT ![to] = @ + amount]

\* What both kinds of liquidation do: pay the rewards the account earned into
\* its escrow, take shares, revoke escrow, pay flagger and liquidator, and send
\* the rest to LiquidatorRewards.
Liquidated(a, amounts, paidOut) ==
  LET reward == rewardPaid(rewards, a, shares[a])
      burnt  == SharesBurned(a, amounts.removed)
      entry  == updateEntry(getReward(rewards, a, shares[a]), a, shares[a])
  IN  /\ reward <= rewardTokens
      /\ paidOut[a] >= amounts.redeemed
      /\ escrow' = [escrow EXCEPT ![a] = @ + reward - amounts.escrowed]
      /\ hzn' = [paidOut EXCEPT ![a] = @ - amounts.redeemed]
      /\ rewardTokens' = rewardTokens - reward + amounts.redeemed
      /\ shares' = [shares EXCEPT ![a] = @ - burnt]
      /\ rewards' = IF amounts.redeemed > 0
                      THEN notifyRewardAmount(entry, amounts.redeemed, totalShares - burnt)
                      ELSE entry
      /\ UNCHANGED <<debt, lastIssue, oracleVars, caller, migrated>>

EscrowAfterReward(a) == escrow[a] + rewardPaid(rewards, a, shares[a])

liquidateDelinquentAccount(a, liquidator) ==
  LET owed     == debtBalanceOf(a)
      escrowed == EscrowAfterReward(a)
      amounts  == ForcedAmounts(owed, hzn[a], escrowed)
      revoked  == [hzn EXCEPT ![a] = @ + amounts.escrowed]
      flagPaid == Transferred(revoked, a, caller[a], FlagReward)
      paidOut  == Transferred(flagPaid, a, liquidator, LiquidateReward)
  IN  /\ ~rateIsInvalid
      /\ isLiquidationOpen(a, hzn[a] + escrowed)
      /\ CanFix(owed, _snxToUSD((hzn[a] + escrowed) - rewardsSum))
      /\ amounts.escrowed <= escrowed
      /\ revoked[a] >= FlagReward
      /\ flagPaid[a] >= LiquidateReward
      /\ Liquidated(a, amounts, paidOut)
      /\ deadline' = [deadline EXCEPT ![a] = 0]

\* The flag stays.
liquidateSelf(a) ==
  LET owed     == debtBalanceOf(a)
      escrowed == EscrowAfterReward(a)
      amounts  == SelfAmounts(owed, hzn[a], escrowed)
  IN  /\ ~rateIsInvalid
      /\ isSelfLiquidationOpen(a, hzn[a] + escrowed)
      /\ CanFix(owed, _snxToUSD(hzn[a] + escrowed))
      /\ amounts.removed > 0
      /\ Liquidated(a, amounts, hzn)
      /\ UNCHANGED deadline

-----------------------------------------------------------------------------
(* Rewards, escrow, transfers, the world outside *)

payReward(a) ==
  LET reward == rewardPaid(rewards, a, shares[a])
  IN  /\ reward <= rewardTokens
      /\ rewards' = getReward(rewards, a, shares[a])
      /\ rewardTokens' = rewardTokens - reward
      /\ escrow' = [escrow EXCEPT ![a] = @ + reward]
      /\ UNCHANGED <<hzn, shareVars, oracleVars, flagVars, migrated>>

\* Anyone may call it, for any account.
updateAnyEntry(a) ==
  /\ rewards' = updateEntry(rewards, a, shares[a])
  /\ UNCHANGED <<hzn, escrow, rewardTokens, shareVars, oracleVars, flagVars, migrated>>

\* The entries of an account are due together.
vest(a) ==
  /\ escrow[a] > 0
  /\ hzn' = [hzn EXCEPT ![a] = @ + escrow[a]]
  /\ escrow' = [escrow EXCEPT ![a] = 0]
  /\ UNCHANGED <<rewardTokens, rewards, shareVars, oracleVars, flagVars, migrated>>

transferableSynthetix(a) ==
  floorsub(hzn[a], divideDecimalRound(_usdToSnx(debtBalanceOf(a)), IssuanceRatio, Unit))

transfer(from, to, amount) ==
  /\ amount <= hzn[from]
  /\ debtBalanceOf(from) > 0 => ~rateIsInvalid /\ amount <= transferableSynthetix(from)
  /\ hzn' = Transferred(hzn, from, to, amount)
  /\ UNCHANGED <<escrow, rewardTokens, rewards, shareVars, oracleVars, flagVars, migrated>>

\* DebtMigratorOnOptimism.finalizeDebtMigration: the shares are minted, and
\* escrow created, without a word to LiquidatorRewards.  Once, for the bound.
finalizeDebtMigration(a, amount) ==
  LET moved == multiplyDecimalRound(amount, rawDebtRatio, PreciseUnit)
  IN  /\ migrated = {}
      /\ debt + moved <= MaxDebt
      /\ shares' = [shares EXCEPT ![a] = @ + amount]
      /\ debt' = debt + moved
      /\ hzn' = [hzn EXCEPT ![a] = @ + amount]
      /\ migrated' = migrated \cup {a}
      /\ UNCHANGED <<escrow, rewardTokens, rewards, lastIssue, oracleVars, flagVars>>

\* The debt does not vanish by prices alone: zUSD keeps its own.
DebtMoves(amount) ==
  /\ \/ debt > 0 /\ debt + amount <= MaxDebt /\ debt' = debt + amount
     \/ debt > amount /\ debt' = debt - amount
  /\ UNCHANGED <<tokenVars, shares, lastIssue, oracleVars, flagVars, migrated>>

PriceMoves ==
  /\ price' \in Price \ {price}
  /\ UNCHANGED <<tokenVars, shareVars, broken, now, flagVars, migrated>>

\* Breakers are reset by the owner, a late oracle reports.
rateRecovers ==
  /\ \E oracle \in broken : broken' = broken \ {oracle}
  /\ UNCHANGED <<tokenVars, shareVars, price, now, flagVars, migrated>>

TimePasses ==
  /\ now < MaxTime
  /\ now' = now + 1
  /\ UNCHANGED <<tokenVars, shareVars, price, broken, flagVars, migrated>>

Call ==
  \/ \E a \in Account : \/ \E n \in Amount : issueSynths(a, n) \/ burnSynths(a, n)
                        \/ issueMaxSynths(a)
                        \/ burnSynthsToTarget(a)
                        \/ checkAndRemoveAccountInLiquidation(a)
                        \/ liquidateSelf(a)
                        \/ payReward(a)
                        \/ updateAnyEntry(a)
                        \/ vest(a)
                        \/ \E n \in Migration : finalizeDebtMigration(a, n)
  \/ \E a, b \in Account : \/ flagAccountForLiquidation(a, b)
                           \/ liquidateDelinquentAccount(a, b)
                           \/ a # b /\ \E n \in TransferAmount : transfer(a, b, n)
  \/ \E n \in DebtChange : DebtMoves(n)
  \/ stoppedByBreaker
  \/ rateRecovers

Next ==
  \/ calls < MaxCalls /\ calls' = calls + 1 /\ Call
  \/ (PriceMoves \/ TimePasses) /\ UNCHANGED calls

Spec == Init /\ [][Next]_vars

-----------------------------------------------------------------------------
(* Properties *)

(* Every variable has its type; what flags an account is another account.   *)
TypeOK ==
  /\ {hzn, escrow, shares} \subseteq [Account -> Nat]
  /\ rewardTokens \in Nat /\ rewards \in Rewards
  /\ debt \in 0 .. MaxDebt /\ price \in Price /\ broken \subseteq Oracle
  /\ now \in 1 .. MaxTime
  /\ lastIssue \in [Account -> 0 .. MaxTime]
  /\ deadline \in [Account -> 0 .. MaxTime + LiquidationDelay]
  /\ caller \in [Account -> Account \cup {Nobody}]
  /\ migrated \subseteq Account
  /\ \A a \in Account : deadline[a] > 0 => caller[a] \in Account

\* What rounding may add up to: the debt of a share, what the last digit of the
\* ratio is worth to all shares, and some.
Slack == (rawDebtRatio + totalShares) \div PreciseUnit + 2

\* With HZN: what the last digit of the accumulator is worth to all shares, too.
RewardSlack == Slack + _snxToUSD(totalShares \div Unit + 3) + 1

(* LiquidatorRewards holds what all accounts earned: whatever shares are    *)
(* issued, burned and liquidated between rewards, nobody earns from before  *)
(* his shares, and no payment fails (without it every liquidation of that   *)
(* account would).  Not after debt was migrated: see UpdatedWithShares.     *)
RewardsCovered ==
  migrated = {} =>
    SumOf([a \in Account |-> earned(rewards, a, shares[a])]) <= rewardTokens

(* An account that is open for liquidation can be liquidated: what fixes its *)
(* ratio is not negative, and it has the escrow that is revoked and, with   *)
(* it, the HZN of the flagger, the liquidator and LiquidatorRewards         *)
(* (BaseSynthetix.sol:395, "to avoid edge cases").                          *)
LiquidationCanPay ==
  \A a \in Account :
    LET liquid   == hzn[a]
        escrowed == EscrowAfterReward(a)
        amounts  == ForcedAmounts(debtBalanceOf(a), liquid, escrowed)
    IN  isLiquidationOpen(a, liquid + escrowed)
        => /\ CanFix(debtBalanceOf(a), _snxToUSD(liquid + escrowed - rewardsSum))
           /\ amounts.escrowed <= escrowed
           /\ amounts.redeemed + rewardsSum <= liquid + amounts.escrowed

(* Nothing is promised that the contracts cannot pay.                       *)
PromisesCovered == TypeOK /\ RewardsCovered /\ LiquidationCanPay

(* Issuing does not take an account beyond the issuance ratio, but for       *)
(* rounding.  Whoever issues first after all shares are gone gets the debt  *)
(* that was left (Issuer.sol:938), and who issues less than half a share is *)
(* worth gets more shares (Issuer.sol:940).                                 *)
IssuedWithinRatio(a) ==
  /\ shares'[a] > shares[a] /\ a \notin migrated'
  /\ totalShares > 0 \/ debt = 0
  /\ _sharesForDebt(debt' - debt) > 0
  => debtBalanceOf(a)' <= maxIssuableSynths(_collateral(a))' + Slack'

(* Nor does sending HZN, but for the smallest part of HZN.                  *)
SentWithinRatio(a) ==
  /\ hzn'[a] < hzn[a] /\ UNCHANGED <<rewards, rewardTokens, deadline>>
  => debtBalanceOf(a)' <= maxIssuableSynths(_collateral(a))' + _snxToUSD(1)' + 1

(* Neither issuing nor transferring takes an account beyond the ratio.      *)
RatioRespected == [][\A a \in Account : IssuedWithinRatio(a) /\ SentWithinRatio(a)]_vars

(* Issuing and burning leave what the others owe, but for rounding: the     *)
(* shares that are minted or burned are those of the debt at the ratio,     *)
(* unless what is issued is less than half a share.                         *)
OthersOweTheSame ==
  \A a \in Account :
    /\ debt' # debt /\ shares' # shares /\ shares'[a] = shares[a]
    /\ debt' > debt => _sharesForDebt(debt' - debt) > 0
    => /\ debtBalanceOf(a)' <= debtBalanceOf(a) + Slack
       /\ debtBalanceOf(a) <= debtBalanceOf(a)' + Slack

NetWorth(a) == _snxToUSD(_collateral(a)) - debtBalanceOf(a)

(* The others take over the debt of a liquidated account and do not lose by *)
(* it, but for rounding, unless it is wiped out: the HZN they earn is worth *)
(* at least the debt.                                                       *)
OthersDoNotLose ==
  \A a, b \in Account :
    a # b /\ debt' = debt /\ shares'[a] < shares[a] /\ shares'[a] > 0
    => NetWorth(b)' >= NetWorth(b) - RewardSlack

(* What one account does with its debt is never at the cost of another: in  *)
(* a step of an account, the others owe the same, or do not lose by it.     *)
OthersUnharmed == [][OthersOweTheSame /\ OthersDoNotLose]_vars

(* Within the stake time an account can burn down to the target, no further.*)
NoExitBeforeStakeTime ==
  [][\A a \in Account :
       debt' < debt /\ shares'[a] < shares[a] /\ now < lastIssue[a] + MinimumStakeTime
       => debtBalanceOf(a)' >= maxIssuableSynths(_collateral(a)) - Slack]_vars

(* The entry of an account is updated whenever its shares change            *)
(* (LiquidatorRewards.sol:105, "called every time a user's number of debt   *)
(* shares changes").  This does not hold when shares arrive by migration.   *)
UpdatedWithShares ==
  [][\A a \in Account :
       shares'[a] # shares[a] => rewards'.entries[a].accumulated = rewards.accumulated]_vars
=============================================================================
