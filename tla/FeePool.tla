------------------------------- MODULE FeePool -------------------------------
(***************************************************************************)
(* contracts/FeePool.sol over SynthetixDebtShare: the fee periods, what    *)
(* they have to distribute, and who has claimed.  The current period       *)
(* collects; the one before it is claimed from, by the shares accounts     *)
(* owned in it; a close rolls what was not claimed over to the period it   *)
(* closes.  Rewards are tokens that RewardsDistribution sends to           *)
(* RewardEscrowV2 before it reports them here; a claim turns them into a   *)
(* vesting entry.  Fees are burned at the close (Exchanger has that burn). *)
(*                                                                         *)
(* Whether the collateral ratio of an account lets it claim is left open:  *)
(* any account may.  The setup import of old periods is left out.          *)
(***************************************************************************)
EXTENDS SynthetixDebtShare, SafeDecimalMath

CONSTANTS
  Unit,               \* 1.0
  RewardAmount,       \* rewards and fees reported to the pool
  FeePeriodDuration,  \* a setting
  RewardCap,          \* bound on the rewards ever sent
  FeeCap,             \* bound on the fees of both periods
  SameSecondRelay     \* may the relayer close a period in the second it began?

\* The clock starts at 2: see PoolInit.
ASSUME ClockAssumption == MaxPeriodId >= 2
ASSUME PoolUnitAssumption == Unit \in Nat \ {0}
ASSUME RewardAssumption == /\ RewardAmount \subseteq Nat \ {0}
                           /\ {RewardCap, FeeCap} \subseteq Nat
                           /\ FeePeriodDuration \in Nat \ {0}
                           /\ SameSecondRelay \in BOOLEAN

\* The shares are those of SynthetixDebtShare, its variables among ours.
VARIABLES
  now,                \* block.timestamp
  recentFeePeriods,   \* the ring of fee periods
  currentFeePeriod,   \* where in the ring the current one is
  lastFeeWithdrawal,  \* per account, the id of the period it last claimed from
  escrowTokens,       \* the tokens RewardEscrowV2 holds
  escrowed            \* per account, its vesting entries in all

poolVars == <<recentFeePeriods, currentFeePeriod, lastFeeWithdrawal>>
escrowVars == <<escrowTokens, escrowed>>
systemVars == <<vars, now, poolVars, escrowVars>>

FEE_PERIOD_LENGTH == 2
Index == 0 .. FEE_PERIOD_LENGTH - 1

FeePeriod == [ feePeriodId : Nat, startTime : Nat, feesToDistribute : Nat, feesClaimed : Nat,
               rewardsToDistribute : Nat, rewardsClaimed : Nat ]

NoPeriod == [ feePeriodId |-> 0, startTime |-> 0, feesToDistribute |-> 0, feesClaimed |-> 0,
              rewardsToDistribute |-> 0, rewardsClaimed |-> 0 ]

\* _recentFeePeriodsStorage: 0 is the current period, 1 the one to claim from.
Slot(index) == (currentFeePeriod + index) % FEE_PERIOD_LENGTH
Recent(index) == recentFeePeriods[Slot(index)]

\* The operators were authorised before; SynthetixDebtShare has those calls.
PoolInit ==
  /\ balances = [a \in Account |-> <<>>]
  /\ totalSupplyOnPeriod = [p \in PeriodId |-> 0]
  /\ currentPeriodId = 1
  /\ authorizedBrokers = Operator
  /\ authorizedToSnapshot = Operator
  /\ isInitialized = FALSE
  /\ now = 2
  /\ recentFeePeriods = [i \in Index |-> IF i = 0 THEN [NoPeriod EXCEPT !.feePeriodId = 1, !.startTime = now]
                                         ELSE NoPeriod]
  /\ currentFeePeriod = 0
  /\ lastFeeWithdrawal = [a \in Account |-> 0]
  /\ escrowTokens = 0
  /\ escrowed = [a \in Account |-> 0]

-----------------------------------------------------------------------------
(* What an account may claim *)

\* sharePercentOnPeriod, and when it does not revert.
ShareReadable(a, id) ==
  LET balance == balanceOfOnPeriod(a, id)
  IN  /\ balance # Reverts
      /\ balance = 0 \/ totalSupplyOnPeriod[id] > 0

\* (A slip: by what is owned now.)
sharePercentNow(a, id) ==
  LET balance == balanceOf(a)
  IN  IF balance = 0 THEN 0 ELSE divideDecimal(balance, totalSupply, Unit)

sharePercentOnPeriod(a, id) ==
  LET balance == balanceOfOnPeriod(a, id)
  IN  IF balance = 0 THEN 0 ELSE divideDecimal(balance, totalSupplyOnPeriod[id], Unit)

\* What the shares of an account are worth of the period that was closed.
Entitlement(a) ==
  LET period  == Recent(1)
      percent == IF period.feePeriodId = 0 THEN 0 ELSE sharePercentOnPeriod(a, period.feePeriodId)
  IN  [ fees    |-> multiplyDecimal(period.feesToDistribute, percent, Unit),
        rewards |-> multiplyDecimal(period.rewardsToDistribute, percent, Unit) ]

\* A slip: a claim is not looked for.
feesAvailableAlways(a) == Entitlement(a)

feesAvailable(a) ==
  IF lastFeeWithdrawal[a] < Recent(1).feePeriodId THEN Entitlement(a)
  ELSE [fees |-> 0, rewards |-> 0]

-----------------------------------------------------------------------------
(* Periods *)

recordFeePaid(n) ==
  /\ Recent(0).feesToDistribute + Recent(1).feesToDistribute + n <= FeeCap
  /\ recentFeePeriods' = [recentFeePeriods EXCEPT ![Slot(0)].feesToDistribute = @ + n]
  /\ UNCHANGED <<vars, now, currentFeePeriod, lastFeeWithdrawal, escrowVars>>

\* RewardsDistribution.distributeRewards, the part that is left for stakers:
\* the tokens go to the escrow, then the pool is told.
distributeRewards(n) ==
  /\ escrowTokens + n <= RewardCap
  /\ escrowTokens' = escrowTokens + n
  /\ recentFeePeriods' = [recentFeePeriods EXCEPT ![Slot(0)].rewardsToDistribute = @ + n]
  /\ UNCHANGED <<vars, now, currentFeePeriod, lastFeeWithdrawal, escrowed>>

\* Issuer.setCurrentPeriodId
setCurrentPeriodId(id) ==
  IF currentPeriodId < id THEN takeSnapshot(Issuer, id) ELSE UNCHANGED vars

\* The period that is closed takes over what is left of the oldest one, and its
\* fees count as claimed: they are burned.
Closed(closing, oldest) ==
  LET fees == oldest.feesToDistribute - oldest.feesClaimed + closing.feesToDistribute
  IN  [closing EXCEPT
         !.feesToDistribute    = fees,
         !.feesClaimed         = IF fees > 0 THEN fees ELSE @,
         !.rewardsToDistribute = oldest.rewardsToDistribute - oldest.rewardsClaimed + @]

\* The slot of the oldest period becomes that of the new one.
_closeSecondary ==
  /\ currentFeePeriod' = (currentFeePeriod + FEE_PERIOD_LENGTH - 1) % FEE_PERIOD_LENGTH
  /\ recentFeePeriods' =
       [recentFeePeriods EXCEPT
          ![Slot(0)] = Closed(Recent(0), Recent(FEE_PERIOD_LENGTH - 1)),
          ![Slot(FEE_PERIOD_LENGTH - 1)] = [NoPeriod EXCEPT !.feePeriodId = now, !.startTime = now]]
  /\ setCurrentPeriodId(now)
  /\ UNCHANGED <<now, lastFeeWithdrawal, escrowVars>>

closeCurrentFeePeriod ==
  /\ Recent(0).startTime <= now - FeePeriodDuration
  /\ _closeSecondary

\* By the bridge, for a close on the other chain: at any time.
closeSecondary ==
  /\ SameSecondRelay \/ Recent(0).startTime < now
  /\ _closeSecondary

-----------------------------------------------------------------------------
(* Claims *)

Lesser(x, y) == IF x < y THEN x ELSE y

\* _recordRewardPayment: from the oldest period to the newest, as far as there
\* is something left.
FromOldest(n)  == Lesser(Recent(1).rewardsToDistribute - Recent(1).rewardsClaimed, n)
FromCurrent(n) == Lesser(Recent(0).rewardsToDistribute - Recent(0).rewardsClaimed, n - FromOldest(n))

claimFees(a) ==
  LET available == feesAvailable(a)
      paid      == FromOldest(available.rewards) + FromCurrent(available.rewards)
      unclaimed == Recent(1).feePeriodId > lastFeeWithdrawal[a]
  IN  /\ unclaimed => ShareReadable(a, Recent(1).feePeriodId)
      /\ available.fees > 0 \/ available.rewards > 0
      /\ SumOf(escrowed) + paid <= escrowTokens
      /\ lastFeeWithdrawal' = [lastFeeWithdrawal EXCEPT ![a] = Recent(1).feePeriodId]
      /\ recentFeePeriods' =
           [recentFeePeriods EXCEPT ![Slot(1)].rewardsClaimed = @ + FromOldest(available.rewards),
                                    ![Slot(0)].rewardsClaimed = @ + FromCurrent(available.rewards)]
      /\ escrowed' = [escrowed EXCEPT ![a] = @ + paid]
      /\ UNCHANGED <<vars, now, currentFeePeriod, escrowTokens>>

-----------------------------------------------------------------------------
(* Shares, other snapshots, time *)

SharesMove ==
  /\ \/ \E a \in Account, n \in Amount : mintShare(a, n) \/ burnShare(a, n)
     \/ \E broker \in Operator, from, to \in Account, n \in Amount :
          transferFrom(broker, from, to, n)
  /\ UNCHANGED <<now, poolVars, escrowVars>>

\* Others who may take snapshots use timestamps too.
OtherSnapshot ==
  /\ \E sender \in Operator : takeSnapshot(sender, now)
  /\ UNCHANGED <<now, poolVars, escrowVars>>

TimePasses ==
  /\ now < MaxPeriodId
  /\ now' = now + 1
  /\ UNCHANGED <<vars, poolVars, escrowVars>>

PoolNext ==
  \/ \E n \in RewardAmount : recordFeePaid(n) \/ distributeRewards(n)
  \/ closeCurrentFeePeriod
  \/ closeSecondary
  \/ \E a \in Account : claimFees(a)
  \/ SharesMove
  \/ OtherSnapshot
  \/ TimePasses

PoolSpec == PoolInit /\ [][PoolNext]_systemVars

-----------------------------------------------------------------------------
(* Properties *)

(* Every variable has its type; the period ids of the pool are not ahead of *)
(* the clock, those of the shares not behind those of the pool.             *)
PoolTypeOK ==
  /\ TypeOK
  /\ now \in 2 .. MaxPeriodId
  /\ recentFeePeriods \in [Index -> FeePeriod]
  /\ currentFeePeriod \in Index
  /\ lastFeeWithdrawal \in [Account -> 0 .. MaxPeriodId]
  /\ escrowTokens \in 0 .. RewardCap
  /\ escrowed \in [Account -> Nat]
  /\ Recent(0).feePeriodId <= currentPeriodId /\ currentPeriodId <= now

Unclaimed(index) == Recent(index).rewardsToDistribute - Recent(index).rewardsClaimed

(* The tokens in the escrow are those of the vesting entries and those of   *)
(* both periods that were not claimed, through claims, roll-overs and       *)
(* closes in any order: no reward is lost, none is promised twice, and no   *)
(* claim fails for want of tokens (BaseRewardEscrowV2._appendVestingEntry). *)
EscrowCoversRewards ==
  escrowTokens = SumOf(escrowed) + Unclaimed(0) + Unclaimed(1)

(* An account is paid once for a period, all that its shares are worth, no  *)
(* matter who claimed before it, and out of that period: nothing spills     *)
(* over into the current one, which _recordRewardPayment would allow.       *)
PaidInFullAndOnce ==
  [][\A a \in Account : escrowed'[a] # escrowed[a] =>
       /\ escrowed'[a] - escrowed[a] = Entitlement(a).rewards
       /\ Unclaimed(1) - Unclaimed(1)' = Entitlement(a).rewards
       /\ lastFeeWithdrawal[a] < Recent(1).feePeriodId
       /\ lastFeeWithdrawal'[a] = Recent(1).feePeriodId]_systemVars

\* What the scan of balanceOfOnPeriod gets past: an account with no more
\* checkpoints than it looks at, or with fewer since the period was closed.
LaterCheckpoints(a) ==
  {i \in DOMAIN balances[a] : balances[a][i].periodId > Recent(1).feePeriodId}

Reached(a) ==
  \/ Len(balances[a]) <= MaxPeriodIterate
  \/ Cardinality(LaterCheckpoints(a)) < MaxPeriodIterate

(* Until the next close, nothing changes what there is to claim from the    *)
(* closed period and which part of it an account is entitled to: not        *)
(* minting, burning or moving shares, not snapshots of others, not new fees *)
(* and rewards, not others' claims.  The part of an account is fixed as     *)
(* long as the scan reaches it; when its balance has changed in so many     *)
(* periods since that it does not, the view reverts.                        *)
EntitlementStays ==
  currentFeePeriod' = currentFeePeriod =>
    /\ Recent(1)' = [Recent(1) EXCEPT !.rewardsClaimed = Recent(1).rewardsClaimed']
    /\ Recent(1).feesToDistribute + Recent(1).rewardsToDistribute > 0 =>
         \A a \in Account : Reached(a) /\ Reached(a)' =>
           sharePercentOnPeriod(a, Recent(1).feePeriodId)' = sharePercentOnPeriod(a, Recent(1).feePeriodId)

EntitlementFixed == [][EntitlementStays]_systemVars

(* The shares of the closed period can be read for every account that the   *)
(* scan reaches: no snapshot and no movement of shares leaves it with a     *)
(* period whose supply was not recorded, or a scan that ends too early.     *)
(* Beyond the scan a claim reverts (SynthetixDebtShare.sol:113): those that *)
(* may take snapshots must not take too many (35-37).                       *)
ClosedPeriodReadable ==
  Recent(1).feePeriodId > 0 =>
    \A a \in Account : Reached(a) => ShareReadable(a, Recent(1).feePeriodId)

(* In every state each claim of the closed period by an account that the    *)
(* scan reaches can be carried out: the shares can be read, and the tokens  *)
(* are there.                                                               *)
ClaimsPayable == PoolTypeOK /\ EscrowCoversRewards /\ ClosedPeriodReadable

\* The view for period 1: it reads the ring without its offset.
effectiveDebtRatioForPeriod(a) ==
  IF Recent(0).startTime = 0 \/ recentFeePeriods[1].feePeriodId = 0 THEN 0
  ELSE sharePercentOnPeriod(a, recentFeePeriods[1].feePeriodId)

(* effectiveDebtRatioForPeriod(account, 1) is the share in the period that  *)
(* was closed, never one in a period that is not (FeePool.sol:646, "if      *)
(* period is not closed yet, ... return 0 instead of reverting").  This     *)
(* does not hold after the second close.                                    *)
RatioOfClosedPeriod ==
  \A a \in Account :
    effectiveDebtRatioForPeriod(a) = IF Recent(1).feePeriodId = 0 THEN 0
                                     ELSE sharePercentOnPeriod(a, Recent(1).feePeriodId)
=============================================================================
