------------------------------ MODULE Exchanger ------------------------------
(***************************************************************************)
(* Exchanges and their settlement: contracts/Exchanger.sol with its        *)
(* library ExchangeSettlementLib.sol, the queues of ExchangeState.sol, and *)
(* the ways Synth.sol and Issuer.sol let a balance leave an account.       *)
(*                                                                         *)
(* An exchange is carried out at the current prices and queued; when the   *)
(* waiting period is over, anyone may settle it: what the account should   *)
(* have received at the prices of the end of the period is compared with   *)
(* what it did receive, and the difference is taken or given.  Until then  *)
(* the balance must not leave the account.                                 *)
(*                                                                         *)
(* The debt cache, which some of these calls inform, is in DebtPool.       *)
(* Suspension of single synths or of exchanging, allowances and trading    *)
(* rewards are left out: they only make calls fail, or observe them.       *)
(***************************************************************************)
EXTENDS DynamicFee, FiniteSets, Sums

CONSTANTS
  Account,             \* holders of synths
  FEE_ADDRESS,         \* the address fees are pooled at, which no one owns
  Price,               \* what an aggregator may report
  FirstPrice,          \* the price of each synth at the start
  FirstBalance,        \* the balances at the start
  Amount,              \* amounts passed by callers
  WaitingPeriod,       \* values of the setting waitingPeriodSecs, the first included
  FirstWaitingPeriod,
  ResetValue,          \* what the owner may reset a breaker to
  Suspension,          \* values systemSuspended takes
  maxEntriesInQueue,   \* of ExchangeState
  MaxTime, MaxRounds   \* bounds on the time and on the rounds of each aggregator

Holder == Account \cup {FEE_ADDRESS}

ASSUME HolderAssumption == FEE_ADDRESS \notin Account
ASSUME SynthsFinite == IsFiniteSet(Synth)
ASSUME StartAssumption ==
  /\ Price \subseteq Nat
  /\ FirstPrice \in [Synth -> Nat]
  /\ FirstBalance \in [Holder -> [Synth -> Nat]]
  /\ Amount \subseteq Nat \ {0}
  /\ ResetValue \subseteq Nat
  /\ Suspension \subseteq BOOLEAN
ASSUME SettingAssumption ==
  /\ WaitingPeriod \subseteq Nat
  /\ FirstWaitingPeriod \in WaitingPeriod
  /\ {maxEntriesInQueue, MaxTime, MaxRounds} \subseteq Nat

VARIABLES
  now,               \* block.timestamp
  rounds,            \* the aggregators
  breaker,           \* the circuit breaker of each aggregator
  systemSuspended,   \* SystemStatus.systemSuspension
  waitingPeriod,     \* SystemSettings.waitingPeriodSecs
  balanceOf,         \* the synth tokens' balances
  exchanges,         \* ExchangeState.exchanges[account][dest]
  fees,              \* FeePool: feesToDistribute of the current period
  undisturbed        \* history: nothing yet that settlements need not survive: a
                     \* burn that does not settle, a round in the very second a
                     \* waiting period ends, a new waiting period, a synth other
                     \* than zUSD sent to FEE_ADDRESS

vars == <<now, rounds, breaker, systemSuspended, waitingPeriod, undisturbed, balanceOf, exchanges, fees>>

\* The key an exchange went into is the key of its queue.
ExchangeEntry ==
  [ src : Synth, amount : Nat, amountReceived : Nat, exchangeFeeRate : Nat,
    timestamp : Nat \ {0}, roundIdForSrc : Nat, roundIdForDest : Nat ]

Init ==
  /\ now = 1
  /\ rounds = [k \in Synth |-> IF k = zUSD THEN <<>> ELSE <<[rate |-> FirstPrice[k], time |-> 1]>>]
  /\ breaker = [k \in Synth |-> NewBreaker]
  /\ systemSuspended = FALSE
  /\ waitingPeriod = FirstWaitingPeriod
  /\ balanceOf = FirstBalance
  /\ exchanges = [a \in Holder |-> [k \in Synth |-> <<>>]]
  /\ fees = 0
  /\ undisturbed = TRUE

-----------------------------------------------------------------------------
(* Settlement *)

\* maxSecsLeftInWaitingPeriod = 0
WaitingIsOver(a, k) ==
  \A i \in DOMAIN exchanges[a][k] : now >= exchanges[a][k][i].timestamp + waitingPeriod

\* _getRoundIdsAtPeriodEnd, then the value at these rounds, less the fee.
RoundIdAtPeriodEnd(k, start, e) ==
  getLastRoundIdBeforeElapsedSecs(rounds, k, start, e.timestamp, waitingPeriod)

_deductFeesFromAmount(amount, feeRate) == multiplyDecimal(amount, Unit - feeRate, Unit)

amountShouldHaveReceived(e, k) ==
  _deductFeesFromAmount(
    effectiveValueAtRound(rounds, e.src, e.amount, k,
                          RoundIdAtPeriodEnd(e.src, e.roundIdForSrc, e),
                          RoundIdAtPeriodEnd(k, e.roundIdForDest, e)),
    e.exchangeFeeRate)

\* SIP-65: what deviates too much is settled with neither reclaim nor rebate.
Difference(e, k) ==
  LET should == amountShouldHaveReceived(e, k)
  IN  IF _isDeviationAboveThreshold(e.amountReceived, should) THEN 0
      ELSE should - e.amountReceived

reclaimAmount(a, k) ==
  SumOf([i \in DOMAIN exchanges[a][k] |-> floorsub(0, Difference(exchanges[a][k][i], k))])

rebateAmount(a, k) ==
  SumOf([i \in DOMAIN exchanges[a][k] |-> floorsub(Difference(exchanges[a][k][i], k), 0)])

refunded(a, k)  == floorsub(rebateAmount(a, k), reclaimAmount(a, k))
reclaimed(a, k) == floorsub(reclaimAmount(a, k), rebateAmount(a, k))

\* The balance of a in k when its exchanges are settled, before anything else.
SettledBalance(a, k) == balanceOf[a][k] + rebateAmount(a, k) - reclaimAmount(a, k)

\* A slip: the waiting period is not looked at.
CanSettleEarly(a, k) == balanceOf[a][k] >= reclaimed(a, k)

\* internalSettle does not revert.
CanSettle(a, k) == WaitingIsOver(a, k) /\ balanceOf[a][k] >= reclaimed(a, k)

\* The balances and the queues after a settlement.
Settled(a, k) == [balanceOf EXCEPT ![a][k] = SettledBalance(a, k)]

\* A slip: the entries stay.
EntriesKept(a, k) == exchanges

EntriesRemoved(a, k) == [exchanges EXCEPT ![a][k] = <<>>]

calculateAmountAfterSettlement(a, k, amount) ==
  (IF amount > SettledBalance(a, k) THEN SettledBalance(a, k) ELSE amount) + refunded(a, k)

\* _settleAndCalcSourceAmountRemaining
AmountRemaining(a, k, amount) ==
  IF exchanges[a][k] = <<>> THEN amount ELSE calculateAmountAfterSettlement(a, k, amount)

settle(a, k) ==
  /\ ~systemSuspended
  /\ UNCHANGED <<now, rounds, breaker, systemSuspended, waitingPeriod, undisturbed, fees>>
  /\ exchanges' = EntriesRemoved(a, k)
  /\ CanSettle(a, k)
  /\ balanceOf' = Settled(a, k)

-----------------------------------------------------------------------------
(* Exchanging *)

\* The breakers after the checks of both keys, and what the checks demand.
ProbedBreakers(src, dest) ==
  [k \in Synth |-> IF k \in Priced({src, dest}) THEN Probed(breaker, rounds, k, systemSuspended)
                   ELSE breaker[k]]

NoneBroken(src, dest) == \A k \in Priced({src, dest}) : ~ProbedBreakers(src, dest)[k].broken

\* _ensureCanExchange and _ensureCanExchangeAtRound do not revert.
EnsureCanExchange(src, dest) ==
  src # dest /\ \A k \in Priced({src, dest}) : ~StaleNow(rounds, k, now)

EnsureCanExchangeAtRound(src, dest) ==
  ~anyRateIsInvalidAtRound(rounds, ProbedBreakers(src, dest),
                           [k \in {src, dest} |-> _getCurrentRoundId(rounds, k)], now)

FeeRate(src, dest) ==
  _feeRateForExchangeAtRounds(rounds, src, dest,
                              _getCurrentRoundId(rounds, src), _getCurrentRoundId(rounds, dest))

\* The call returns without an exchange.  What was done before stays: the
\* breakers, and from the second case on the settlement of the source.
StoppedByBreaker(src, dest) ==
  /\ ~NoneBroken(src, dest)
  /\ breaker' = ProbedBreakers(src, dest)
  /\ UNCHANGED <<balanceOf, exchanges, fees>>

OnlySettled(from, src, amount, dest) ==
  /\ NoneBroken(src, dest)
  /\ CanSettle(from, src)
  /\ \/ AmountRemaining(from, src, amount) = 0
     \/ EnsureCanExchangeAtRound(src, dest) /\ FeeRate(src, dest).tooVolatile
  /\ breaker' = ProbedBreakers(src, dest)
  /\ balanceOf' = Settled(from, src)
  /\ exchanges' = EntriesRemoved(from, src)
  /\ UNCHANGED fees

Credited(b, a, k, n) == [b EXCEPT ![a][k] = @ + n]
Debited(b, a, k, n) == [b EXCEPT ![a][k] = @ - n]

\* The exchange itself.  Fees are issued to FEE_ADDRESS in zUSD and recorded;
\* what a holder sends to FEE_ADDRESS is recorded on top.
Exchanged(from, src, amount, dest, to) ==
  LET n         == AmountRemaining(from, src, amount)
      feeRate   == FeeRate(src, dest).rate
      value     == effectiveValue(rounds, src, n, dest)
      received  == _deductFeesFromAmount(value, feeRate)
      fee       == effectiveValue(rounds, dest, value - received, zUSD)
      converted == Credited(Debited(Settled(from, src), from, src, n), to, dest, received)
      entry     == [ src |-> src, amount |-> n, amountReceived |-> received,
                     exchangeFeeRate |-> feeRate, timestamp |-> now,
                     roundIdForSrc |-> _getCurrentRoundId(rounds, src),
                     roundIdForDest |-> _getCurrentRoundId(rounds, dest) ]
  IN  /\ NoneBroken(src, dest)
      /\ CanSettle(from, src)
      /\ n > 0
      /\ EnsureCanExchangeAtRound(src, dest)
      /\ ~FeeRate(src, dest).tooVolatile
      /\ feeRate <= Unit
      /\ SettledBalance(from, src) >= n
      /\ waitingPeriod > 0 => Len(exchanges[to][dest]) < maxEntriesInQueue
      /\ breaker' = ProbedBreakers(src, dest)
      /\ balanceOf' = Credited(converted, FEE_ADDRESS, zUSD, fee)
      /\ exchanges' = IF waitingPeriod > 0
                      THEN [EntriesRemoved(from, src) EXCEPT ![to][dest] = Append(@, entry)]
                      ELSE EntriesRemoved(from, src)
      /\ fees' = fees + fee + (IF to = FEE_ADDRESS THEN received ELSE 0)

\* Exchanger.exchange, past the access checks.
Exchanging(from, src, amount, dest, to) ==
  /\ EnsureCanExchange(src, dest)
  /\ \/ StoppedByBreaker(src, dest)
     \/ OnlySettled(from, src, amount, dest)
     \/ Exchanged(from, src, amount, dest, to)
  /\ UNCHANGED <<now, rounds, systemSuspended, waitingPeriod>>

\* Synthetix.exchange and its variants; the synths go to the account or to the
\* initiator of the transaction.
exchange(from, src, amount, dest, to) ==
  /\ ~systemSuspended
  /\ Exchanging(from, src, amount, dest, to)
  /\ UNCHANGED undisturbed

-----------------------------------------------------------------------------
(* Transfers *)

transferableSynths(a, k) == floorsub(balanceOf[a][k], reclaimAmount(a, k))

\* A slip: what settling will take away may leave.
CanTransferBalance(a, k, value) ==
  /\ ~systemSuspended
  /\ WaitingIsOver(a, k)
  /\ balanceOf[a][k] >= value

EnsureCanTransfer(a, k, value) ==
  /\ ~systemSuspended
  /\ WaitingIsOver(a, k)
  /\ transferableSynths(a, k) >= value

\* transfer and transferFrom; only the latter moves synths to FEE_ADDRESS as they are.
transfer(from, k, value, to) ==
  /\ EnsureCanTransfer(from, k, value)
  /\ balanceOf' = Credited(Debited(balanceOf, from, k, value), to, k, value)
  /\ UNCHANGED <<now, rounds, breaker, systemSuspended, waitingPeriod, undisturbed, exchanges, fees>>

\* transfer to the zero address
transferToNobody(from, k, value) ==
  /\ EnsureCanTransfer(from, k, value)
  /\ balanceOf' = Debited(balanceOf, from, k, value)
  /\ UNCHANGED <<now, rounds, breaker, systemSuspended, waitingPeriod, undisturbed, exchanges, fees>>

\* transfer to FEE_ADDRESS
_transferToFeeAddress(from, k, value) ==
  /\ EnsureCanTransfer(from, k, value)
  /\ undisturbed' = (undisturbed /\ k = zUSD)
  /\ IF k = zUSD
     THEN /\ balanceOf' = Credited(Debited(balanceOf, from, k, value), FEE_ADDRESS, k, value)
          /\ fees' = fees + value
          /\ UNCHANGED <<now, rounds, breaker, systemSuspended, waitingPeriod, exchanges>>
     ELSE Exchanging(from, k, value, zUSD, FEE_ADDRESS)

\* transferAndSettle and transferFromAndSettle
transferAndSettle(from, k, value, to) ==
  LET available == IF exchanges[from][k] = <<>> THEN value ELSE SettledBalance(from, k)
      n         == IF value > available THEN available ELSE value
  IN  /\ ~systemSuspended
      /\ CanSettle(from, k)
      /\ SettledBalance(from, k) >= n
      /\ balanceOf' = Credited(Debited(Settled(from, k), from, k, n), to, k, n)
      /\ exchanges' = EntriesRemoved(from, k)
      /\ UNCHANGED <<now, rounds, breaker, systemSuspended, waitingPeriod, undisturbed, fees>>

-----------------------------------------------------------------------------
(* Burning, by Issuer *)

SettleAndBurn(a, k, n) ==
  /\ ~systemSuspended
  /\ CanSettle(a, k)
  /\ SettledBalance(a, k) >= n
  /\ balanceOf' = Debited(Settled(a, k), a, k, n)
  /\ exchanges' = EntriesRemoved(a, k)
  /\ UNCHANGED <<now, rounds, breaker, systemSuspended, waitingPeriod, undisturbed>>

burnSynthsWithoutDebt(a, k, n) == SettleAndBurn(a, k, n) /\ UNCHANGED fees

\* _voluntaryBurnSynths: no more is burned than there is debt.
burnSynths(a, amount, existingDebt) ==
  LET n == AmountRemaining(a, zUSD, amount)
  IN  SettleAndBurn(a, zUSD, IF existingDebt < n THEN existingDebt ELSE n) /\ UNCHANGED fees

\* What FeePool does to the fees when it closes a period: it burns them.
closeFees ==
  /\ fees > 0
  /\ SettleAndBurn(FEE_ADDRESS, zUSD, fees)
  /\ fees' = 0

\* burnSynthsToTarget, and the synths wrappers and loans burn: there is no
\* settlement, and no waiting.
burnUnsettled(a, k, n) ==
  /\ ~systemSuspended
  /\ balanceOf[a][k] >= n
  /\ balanceOf' = Debited(balanceOf, a, k, n)
  /\ undisturbed' = FALSE
  /\ UNCHANGED <<now, rounds, breaker, systemSuspended, waitingPeriod, exchanges, fees>>

-----------------------------------------------------------------------------
(* Time, aggregators, keepers and the owner *)

TimePasses ==
  /\ now < MaxTime
  /\ now' = now + 1
  /\ UNCHANGED <<rounds, breaker, systemSuspended, waitingPeriod, undisturbed, balanceOf, exchanges, fees>>

APeriodEndsNow ==
  \E a \in Holder, k \in Synth : \E i \in DOMAIN exchanges[a][k] :
    now = exchanges[a][k][i].timestamp + waitingPeriod

\* Bounds: the owner changes the waiting period once, and then there is a round
\* less.
WithinBounds ==
  \A k \in Synth :
    Len(rounds[k]) <= IF waitingPeriod = FirstWaitingPeriod THEN MaxRounds ELSE MaxRounds - 1

newRound(k, price) ==
  /\ k # zUSD
  /\ rounds' = [rounds EXCEPT ![k] = Append(@, [rate |-> price, time |-> now])]
  /\ undisturbed' = (undisturbed /\ ~APeriodEndsNow)
  /\ UNCHANGED <<now, breaker, systemSuspended, waitingPeriod, balanceOf, exchanges, fees>>
  /\ WithinBounds'

\* Anyone may call it, at any time.
rateWithSafetyChecks(k) ==
  /\ k # zUSD
  /\ breaker' = [breaker EXCEPT ![k] = Probed(breaker, rounds, k, systemSuspended)]
  /\ UNCHANGED <<now, rounds, systemSuspended, waitingPeriod, undisturbed, balanceOf, exchanges, fees>>

resetBreaker(k, value) ==
  /\ k # zUSD
  /\ breaker' = [breaker EXCEPT ![k] = resetLastValue(value)]
  /\ UNCHANGED <<now, rounds, systemSuspended, waitingPeriod, undisturbed, balanceOf, exchanges, fees>>

suspendOrResumeSystem ==
  /\ systemSuspended' = ~systemSuspended
  /\ systemSuspended' \in Suspension
  /\ UNCHANGED <<now, rounds, breaker, waitingPeriod, undisturbed, balanceOf, exchanges, fees>>

setWaitingPeriodSecs(secs) ==
  /\ waitingPeriod = FirstWaitingPeriod /\ secs # waitingPeriod
  /\ waitingPeriod' = secs
  /\ undisturbed' = FALSE
  /\ UNCHANGED <<now, rounds, breaker, systemSuspended, balanceOf, exchanges, fees>>
  /\ WithinBounds'

-----------------------------------------------------------------------------

HoldersAct(a) ==
  \/ \E src, dest \in Synth, n \in Amount, to \in Account : exchange(a, src, n, dest, to)
  \/ \E k \in Synth, n \in Amount, to \in Holder :
       transfer(a, k, n, to) \/ transferAndSettle(a, k, n, to)
  \/ \E k \in Synth, n \in Amount :
       \/ transferToNobody(a, k, n)
       \/ _transferToFeeAddress(a, k, n)
       \/ burnSynthsWithoutDebt(a, k, n)
       \/ burnUnsettled(a, k, n)
  \/ \E n, existingDebt \in Amount : burnSynths(a, n, existingDebt)

\* What happens without the consent of any holder.
WorldActs ==
  \/ TimePasses
  \/ suspendOrResumeSystem
  \/ \E k \in Synth : \/ rateWithSafetyChecks(k)
                      \/ \E price \in Price : newRound(k, price)
                      \/ \E value \in ResetValue : resetBreaker(k, value)

\* (Settling an empty queue changes nothing.)
Settles == \E a \in Holder, k \in Synth : exchanges[a][k] # <<>> /\ settle(a, k)

Next ==
  \/ \E a \in Account : HoldersAct(a)
  \/ WorldActs
  \/ Settles
  \/ closeFees
  \/ \E secs \in WaitingPeriod : setWaitingPeriodSecs(secs)

Spec == Init /\ [][Next]_vars

-----------------------------------------------------------------------------
(* Properties *)

(* Every variable has its type; the queues respect their limit.            *)
TypeOK ==
  /\ now \in 1 .. MaxTime \cup {1}
  /\ rounds \in [Synth -> Seq(Round)]
  /\ rounds[zUSD] = <<>>
  /\ breaker \in [Synth -> Breaker]
  /\ systemSuspended \in BOOLEAN
  /\ waitingPeriod \in WaitingPeriod
  /\ balanceOf \in [Holder -> [Synth -> Nat]]
  /\ exchanges \in [Holder -> [Synth -> Seq(ExchangeEntry)]]
  /\ \A a \in Holder, k \in Synth : Len(exchanges[a][k]) <= maxEntriesInQueue
  /\ fees \in Nat
  /\ undisturbed \in BOOLEAN

(* Settling never fails for want of balance: whatever prices did during the *)
(* waiting period, and whatever left the account since, the balance covers  *)
(* what is to be reclaimed (ExchangeSettlementLib._reclaim burns it).        *)
ReclaimCovered ==
  \A a \in Holder, k \in Synth : balanceOf[a][k] >= reclaimed(a, k)

(* The zUSD pooled at FEE_ADDRESS covers the fees recorded as paid, which    *)
(* the close of the fee period burns (FeePool.sol:41, :309).                 *)
FeesPooled == balanceOf[FEE_ADDRESS][zUSD] >= fees

(* Whatever is to be burned later, by a settlement or by the close of a fee  *)
(* period, is there, until the settlements are disturbed.                    *)
BurnsCovered == TypeOK /\ (undisturbed => ReclaimCovered /\ FeesPooled)

(* While some exchange into a synth is within its waiting period, none of   *)
(* the account's balance of that synth leaves, by whatever call             *)
(* (maxSecsLeftInWaitingPeriod, asked by settle, exchange and transfers),    *)
(* except the burns that disturb.                                            *)
NothingLeavesWhileWaiting ==
  [][undisturbed' => \A a \in Holder, k \in Synth :
       WaitingIsOver(a, k) \/ balanceOf'[a][k] >= balanceOf[a][k]]_vars

(* Settling changes no one's entitlement: what an account has once its       *)
(* exchanges are settled is the same before and after anyone settles         *)
(* anything (internalSettle pays what settlementOwing shows, and once),      *)
(* disturbed or not.                                                         *)
SettlingIsNeutral ==
  [][Settles => \A a \in Holder, k \in Synth :
                  SettledBalance(a, k)' = SettledBalance(a, k)]_vars

(* Once the waiting periods of all exchanges into a synth have ended, the    *)
(* account's entitlement is fixed: neither time, new prices, breakers nor a  *)
(* suspension change it, however late it is settled                          *)
(* (getLastRoundIdBeforeElapsedSecs stops at the end of the period).         *)
EntitlementFixedAfterPeriod ==
  [][WorldActs => \A a \in Holder, k \in Synth :
       (\A i \in DOMAIN exchanges[a][k] : now > exchanges[a][k][i].timestamp + waitingPeriod)
         => SettledBalance(a, k)' = SettledBalance(a, k)]_vars

(* An exchange into k queued by this step is at prices that are not a jump   *)
(* from the price last probed, with circuits that were and are closed: a     *)
(* circuit that broke stops every exchange until the owner resets it         *)
(* (_ensureCanExchange, CircuitBreaker.probeCircuitBreaker).                 *)
NoTradeOnJump ==
  [][\A a \in Holder, k \in Synth :
       Len(exchanges'[a][k]) > Len(exchanges[a][k]) =>
         LET entry == exchanges'[a][k][Len(exchanges'[a][k])]
         IN  \A j \in Priced({k, entry.src}) :
               ~isInvalid(breaker[j], CurrentRound(rounds, j).rate) /\ ~breaker'[j].broken]_vars

(* What is left to exchange after a settlement is at most what the account   *)
(* then has (Exchanger.sol:189-192, "the amount to exchange is reduced to    *)
(* their remaining supply").  This does not hold: a refund is counted twice. *)
AmountReducedToSupply ==
  \A a \in Account, k \in Synth, amount \in Amount :
    exchanges[a][k] # <<>> /\ CanSettle(a, k) =>
      calculateAmountAfterSettlement(a, k, amount) <= SettledBalance(a, k)
=============================================================================
