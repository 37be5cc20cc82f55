# Horizon: a TLA+ verification of the protocol and of its deployment

Horizon is a derivatives protocol: stakers lock a collateral token, issue
synths (tokens that follow a price, zUSD among them) and owe, together, the
value of all synths in circulation. The repository has two halves: the
contracts under `src/contracts`, and the tooling under `src/publish` that
deploys a release of them, connects it to what is there, hands it to its owner,
and changes a system that is in use. This directory models both, checks the
models with TLC, and proves theorems about them with TLAPS.

## 1. The system

### The contracts

| Component | State | Operations | Talks to |
|---|---|---|---|
| `SynthetixDebtShare` | per account, a history of checkpoints (period, balance); supply per period; brokers | mint, burn, broker transfer, `takeSnapshot`, import | minted and burned by `Issuer`, snapshot by the close of a fee period, read for past periods by `FeePool` |
| `DebtCache`, `BaseDebtCache` | cached total, cached debt per synth, two reserved keys (futures, excluded), validity, excluded debt recorded by wrappers | snapshot, partial updates, purge, records of wrappers | told by `Issuer`, `Exchanger`, `Wrapper`; reads prices, supplies, futures, collateral |
| `Issuer` | listed synths, last issue times | list and remove synths, issue, burn, liquidate, redeem | everything |
| `Exchanger`, `ExchangeSettlementLib`, `ExchangeState` | a queue of unsettled exchanges per account and synth | exchange, settle | prices, breakers, synths, fee pool, debt cache |
| `ExchangeRates` | aggregators of each synth, with all their rounds | read (also past rounds), read with a probe of the breaker | `CircuitBreaker` |
| `CircuitBreaker` | last value and broken circuit of each oracle | probe, reset | `ExchangeRates`, `Issuer` |
| `Synth` | balances | transfer, transfer with settlement, transfer to the fee address, issue, burn | `Exchanger`, `FeePool` |
| `FeePool` | a ring of fee periods, last claims | record a fee, close a period, claim | debt shares, escrow, bridges |
| `Liquidator`, `LiquidatorRewards` | flags with deadlines, reward accumulator | flag, remove flag, liquidate, claim | `Issuer` |
| `RewardEscrowV2` | vesting entries over a frozen escrow | vest, revoke, merge, migrate, import | fee pool, bridges |
| `SynthetixBridgeToOptimism`, `SynthetixBridgeToBase`, `SynthetixBridgeEscrow` | HZN in escrow, its allowance, counters of synths, whether calls may start | deposit, withdraw, migrate escrow, send synths, close the fee period of the other layer, hand over rewards | each other, by a messenger; `RewardEscrowV2`, `RewardsDistribution`, `FeePool` |
| `Collateral*`, `Wrapper`, `Futures*`, `PerpsV2*`, `StakingRewards`, `SystemStatus`, ... | loans, reserves, positions, accumulators, suspensions | listed with their status in `PROJECT.json` | debt cache, prices |

### The tooling

A run of a command is one process. It talks to the chain by transactions and
keeps what must survive in files of the network's folder: `config.json` (which
contracts there are, and which of them are flagged for deployment),
`deployment.json` (their addresses), `versions.json` (the addresses, release by
release), `owner-actions.json` (calls that the account of the run may not make
and leaves to the owner), `synths.json`. Each file is held in memory and
written whole.

| Component | State | Operations | Talks to |
|---|---|---|---|
| `commands/deploy/*`, `Deployer.js` | all the files, the contracts deployed so far in this run | deploy or reuse each contract; read a setting and write it unless it is as expected; import addresses; rebuild caches; import fee periods; add synths | the chain, the owner through `owner-actions.json` |
| `prepare-deploy`, `versions-update` | flags; versions | flag a release; record it | `deploy` |
| `nominate`, `owner`, `SafeBatchSubmitter` | `owner-actions.json`; proposals to a safe | offer contracts; perform what is left and accept | the chain, the signers of a safe, a relay to layer 2 |
| `deploy-perpsv2*`, `perps-v2-utils` | proxies with routes, states, implementations, the manager's list, pauses | deploy and link a market, pause and resume it, clean up | `FuturesMarketManager`, `SystemStatus`, the guardians |
| `replace-synths`, `remove-synths`, `purge-synths` | `synths.json` and the others | as named | `Issuer`, holders who trade |
| `deploy-shorting-rewards`, `deploy-staking-rewards` | `deployment.json` | deploy rewards, connect them | `CollateralShort` |
| `connect-bridge` | none | make the bridges of two layers known to each other, approve the escrow | two resolvers, the bridges |
| the rest (`build`, `verify`, `settle`, `migrate-*`, `index.js`) | see `PROJECT.json` | | |

### What is hard here

A contract's call runs alone: the difficulty is the order of calls by many
parties (holders, anyone who settles, keepers, oracles, guardians, the owner),
state that one call leaves for another to complete much later, and sums that
are kept rather than computed.

* **Deferred settlement.** An exchange is final only after its waiting period;
  between the two, prices, transfers, burns, further exchanges, suspensions and
  the close of a fee period may come in any order.
* **Incremental sums.** The debt cache follows hundreds of changes by partial
  updates; each must leave total and parts in step, also after a snapshot that
  was cut off at zero.
* **History.** Fees of a past period are shared by the balances of that period:
  checkpoints must not be written into a period that is closed, and a bounded
  scan must not answer wrongly.
* **Rounding and boundaries.** Fixed-point products that round, the second in
  which a period ends, prices of zero, full queues.
* **Early returns.** Calls that have done half of their work and then return
  without reverting.
* **Two layers.** What one bridge takes the other one gives much later, in any
  order, and only if it knows the first by then.

A command of the tooling is the opposite: hundreds of transactions that nobody
else waits for, and a process that may stop between any two.

* **Crash and resume.** A contract is mined, then in `deployment.json`, then no
  longer flagged in `config.json`: three moments, and a run that goes on knows
  only the files. What a run keeps in memory (what *it* has deployed) is lost.
* **Two hands.** What the account may not do is left to the owner, who acts
  later, in the order of the file, on a system that has moved on.
* **Files held in memory.** A file is read at the start and written whole.
* **Other parties meanwhile.** Guardians pause markets, users trade synths
  whose supply the command read earlier, signers take their time.
* **Half upgraded.** A market between the first and the last link of its
  upgrade must not be open.

`PROJECT.json` lists the hazards one by one, each at its line.

### What makes each component correct

* Debt shares: the supply is the sum of balances, in every period; a closed
  period never changes; a past balance is exact or the call reverts.
* Debt cache: the total keeps its distance from the sum of its parts except at
  a snapshot; unlisted synths carry no debt; invalid prices never hide in a
  valid cache; a valid cache is exact until a price moves.
* Exchanger: a settlement can always be carried out; nothing leaves before it;
  settling changes no one's entitlement; the entitlement is fixed when the
  period ends; no trade at a price that jumped.
* Fee pool: a claim pays in full what the shares of the closed period are worth,
  once; what is promised is in escrow; the entitlement of a closed period is
  fixed.
* Issuance: no one issues or transfers beyond the ratio; issuing and burning
  leave what the others owe; a liquidation can be carried out and the others do
  not lose by it; liquidation rewards are covered.
* Reward escrow: balances are the sums of entries, over the frozen escrow and
  its own; nothing is paid twice or early; the tokens held cover it all; an
  account can reach all of its escrow through its list of ids.
* Bridges: messages neither create nor lose HZN, entries or synths, so that what
  is on layer 2 can be withdrawn; what is sent arrives, if no bridge is replaced
  under a message on its way and no list of entries has a slot that stays zero.
* Deployment: each contract of a release is deployed once however often the
  release is resumed; when a run is complete and nothing is left to the owner,
  everything is connected as the files say; nothing goes back to an older
  contract; releases come to their end.
* Owner's commands: the file marks what was sent and nothing else; actions are
  performed in their order, once, and all of them in the end.
* Perps upgrade: an open market is on one state; routes change only while it is
  paused; a market that a run finds paused is not opened by it; the upgrade comes
  to its end.
* Synth commands: holders keep their balances and the use of them; at rest the
  files say what the chain says.

## 2. The models

| Module | Models | Kind |
|---|---|---|
| `SafeDecimalMath` | fixed-point products and quotients, truncating and rounding | operators |
| `Sums` | sums of functions over finite sets | operators |
| `SynthetixDebtShare` | the contract | state machine |
| `DebtShareBook` | what it promises: a book with one page of balances per period | abstract state machine |
| `DebtCache` | the cache, a record; each function an operator on it | operators |
| `DebtPool` | the cache with its callers: `Issuer`, `Exchanger`, wrappers, owner, keepers, prices | state machine |
| `CircuitBreaker`, `ExchangeRates`, `DynamicFee` | the three layers an exchange reads its prices and fees through | operators |
| `Exchanger` | exchanges, settlement, transfers, burns, the close of fees, time, rounds, breakers, suspension | state machine |
| `FeePool` | fee periods, their close, claims, the roll-over, rewards | state machine over `SynthetixDebtShare` |
| `LiquidatorRewards` | the contract, a record; each function an operator on it | operators |
| `Issuance` | `Issuer` (accounts), `Liquidator`, the HZN token, liquidation rewards, the debt ratio | state machine over `LiquidatorRewards` |
| `RewardEscrowV2Storage` | the storage of the escrow over the frozen escrow it reads through | operators |
| `RewardEscrowV2` | the escrow on both layers: entries, vesting, revoking, merging, what leaves and arrives | state machine |
| `EscrowBook` | what it promises: a book of entries, each released whole and once | abstract state machine |
| `Bridge` | the bridges of both layers, their messages, what they hold, and `connect-bridge` | state machine |
| `DeployScript` | what `deploy` deploys and sets, in its order | tables |
| `Deployment` | the runs of `deploy` over files and chain, `prepare-deploy`, `versions-update`, the owner | state machine over `DeployScript` |
| `OwnerCommands` | `nominate` and `owner`: account, safe or relay | state machine |
| `PerpsV2` | deployment and upgrade of markets, with the guardians | state machine |
| `SynthCommands` | replace, remove, purge, rewards, with trading and the owner | state machine |
| `Arithmetic_proofs` | lemmas about sums, products and quotients | proofs |
| `*_proofs` | theorems about the module they extend (`FeePool_proofs`: also about `SynthetixDebtShare`, which `FeePool` extends) | proofs |
| `MC_*` | values for TLC | |

In the contracts' modules one action is one transaction. A function that may
revert is an action with a guard; an early return that keeps what was done
before is an action, or a disjunct, of its own (`StoppedByBreaker`,
`OnlySettled`, `exchangeAborted`). In the tooling's modules one action is one
transaction, or one write of one file: between any two of them the process may
be killed (`Crash`), and the others act. Names of operators are the names in
the source. Operators whose comment says *a slip* are not part of the model:
each is a plausible mistake in the definition that follows it, kept to see the
properties fail.

### Debt shares (`SynthetixDebtShare`, `DebtShareBook`)

`balances[account]` is the sequence of checkpoints, `totalSupplyOnPeriod` the
supply of each period id, `currentPeriodId` the id. Period ids are timestamps
on chain and may skip; `takeSnapshot` takes any later id up to a bound. The
scan of `balanceOfOnPeriod` looks at `MAX_PERIOD_ITERATE` checkpoints and then
fails. `DebtShareBook` has one page of balances per period and no checkpoints;
`ImplementsBook` maps the histories to pages, and the contract implements it.

### Debt cache and pool (`DebtCache`, `DebtPool`)

`cache` is the storage of the cache contract. The other contracts appear by
what they do to the supplies and the cache: issuing and burning, the removal of
a synth with its redemption, exchanges with the settlement of the source and
the update at the end, settlements, wrappers, loans and futures. What a
settlement adds or takes is a value from a small set (`Difference`), free once
a price has moved after an exchange into that synth; `Exchanger` has the exact
amounts. `redemptions` is what `SynthRedeemer` remembers: the rate at which a
synth was removed. It outlives the removal, so a synth that is listed again can
still be redeemed, and cannot be removed again while any of it is in circulation.
Who holds the zUSD of the redeemer is not kept apart, and a synth that is listed
again comes back with its token. `undisturbed` is a history variable: it becomes
FALSE when a price or a debt moves that the cache is not told about by design,
when another synth than zUSD is bridged (Issuer.sol:575 books its value under
zUSD), when an exchange returns early after settling a difference
(Exchanger.sol:336, :366), and when a synth that is listed is redeemed
(Issuer.sol:670).

### Exchanges (`CircuitBreaker`, `ExchangeRates`, `DynamicFee`, `Exchanger`)

`rounds[k]` is an aggregator, `breaker[k]` its circuit, `exchanges[a][k]` the
queue of account `a` into synth `k`, `fees` the fees recorded for the current
period, which `closeFees` burns at `FEE_ADDRESS`. Settlement amounts are
computed from rounds as the code does, with fees, rounding and SIP-65.
The code also allows what the central promise, that a settlement finds what it
takes, does not survive: a round in the very second a period ends, burns that
do not settle (to target, by wrappers and by loans), synths other than zUSD sent
to the fee address, and a change of the waiting period (one, in the bounds). All
of them are actions; `undisturbed` is a history variable that becomes FALSE with
the first of them.

### Fee periods (`FeePool`)

`FeePool` extends the state of `SynthetixDebtShare` by the ring of two periods
with its offset, the last claims, HZN in escrow and the authorised operators. A
close is by anyone after the duration, or by the relayer (`closeSecondary`),
at any time; it takes the snapshot of the shares through
`Issuer.setCurrentPeriodId`. Two limits of the code are part of the model and
of what the properties say. Others than the fee pool may snapshot the shares:
an account whose balance changed in `MAX_PERIOD_ITERATE` of those periods cannot
claim, which the run reaches; `Reached` names the accounts that can. And a
relayed close in the second in which a period began
gives two periods the same id; `SameSecondRelay` keeps that out, as
`EntitlementFixed` does not survive it.

### Issuance and liquidation (`LiquidatorRewards`, `Issuance`)

An account has liquid HZN (`hzn`), `escrow`, what it earned in `rewards` and
has not been paid, and debt `shares`; `debt` is the value of all synths, and
the ratio of the two is read at each call, as `OneNetAggregatorDebtRatio` does.
Every call of `Issuer`, `Liquidator` and `LiquidatorRewards` that changes them
is an action, and so are transfers (with the lock of what is staked), vesting
(all of an account's entries at once), the arrival of migrated shares, price
moves, and the probes that stop an issue or a burn. `Liquidated` is what the two
kinds of liquidation share: rewards are paid out first, then shares are taken,
escrow revoked, flagger and liquidator paid, the rest sent to the rewards and
accumulated. Not here: histories of shares, the cache, the settlement before a
burn.

### Reward escrow (`RewardEscrowV2Storage`, `RewardEscrowV2`, `EscrowBook`)

`st` is the storage contract, `old` the escrow that was frozen when this one was
deployed. A balance that was never written reads as the frozen one, an entry
with no end time likewise; an entry that was emptied keeps an end time, so that
the frozen one does not come back. `tokens` and `oldTokens` are the HZN held here
and there; the owner of the HZN token moves them (`migrateEscrowContractBalance`)
before or after the first calls. A call
that must pay more than is held reverts. Both layers are in one module: on the
layer with `importable` entries arrive, on the other they leave. The time, the
owner's settings and the merging window move between calls; that merging needs
an account without debt, which `Issuer` answers, is left open, since no property
rests on it. Stored end times are 32 bits wide, while the test for zero is made
before they are cut, and the maximal duration is not bounded:
`EndTimeAssumption` keeps end times below that width (the year 2106).
`EscrowBook` has neither storage nor lists, only entries that come, go, move and
are released; `ImplementsBook` maps the storage to it.

### Bridges (`Bridge`)

Both layers are in one state: `hzn`, `entries` and `synths` by layer, `messages`
the set of what was sent and not executed. The messenger takes any of them in
any order; one that would fail stays, since it can be executed again. Calls that
send are bounded by `MaxSent`. A bridge is known by its number: `bridge[l]` is
the one that is deployed, `resolver[l]` the other layer's as the resolver has
it, `known[l]` the same in the cache of the bridge, and a message is accepted
when its sender is known and its receiver deployed: HZN, the issuer, the escrow
and the fee pool obey only the bridge that is in the resolver. What
`RewardsDistribution` gives to a bridge that was replaced, or is not connected,
stays there (`notifyFails`), and `forwardTokensToEscrow` moves it. `proc` is the
process of `connect-bridge`: it imports addresses on layer 1, rebuilds the cache,
does the same on layer 2, and approves the escrow. `drained` is a history
variable: it becomes FALSE when a bridge is replaced while messages are on their
way or while the other layer may send, when calls are resumed on a layer that
does not know the new bridge yet, and when rewards are sent despite a suspension.
An escrow is migrated by lists of ids, any ids (`burnForMigration`): what is no
unvested entry of the caller any more leaves its slot of the message zero, and
layer 2 refuses a message with a zero slot (`zeroSlot`,
RewardEscrowV2Storage.sol:282), so it stays on its way.
Left out: entries on layer 2 at the start, claims of rewards there (`FeePool`),
the debt that forbids a deposit, rates and suspensions of synths.

### Deployment (`DeployScript`, `Deployment`)

`DeployScript` is the script as data: `Everything` is the sequence of what
`deploy/index.js` calls, each entry a contract with what it is built from, a
setting with what is expected of it and what is written otherwise, or one of the
special steps. It has the whole script; an instance of `Deployment` takes
the part that is about its contracts (`Script`). Contracts are addresses that
grow; a deployed contract is a name, an owner, its fields, and the addresses in
its resolver cache. A run reads the files (`Start`), goes through the script
with `run.at`, and for a contract that is flagged passes through three states,
`MineContract`, `WriteDeployment`, `WriteConfig`. A release is a set of sources
that are flagged and the option `addNewSynths`, with which the command deploys
synths that `config.json` does not have. Before a flagged synth the supply of the
one it replaces is read, and a run stops at one that no release has
(`ReadOldSupply`, deploy-synths.js:59-70). `RunStep` is
`performTransactionalStep`: read, compare, then write as the owner (`Mine`),
fail (`Fail`), or leave an action in the file (`Pend`). The run ends there when
the import of addresses is left to the owner. Between runs the owner performs
the first action that is not complete, `VersionsUpdate` records a release that
is done, and `PrepareDeploy` flags the next.

The comparisons are the code's, and some never require anything: where a
parameter is compared with `input !== 0` and the input is a string
(configure-system-settings.js:552-606) the setting is never made
(`NotRequired`). Steps that depend on a flag of `config.json`
(configure-legacy-settings.js:246-276) are lost by a run that goes on after
the flag has been taken away (`Gated`).

### Owner's commands (`OwnerCommands`)

`ownerActions` is the file in the order of its keys, `complete` what it marks,
`queue` the proposals that wait. An account submits and writes, action by
action. A safe collects calls, proposes one batch, and writes all marks at the
end; a relay cuts them into batches, which arrive in any order. Calls of one
batch fail together. The search through pending proposals reads the parameters
of the list and not of its entries (SafeBatchSubmitter.js:81), so it finds
nothing: `matchedTxnIsPending` is FALSE, and `waitsForSafe` says whether the
operator waits for the signers instead.

### Perps upgrade (`PerpsV2`)

A market is a proxy with routes from selectors to implementations, a state
with the contracts that may write to it, and an entry in the manager's list.
`chain` has them by `<<market, part, version>>`. An upgrade is the sequence of
`proc.step`: manager and import of its markets, then market by market deploy,
pause, initialize, link to state, to the exchange rate, to the proxy (route by
route), to the manager, configure, resume; then revoke the access and clean up.
Routes, like all else, are compared with the chain, so a step that was done is
passed over; what a run has `updated` is its memory and is lost with it.
Settings of a market and the moments between mining and the files are one step
each: the first are not told apart by any property, the second are in
`Deployment`. Guardians pause at any time, also what the tool has paused, and do
not open a market while a release is incomplete; the account of the tool owns all
contracts. `history.foundPaused` names the markets of the manager that were
paused when the run began.

### Synth commands (`SynthCommands`)

One process runs one command on a list of synths, or of rewards. `held[k]` is
what the holders have (the token state, which stays), `made` the synth
contracts with their supplies, `issuer`, `associated` and `target` who points at
which. The account owns the contracts, or leaves each call to the owner.
Users trade at any time a synth that works. `history.disturbed` names the synths
whose supply a command has read, and that were traded before it took them out,
or whose command was killed between the zeroed supply and the record of the new
synth: their supply is lost by design of the command, and the properties say so.

## 3. The runs

| Run | Question | Bounds |
|---|---|---|
| `debt_share` | histories and supplies consistent (`PeriodSupplyIsSum`), past periods frozen (`ClosedPeriodsFrozen`), scan exact (`ScanIsExactOrReverts`), the book implemented (`ImplementsBook`) | 2 accounts, period ids to 3 with skips, scan of 2 |
| `debt_pool` | total at least its parts and no debt of unlisted synths (`CachedDebtSound`), no drift (`PartialUpdatesKeepGap`), `ValidityIsHonest`, `CacheExactWhileUndisturbed` | 2 synths, unit 2 and price 3 (values round), supplies to 2, redemption also of a synth that is listed again |
| `exchanges` | what a settlement takes is there (`BurnsCovered`), `NoTradeOnJump`, `NothingLeavesWhileWaiting`, `SettlingIsNeutral`, `EntitlementFixedAfterPeriod` | 1 account, 2 synths, unit 10, prices 0, 16 and 40 from 10 with a breaker at a factor 3, dynamic fee over 3 rounds, amount 5, a period of 2 that may become 0, times to 4, 3 rounds, suspensions |
| `fees_pooled` | `FeesPooled`: violated | prices 10 and 5, other synths sent to the fee address |
| `fee_pool` | what is promised is in escrow and can be read (`ClaimsPayable`), `PaidInFullAndOnce`, `EntitlementFixed` | 2 accounts, ring of 2 periods, period ids to 4, scan of 2 (too short for some accounts), 3 of rewards and of fees |
| `issuance` | rewards covered and liquidations payable (`PromisesCovered`), `RatioRespected`, `OthersUnharmed`, `NoExitBeforeStakeTime` | 2 accounts in hundredths, HZN worth 1.0 or 0.4, 4 calls between which prices and time move freely |
| `reward_escrow` | balances are sums, covered and reachable (`EscrowConsistent`), `ListsAreStable`, the book implemented (`ImplementsBook`) | 2 accounts, 6 ids, times to 4, 3 calls; the frozen escrow is empty or left by a merge and the merge back |
| `bridges` | messages create and lose nothing (`NothingCreated`), `EventuallyDelivered` | 1 account, an entry and ids that are none, lists that repeat it, a unit of HZN, of rewards and of synths, 2 calls that send, 1 replacement, 1 crash |
| `deployment` | each contract once, no orphan in use (`DeploymentSound`), `CompleteMeansWired`, files and links never go back (`NeverBack`), `EventuallyWired` | 16 contracts of which a synth and two others are in no release yet, 5 releases (two that cannot be done, one with `addNewSynths`) of which 2 in a row, 3 divisions of ownership, 1 crash, caches rebuilt 2 at a time |
| `owner_actions` | `FileIsTrue`, `OrderKept`, `EventuallySettled` | 2 contracts, 3 actions, batches of 2; an account, a safe, a relay; 6 proposals, 1 crash |
| `perps_upgrade` | an open market is on one state (`MarketsConsistent`), `PausesRespected`, `LegacyLinkedWhilePaused`, `EventuallyUpgraded` | a market that is there and a new one, 3 implementations in 2 versions, a release of a proxy, of the manager or of a state with what is built on it; 1 crash, 1 pause by a guardian |
| `synth_commands` | `HoldersKeepTheirs`, `FilesFollowChain`, `EventuallyLive` | 2 synths alone or together, a reward of each kind, 2 commands, 1 crash, 1 trade, supplies to 2 |

The bounds are small but every branch is taken in some run: rounding (unit 2 or
10 against odd prices), queues of two and their limit, periods that end with
and without a later round, prices that jump, return and become zero, amounts
that leave a rest, settlements that reclaim, refund and come out even,
liquidations that fix an account, wipe it out, revoke escrow or do not.
`MaxCalls` bounds `issuance`: four calls are enough to issue, flag, liquidate
and be liquidated again or burn, with the price falling and rising between.

`issuance` uses real magnitudes in small units, so amounts round. `Slack` is what
rounding may add up to in the debt of an account in one call: the debt of one
share, the total of shares in units of the ratio, and two. `RewardSlack` is that
of an account's net worth: besides, a part of each account's reward, and the HZN
of those parts in dollars. The proofs settled both: two more than the debt of one
share, which is enough for the constants of the run, is not for others, where
the ratio itself rounds further than a share is worth. The properties leave out,
each named where it does: the first issue after all shares are gone, which takes
over the debt that is left; issues worth less than half a share, which mint more
shares than they are worth; and accounts whose shares migrated.

The frozen escrow of `reward_escrow` has an id listed twice, an entry that was
deleted for one account and lives for the other, and one that was vested: what
reading through may get wrong. Callers pass lists with repeated, foreign and
unknown ids. The merging window may be open from the start, so that three calls
are enough to nominate, merge and vest, or to vest, revoke and merge.

One crash is enough for the tooling: a run has no memory beyond the files, so
what one killed run leaves is what the next starts from, and a second crash
starts from a state that the first one could have left. Two releases are needed
because links, and actions left in the file, go back only from a third address
to a second; two commands because the second one meets what the first has left.
The releases of `perps_upgrade` are one of each kind: a proxy alone makes all
routes new, a manager alone all its markets, a state with its implementations
all the links.

In `bridges` two calls are enough for two messages in either order, there or
back, and for what came to be sent on; a unit of each kind and one entry are
enough for delivery, and that nothing is created is proved for any amounts and
entries.

These runs say `CHECK_DEADLOCK FALSE`: a system with no release, no action and
no command left may stop.

### Fairness and liveness

Nothing in the contracts happens unless someone calls, so those runs assume no
fairness; progress there is a matter of what calls *can* succeed, and
`BurnsCovered`, `PromisesCovered` and `ClaimsPayable` are stated in that way: a
settlement is never stuck for want of balance, an account open for liquidation
can be liquidated, a closed period can be read by whom the scan reaches.

The exception is `Bridge`, where the messenger delivers what it can
(`WF_vars(Messenger)`; a message that failed can be executed again) and
`connect-bridge` is run until the bridges know each other (`WF_vars(Connect)`).

For the tooling, each `FairSpec` states what its users do. A process that runs
goes on (`WF_vars(Process)`): it waits for nothing but transactions. Commands
are repeated while there is something for them to do (`Start`, `StartOwner`,
`StartNominate`, `Again`), and the owner and the signers act. Weak fairness is
enough for those who can always act; what is only possible between runs, where
another run may always come first, is strongly fair (`SF_vars`). Crashes are
bounded, and there is no fairness for them, for trades, for guardians or for
releases.

* `EventuallyDelivered`: from some time on nothing is on its way but lists of
  entries with a zero slot, if every replacement of a bridge found nothing else
  on its way and calls suspended.
* `EventuallyWired`: releases that can be deployed (all that they depend on is
  there, and a flagged synth is one of an earlier release and comes with a new
  issuer) are in the end in place, whatever was killed and left to the owner.
* `EventuallySettled`: all actions are performed and all contracts accepted, if
  no contract is a third account's.
* `EventuallyUpgraded`: the release is complete, each market is on what was
  deployed for it last, and its pause access is taken back. That the manager's
  list and the state before know of it is only promised if no run was killed.
* `EventuallyLive`: a synth whose replacement was killed works again, if the
  command is repeated.

### Disagreements found

`fees_pooled` is a run that is expected to fail: what is received for synths
sent to the fee address is recorded before it is settled; a reclaim leaves less
than recorded, and the close of the period reverts (FeePool.sol:311).

The following were met while modelling, and are in the modules as definitions
no run checks, so that a reader can try them:

* `AmountReducedToSupply` (`Exchanger`): the refund is added to an amount that
  was capped with a balance that already includes it (Exchanger.sol:191-195).
* `RatioOfClosedPeriod` (`FeePool`): `effectiveDebtRatioForPeriod` reads the
  ring of periods without its offset, so every second period answers for the one
  that is still open (against FeePool.sol:646).
* `LegacyLinkedWhilePaused` (`PerpsV2`) with `Releases <- MCBoth`: when the
  manager is of the same release all its markets are new to it, and none is
  paused while a state takes over (PerpsV2MarketState.sol:114 against
  deploy-perpsv2.js:268). With `MCWithProxy` it takes a run that was killed: the
  new proxy is not the manager's yet, a run that only cleans up drops the one
  that is, and the market is new to the run that goes on. The theorem (section
  4) excludes both releases and no other.
* `NotPendingTwice` (`OwnerCommands`) with `waitsForSafe = FALSE`: what waits
  for the signers is proposed again (SafeBatchSubmitter.js:81, owner.js:293).
* `EscrowFindsProxy` (`Deployment`): a step that depends on a flag is lost when
  the run that took the flag away is stopped before it.

Lifting an exclusion shows more. `CacheExactWhileUndisturbed` does not survive
the bridging of other synths than zUSD, exchanges that settle their source and
return early, or the redemption of a synth that was removed and is listed again:
`burnForRedemption` does not tell the cache, which is right only of a synth that
is not in it (Issuer.sol:670-672, SynthRedeemer.sol:65); `undisturbed` leaves all
three out. `InvalidPricesFlagged` leaves out bridging: an amount at an invalid
rate is booked under zUSD and the cache stays valid (Issuer.sol:574-575, 595-596).
`ClaimsPayable` speaks of the accounts that the scan reaches: who has moved shares
in `MAX_PERIOD_ITERATE` periods since the close, as snapshots by others allow,
cannot claim until the next close (SynthetixDebtShare.sol:101-113), and a comment
there only asks that snapshots not be taken too often (:35-37).
`EventuallyWired` leaves out releases with a flagged synth that is in no release:
every run stops at it (deploy-synths.js:59-70, Deployer.js:419-421), after its
token state and proxy were deployed. `PausesRespected` speaks of the markets that
the manager knows and that are paused when a run begins: a pause that a guardian
sets later is lifted at the end of the upgrade (perps-v2-utils.js:602-612 asks
only for what deploy-perpsv2.js:268 had read), and one on a market that the
manager has lost, to a new manager before the imports (deploy-perpsv2.js:63-100)
or to a cleanup before its new proxy was added, is lifted by the next run, to
which the market is new. In `Exchanger` it leaves out a
round in the second a period ends (it still counts, ExchangeRates.sol:147, though
the settlement is already open, ExchangeSettlementLib.sol:98), burns that do not
settle, and a change of the waiting period; each alone breaks `BurnsCovered`, the
last two by choice of the account or of the owner. A release of a market's state
with only some of what writes to it leaves the market open with implementations
on two states, since each keeps the state it was built on
(deploy-perpsv2.js:258); the run of `MarketsConsistent` has no such release, and
the theorem excludes it. In `Bridge`,
`<>[](drained => messages = {})` does not survive a list of entries that repeats
one, or names one that was vested or migrated before: its slot stays zero
(RewardEscrowV2.sol:44-57), layer 2 refuses it for ever
(RewardEscrowV2Storage.sol:282), and the unvested entries of the list are on
neither layer. Nor does `<>[](messages = {})` survive the replacement of a bridge
that was not drained: nothing delivers what was sent from or to the old one. A
suspension does not drain it either, since `notifyRewardAmount` goes past it
(SynthetixBridgeToOptimism.sol:141). Shares that arrive by migration are
minted without updating the reward entry (against LiquidatorRewards.sol:105);
`issuance` leaves those accounts out. `SupplyIsHeld` without `disturbed` does
not survive a trade between the reading of a supply (replace-synths.js:166) and
the removal, and `FilesFollowChain` says nothing of `config.json`, which
replace-synths.js:110 overwrites with the synths it replaced.

Other things a user of the tooling should know, from the same reading: the
safety check of a fresh deployment never applies
(perform-safety-checks.js:54), its test by prefix also stops brand-new synths
(:27-36); fee periods are imported again by every re-run until `versions.json`
is updated, and not at all if it is updated between a stopped run and its
continuation (import-fee-periods.js:40-46); a killed perps upgrade leaves the
market paused and the account with its access; `owner` with a relay and no safe
never writes the file (owner.js:460-462); remove-synths writes its files while
the removal still waits for the owner (:211-241), keeps the synth's own entry
(:231) and cannot be resumed; connect-bridge asks for `DebtMigrator*` contracts
(connect-bridge.js:344) that deploy-core.js:321-332 no longer deploys, and imports
the one of layer 2 on layer 1 without the cache that should know it (:101);
purge-synths has its list of holders fixed to
something that is no address (:186-188).

## 4. The proofs

All theorems hold for any finite sets of accounts, entries, synths, markets and
releases, any amounts, prices, batches and bounds.

* `FeePool_proofs` begins with the debt shares, whose state is part of the pool's:
  types, supply, supplies of past periods, frozen periods, the scan, and the
  refinement to `DebtShareBook`. The invariant (`IInv`) says that each history is
  strictly ordered by period and not ahead of the current one, that each
  period's supply is the sum of the balances as of it, and that a skipped period
  has none. Order is needed because a balance as of a period is the last
  checkpoint not after it; the frozen periods and the refinement then follow
  because every checkpoint is written in the current period.
* All properties of the fee periods are then proved over it. `ClaimsPayable` is
  not inductive: that one claim can be paid follows only from all that can still
  be claimed. The invariant (`PInv`) is that what those who have not claimed have
  to come, by their whole histories, is still in the closed period
  (`DueIsThere`): a claim takes as much from both sides; a close opens new claims,
  and shares of a supply that is their sum, each rounded down twice, are no more
  than what is shared. For that both periods must have recorded the supply of
  their own shares (`Recorded`), which needs ids that grow with the clock and the
  shares' periods (`Dates`), and nothing may be claimed twice or from a period
  that is open (`Counters`). `EscrowCoversRewards` comes with it, as what a period
  leaves is rolled over. One condition is that of the model, no relayed close in
  the second of another (`~SameSecondRelay`). The other is about the scan. As it
  looks at `MaxPeriodIterate` checkpoints, `ClaimsPayable` and `EntitlementFixed`
  speak of the accounts that it reaches (`ReachedClaimsPayable`,
  `EntitlementsStay`). It reaches everybody (`EverybodyReached`) if it is no
  shorter than the number of periods, or if the pool alone takes snapshots and
  the scan looks at two (`ScanSuffices`): then nobody has a checkpoint later than
  the current period. `PaidInFullAndOnce` needs no such
  condition, since a claim whose scan gives up reverts.
* `DebtPool_proofs`: types (no debt and no supply below zero), `CachedDebtSound`,
  no drift, `CacheExactWhileUndisturbed`, `ValidityIsHonest`. `Gap`, the distance
  of the total from its parts, is the invariant that makes the checked
  subtractions of the cache succeed or revert but never wrap; every partial
  update keeps it because it moves total and entries by the same sum over the
  same keys. That an undisturbed cache is exact cannot be shown of the total
  alone: the invariant (`Exact`) is that there is no gap and that every part,
  futures, excluded debt and the entry of each listed synth, is what a snapshot
  would read; the total then follows (`ExactTotal`). The entries are where the
  callers differ: an exchange rewrites those of the synths whose supply moved, a
  settlement that of its synth, and issuing or burning zUSD moves its entry by
  the amount, right because its rate is 1.0. For the same reason
  (its rate is never invalid) the calls that pass no flag leave validity honest,
  all but those that bridge, which the property names.
* `PerpsV2_proofs`: `PausesRespected`, in two halves. That a run opens nothing
  that it found paused (`FoundPausedStaysPaused`) needs an account of where the
  tool could learn of it: a market that the manager listed when the run began is
  listed still, or among what a new manager is about to import, or in the list
  that was read of it (`InSight`); so it is not new, was seen paused
  (`Remembered`), and is not opened (`StillPaused`); `OnlyNew` keeps the configured
  pause modes to new markets. That routes only change under a pause needs that a
  market at work that was there is paused until it is opened (`PausedMeanwhile`),
  and, for the
  proxies of earlier releases, that versions only grow (`Dated`) and that what
  the manager lists was listed when it was read (`Listed`). Least elements (the
  first market of a list) come from well-founded induction on naturals.
  `MarketsConsistent` is proved for releases that flag a state only with all
  that writes to it (`StateWithWriters`), as those of the run do.
  The invariant (`MInv`) carries it from deploy to import. What was ever built
  is there, belongs together and is numbered without gaps (`Contracted`); the
  last implementations are on the last state, or flagged (`OnLastState`), which
  is where the hypothesis comes in. Each step of a market relies on those
  before it, so what they have done by then is in the invariant (`HowFar`): the
  state initialized, its associates exact, the implementations behind this
  proxy, no route of another selector. So when the proxy is linked to the
  manager it leads to one state (`Consistent`), as do all proxies that the
  manager knows of markets that are open (`KnownOK`): a paused one may be half
  linked. What a new manager imports was read of the old one
  (`ImportOK`), what a run of all markets has passed is linked (`DoneOK`), so a
  complete release leaves no half-linked market for guardians to open
  (`CompleteOK`). That the selectors of two implementations never clash is
  `EachWanted`, the order of deployment `FirstMissing`.
  `LegacyLinkedWhilePaused` is proved for releases that besides replace a state
  with neither the proxy before it nor the manager (`StateApart`); without that
  it is false (section 3). A run pauses only the markets that the manager knows,
  so what has to be carried, from the flag in the configuration to the link and
  over any number of killed runs, is that the manager still knows the market: it
  is not replaced, the proxy in use is among its own, and a run has the market
  in the list it read (`InPlace`). A run that cleans up could drop it, but only if
  its proxy is not the one in use. The invariant (`TInv`) adds that a state yet to
  take over is the last of its market (`LastIsFresh`), that a complete release
  leaves none behind (`FreshAhead`, since a run of all markets still has it before
  it), and no market unknown to the manager, from which the next release starts
  (`CompleteKnows`).
* `OwnerCommands_proofs`: `FileIsTrue`, for an account, a safe or a relay and
  batches of any size. The invariant is a budget: for every action, the times it
  was sent, plus one if it waits to be sent (`Due`), plus one if a run of
  `nominate` may still open it again (`Reopens`), are at most one more than the
  crashes. Sending spends `Due`; `nominate` turns `Reopens` into `Due`, which
  needs that what it has passed needs no other run (`Passed`); a crash restores
  at most one of the two. That a list cut into batches has every call once is
  arithmetic (`BatchCover`, `BatchPlace`), and what is in memory is tied to what
  the file marks by `Memory`. `OrderKept` is proved for an account, and for a
  safe whose proposals are signed before the next run; without that it does not
  hold, since two proposals that wait may be signed in either order. It needs
  that the file holds what deployments left, in their order (`FileIsLeft`), that
  of each action performed, waiting or collected the one before is performed or
  comes with it (`Follows`), that all calls that wait for the signers can be
  made, so that a proposal does not fail (`CanBeMade`), that there is one
  proposal at a time (`OneProposal`), and that what is marked was performed or
  waits (`DoneOrWaiting`).
* `Bridge_proofs`: `NothingCreated`, for any accounts, entries, amounts, number
  of messages and of bridges. What holds of balances, entries and synths is
  inductive once three things are known: a message is addressed by its kind
  (`Addressed`: HZN that comes in left layer 1, and only a message with entries
  carries them), there are finitely many messages and each has the number of a
  call that was made (`Sent`), so that what is sent next is none of those on
  their way, and a bridge is never newer than the replacements that were made
  (`Links`). The rest is how sums change: one message more or less adds or
  takes what it carries of its kind (`OneMore`, `OneLess`), messages with entries
  nothing but those (`EscrowOnly`), the HZN of two disjoint sets of entries
  is that of both (`WorthUnion`), and whatever lists a call has, no entry is burnt
  twice (`BurnedOnceEach`). The steps of connect-bridge change links only.
* `Issuance_proofs`: all properties of issuance and liquidation.
  `RewardsCovered` holds while the accumulator fits the 128 bits of a stored
  entry (what follows a wrapped one is not proved). That what the accounts
  earned is covered is not inductive: each reward is rounded down by itself, and
  a sum of such may grow when shares change. The invariant (`Backed`) is about
  the amounts before rounding: shares times the growth of the accumulator since
  the account's entry, plus what its entry holds, in units, are over all accounts
  no more than the tokens held. Noting an entry moves the first part to the
  second and loses what is rounded off; a payment takes as much from both sides;
  a new reward raises the accumulator by a quotient, and the shares of all
  accounts times a quotient by the sum of shares are no more than what was
  divided. Only an account whose entry was noted in the same step changes its
  shares, which is what migration breaks.
  `LiquidationCanPay`: the ratio that opens an account counts as collateral what
  flagger and liquidator get, and what fixes the ratio does not; so what must be
  redeemed is there if those rewards are worth more than what the quotients
  round. The hypothesis is `rewardsSum * (2 * IssuanceRatio + 1) >= Unit`: one HZN
  is enough, and deployments set 300 (index.js:127-128).
  `RatioRespected`: an issue computes what it mints from the shares that the
  debt is worth, and comes back to debt through the ratio after it; both ways
  round by no more than `Slack`. It holds as long as the stored entries fit their
  width (`RewardsFit`), since what an entry holds is collateral, and needs that
  who has shares, if not by migration, is known to LiquidatorRewards (`Entered`):
  else the first update of its entry, which keeps nothing, would take from it
  collateral it was counted with.
  `OthersUnharmed`: minting and burning keep the ratio of debt to shares, up to
  rounding, so what others owe stays; a liquidation takes shares and leaves the
  debt, so theirs grows by the debt removed in proportion to the shares left,
  and the HZN redeemed is worth that debt and a penalty, and is spread by the
  accumulator in the same proportion. The two products are compared before
  either is divided. `NoExitBeforeStakeTime` follows from what is left of the debt
  after the burn, read through the same ratio.
* `Exchanger_proofs`: all the properties of exchanges. That a balance covers what
  its settlement will reclaim is not inductive, because until a period ends the
  reclaim moves with every round. The invariant (`Covered`) charges each entry
  with the most it may still take: all that the exchange gave while the entry
  waits, and what the rounds say afterwards (`MayTake`). An exchange adds as much
  to the balance as to that charge; time only lowers it, since no settlement
  takes more than was received (`DifferenceType`, `LaterTakesLess`); a round
  leaves it alone, because a round that comes when a period is over is never the
  last one within it (`SameRoundAtEnd`), which also is why entitlements are
  fixed; and nothing may be sent before the waiting is over, when the charge is
  the reclaim itself. It is the sum of what all entries take, without what others
  add, which the code does not need, but which is what `transferableSynths`
  leaves. For the fees, the queues of FEE_ADDRESS are empty (`NoFeeQueue`) until
  other synths are sent there. Each call is shown to do to each balance and its
  queue one of five things (`Cell`); the invariant follows from those. That the
  formulas give naturals needs the dynamic fee to be one, for any number of
  rounds; its recursion is followed by induction.
* `Arithmetic_proofs`: the lemmas those rest on (a sum changes by what one value
  changes; a sum over a union; a factor taken out of a sum, by its least
  counterexample; the parts of a whole, each rounded down, are no more than the
  whole; products and quotients of naturals are naturals, and how far a quotient
  that truncates or rounds is from the fraction; induction on naturals, stated
  about a set).

Assumptions are the named `ASSUME`s on constants; conditions beyond those are in
the statements of the theorems. Three of the assumptions serve proofs: accounts
are finite and the bounds admit the first state (issuance), and the clock admits
a second period (fee periods).

Model-checked only, and why:

* `DeploymentSound`, `CompleteMeansWired` and `NeverBack` of the deployment: what a
  run does is the script filtered for an instance, and that no step is lost or
  reordered by filtering is an induction over the script.
* `HoldersKeepTheirs` and `FilesFollowChain` of the synth commands: the list of
  rewards is filtered in the same way.
* `EscrowConsistent`, `ListsAreStable` and `ImplementsBook` of the reward escrow: a
  call vests, moves or imports a list of ids, one after another, and what the
  fold computes for any list is an induction over it.
* Liveness, in every run that has it.
* Of the decay in `DynamicFee`, the proofs use no more than that it is a natural.

## 5. The plan, and what is not modelled

Done: debt shares; debt cache and pool; exchanges; fee periods; issuance and
liquidation; reward escrow; the deployment script and its runs; the owner's
commands; the perps upgrade; the commands on synths and rewards; the bridges and
their connection.

What could follow: the migration of debt between the layers, over the messages
of `Bridge`; `StakingRewards` and `SupplySchedule`; loans, wrappers, `Depot`,
`SynthRedeemer`; the futures markets themselves; `SystemStatus`,
`TemporarilyOwned`, `OwnerRelay*`. Among the commands: `migrate-*`, and the mining of several transactions at
once by `NonceManager`. Of proofs: the sums of `RewardEscrowV2`, and the lists of
the deployment script, with a prover that has induction over sequences.

Not modelled, and why: compiling, verifying and publishing (`build`, `verify`,
`release`: no state of the protocol, input and output only); the questions to
the operator except where a refusal changes what follows; gas prices, providers
and their errors other than a stop; parameters' values (a setting is unset or as
configured); the package interface in `index.js`, which reads and formats the
files; mocks and legacy contracts, allowances, events, formatting of keys, gas
limits, and the contracts' proxies, which the models see through.
