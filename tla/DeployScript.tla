---------------------------- MODULE DeployScript ----------------------------
(***************************************************************************)
(* What "deploy" does, in its order: the contracts it deploys or reuses    *)
(* (commands/deploy/deploy-*.js) and the settings it brings about          *)
(* (commands/deploy/configure-*.js).  Each entry of a table is one call of *)
(* deployer.deployContract or of runStep; which of them are made, and what *)
(* a call does, is in Deployment.                                          *)
(***************************************************************************)
EXTENDS Naturals, Sequences, SequencesExt

CONSTANTS
  Currency,      \* the synths of synths.json, in its order
  Feed,          \* the assets of feeds.json that have an address, in its order
  AssetOf,       \* the asset of each synth
  Lent,          \* the synths that loans are made in, and those of shorts
  FuturesKey,    \* the markets of futures-markets.json, in its order
  useOvm         \* a layer 2 deployment

TokenStateOf(key) == "TokenState" \o key
ProxyOf(key) == "Proxy" \o key
ZassetOf(key) == "Zasset" \o key

(* Values: the address of a contract of this run, a deployment parameter,    *)
(* no address.                                                               *)
AddressOf(name) == [is |-> "address", of |-> name]
Param(key) == [is |-> "param", of |-> key]
ZERO_ADDRESS == [is |-> "zero", of |-> "zero"]

(* One call of deployContract: init says what its arguments set, force that  *)
(* the call passes the option addNewSynths of the command.                   *)
Deploy(name, deps, init) ==
  [do |-> "deploy", name |-> name, deps |-> deps, init |-> init, force |-> FALSE]
Nothing == [f \in {} |-> ZERO_ADDRESS]
Resolved == [resolver |-> AddressOf("ReadProxyAddressResolver")]
Forced(op) == [op EXCEPT !.force = TRUE]

(* One call of runStep: write the value of a field of a contract, unless     *)
(* what is read there is as expected.  guard: the contracts that must be     *)
(* among the deployed ones for the call to be made; gate: the call is made   *)
(* only when config.json has one of these flagged.                           *)
Step(contract, field, expected, value, guard) ==
  [do |-> "step", contract |-> contract, field |-> field, expected |-> expected,
   value |-> value, guard |-> guard, gate |-> {}]
(* "Ensure": input === value.                                                *)
Link(contract, field, name) ==
  Step(contract, field, "equals", AddressOf(name), {contract, name})
Gated(step, flags) == [step EXCEPT !.gate = flags]
Each(contract, fields, expected) ==
  [i \in DOMAIN fields |-> Step(contract, fields[i], expected, Param(fields[i]), {contract})]
(* allowZeroOrUpdateIfNonZero: the default, only if nothing is set.          *)
Defaults(contract, fields) == Each(contract, fields, "unset")
(* Equal to what the parameter says.                                         *)
Equals(contract, fields) == Each(contract, fields, "equals")
(* input !== 0 where the input is a string: nothing is ever required.        *)
NotRequired(contract, fields) == Each(contract, fields, "always")
Keyed(field, keys) == [i \in DOMAIN keys |-> field \o keys[i]]
Special(what) == [do |-> what]

(* Contracts that are not put in the resolver.                               *)
Library == {"SystemSettingsLib", "SignedSafeDecimalMath", "ExchangeSettlementLib"}

-----------------------------------------------------------------------------
(* Contracts *)

deployLibraries == <<
  Deploy("SafeDecimalMath", {}, Nothing),
  Deploy("Math", {}, Nothing),
  Deploy("SystemSettingsLib", {}, Nothing),
  Deploy("SignedSafeDecimalMath", {}, Nothing),
  Deploy("ExchangeSettlementLib", {}, Nothing),
  Deploy("AddressResolver", {}, Nothing),
  Deploy("ReadProxyAddressResolver", {}, Nothing),
  Deploy("OneNetAggregatorIssuedSynths", {}, Resolved),
  Deploy("OneNetAggregatorDebtRatio", {}, Resolved) >>

deployToken == <<
  Deploy("FlexibleStorage", {"ReadProxyAddressResolver"}, Resolved),
  Deploy("SystemSettings", {}, Resolved),
  Deploy("SystemStatus", {}, Nothing),
  Deploy("ExchangeRates", {}, Resolved),
  Deploy("TokenStateSynthetix", {}, Nothing),
  Deploy("ProxySynthetix", {}, Nothing),
  Deploy("Synthetix", {"ProxySynthetix", "TokenStateSynthetix", "AddressResolver"},
         [proxy |-> AddressOf("ProxySynthetix"), tokenState |-> AddressOf("TokenStateSynthetix")]) >>

deployEscrows == <<
  Deploy("RewardEscrow", {}, [synthetix |-> ZERO_ADDRESS, feePool |-> ZERO_ADDRESS]),
  Deploy("RewardEscrowV2Frozen", {"AddressResolver"}, Resolved),
  Deploy("RewardEscrowV2Storage", {"AddressResolver"}, [associatedContract |-> ZERO_ADDRESS]),
  Deploy("RewardEscrowV2", {"AddressResolver"}, Resolved),
  Deploy("SynthetixEscrow", {}, [synthetix |-> ZERO_ADDRESS]),
  Deploy("SynthetixState", {}, Nothing),
  Deploy("SynthetixDebtShare", {"AddressResolver"}, Resolved) >>

deployFees == <<
  Deploy("ProxyFeePool", {}, Nothing),
  Deploy("DelegateApprovalsEternalStorage", {}, [associatedContract |-> ZERO_ADDRESS]),
  Deploy("DelegateApprovals", {}, [eternalStorage |-> AddressOf("DelegateApprovalsEternalStorage")]),
  Deploy("Liquidator", {}, Resolved),
  Deploy("LiquidatorRewards", {"AddressResolver"}, Resolved),
  Deploy("FeePoolEternalStorage", {}, [associatedContract |-> ZERO_ADDRESS]),
  Deploy("FeePool", {"ProxyFeePool", "AddressResolver"}, [proxy |-> AddressOf("ProxyFeePool")]),
  Deploy("FeePoolState", {"FeePool"}, [feePool |-> AddressOf("FeePool")]),
  Deploy("RewardsDistribution", {"RewardEscrowV2", "ProxyFeePool"},
         [authority |-> ZERO_ADDRESS, synthetixProxy |-> ZERO_ADDRESS,
          rewardEscrow |-> AddressOf("RewardEscrowV2"), feePoolProxy |-> AddressOf("ProxyFeePool")]) >>

deployDebtAndExchange == <<
  Deploy("DebtCache", {"AddressResolver"}, Resolved),
  Deploy("Exchanger", {"AddressResolver"}, Resolved),
  Deploy("CircuitBreaker", {"AddressResolver"}, Resolved),
  Deploy("ExchangeCircuitBreaker", {"AddressResolver"}, Resolved),
  Deploy("VirtualSynthMastercopy", {}, Nothing),
  Deploy("ExchangeState", {"Exchanger"}, [associatedContract |-> AddressOf("Exchanger")]),
  Deploy("Issuer", {"AddressResolver"}, Resolved),
  Deploy("TradingRewards", {"AddressResolver", "Exchanger"}, Resolved),
  Deploy("SupplySchedule", {}, Nothing),
  Deploy("EscrowChecker", {"SynthetixEscrow"}, [synthetix_escrow |-> AddressOf("SynthetixEscrow")]) >>

deployBridges == <<
  Deploy("SynthetixBridgeToBase", {"AddressResolver"}, Resolved),
  Deploy("SynthetixBridgeToOptimism", {"AddressResolver"}, Resolved),
  Deploy("SynthetixBridgeEscrow", {"AddressResolver"}, Nothing),
  Deploy("OwnerRelayOnEthereum", {"AddressResolver"}, Resolved),
  Deploy("OwnerRelayOnOptimism", {"AddressResolver"}, Resolved),
  Deploy("SynthRedeemer", {"AddressResolver"}, Resolved),
  Deploy("WrapperFactory", {"AddressResolver"}, Resolved),
  Deploy("DirectIntegrationManager", {"AddressResolver"}, Resolved) >>

deployCore == deployLibraries \o deployToken \o deployEscrows \o deployFees
              \o deployDebtAndExchange \o deployBridges

(* The three contracts of each synth; with addNewSynths also of one that is  *)
(* not in config.json.  Before a flagged synth is deployed, the supply of    *)
(* the one it replaces is read.                                              *)
deploySynths ==
  FlattenSeq([i \in DOMAIN Currency |-> LET k == Currency[i] IN
    << Forced(Deploy(TokenStateOf(k), {}, [associatedContract |-> ZERO_ADDRESS])),
       Forced(Deploy(ProxyOf(k), {}, Nothing)),
       [do |-> "readOldSupply", name |-> ZassetOf(k)],
       Forced(Deploy(ZassetOf(k), {TokenStateOf(k), ProxyOf(k), "Synthetix", "FeePool"},
                     [proxy |-> AddressOf(ProxyOf(k)), tokenState |-> AddressOf(TokenStateOf(k))])) >>])

deployLoans ==
  << Deploy("Depot", {"ProxySynthetix", "ZassetzUSD", "FeePool"}, Resolved),
     Deploy("EtherWrapper", {"AddressResolver"}, IF useOvm THEN Nothing ELSE Resolved) >>
  \o (IF useOvm THEN <<>> ELSE << Deploy("NativeEtherWrapper", {"AddressResolver"}, Resolved) >>) \o
  << Deploy("CollateralUtil", {}, Resolved),
     Deploy("CollateralManagerState", {}, Nothing),
     Deploy("CollateralManager", {},
            [state |-> AddressOf("CollateralManagerState"), maxDebt |-> Param("maxDebt"),
             maxSkewRate |-> Param("maxSkewRate"), baseBorrowRate |-> Param("baseBorrowRate"),
             baseShortRate |-> Param("baseShortRate")]),
     Deploy("CollateralEth", {}, [manager |-> AddressOf("CollateralManager")]),
     Deploy("CollateralErc20", {}, [manager |-> AddressOf("CollateralManager")]),
     Deploy("CollateralShort", {}, [manager |-> AddressOf("CollateralManager")]) >>

deployDappUtils == <<
  Deploy("SynthUtil", {"ReadProxyAddressResolver"}, Resolved),
  Deploy("DappMaintenance", {}, Nothing) >>

(* The legacy futures: the manager is there already, or deployed first.      *)
FuturesMarket(key) == "FuturesMarket" \o key
deployFutures ==
  << Deploy("FuturesMarketManager", {"ReadProxyAddressResolver"}, Resolved),
     Deploy("FuturesMarketData", {"AddressResolver"}, Resolved),
     Deploy("FuturesMarketSettings", {}, Resolved) >>
  \o [i \in DOMAIN FuturesKey |-> Deploy(FuturesMarket(FuturesKey[i]), {}, Resolved)]
  \o [i \in DOMAIN FuturesKey |->  \* the manager's list becomes what was just deployed
        Step("FuturesMarketManager", "market" \o FuturesKey[i], "equals",
             AddressOf(FuturesMarket(FuturesKey[i])),
             {"FuturesMarketManager", FuturesMarket(FuturesKey[i])})]

-----------------------------------------------------------------------------
(* Links between contracts *)

setAssociatedContract(state, name) == Link(state, "associatedContract", name)
setTarget(proxy, name) == Link(proxy, "target", name)
(* The field is the address that was given the right last: what is read is   *)
(* the right of the present one.  (An earlier one keeps its own.)            *)
updateAccessControl(section, name) ==
  Link("SystemStatus", "accessControl" \o section, name)

configureStateAndProxies == <<
  setAssociatedContract("DelegateApprovalsEternalStorage", "DelegateApprovals"),
  setTarget("ProxyFeePool", "FeePool"),
  setAssociatedContract("FeePoolEternalStorage", "FeePool"),
  setTarget("ProxySynthetix", "Synthetix"),
  Link("Synthetix", "proxy", "ProxySynthetix"),
  setAssociatedContract("ExchangeState", "Exchanger"),
  updateAccessControl("Synth", "ExchangeCircuitBreaker"),
  updateAccessControl("Issuance", "Issuer") >>

(* The supply is only set, and the earliest escrow only connected, when      *)
(* config.json says that one of these is being redeployed.                   *)
initialIssuance ==
  Gated(Step("TokenStateSynthetix", "balanceOf", "equals", Param("INITIAL_ISSUANCE"),
             {"TokenStateSynthetix"}), {"TokenStateSynthetix"})
escrowFindsProxy ==
  Gated(Step("SynthetixEscrow", "synthetix", "equals", AddressOf("ProxySynthetix"), {}),
        {"Synthetix", "SynthetixEscrow"})

configureTokenAndEscrow == <<
  initialIssuance,
  setAssociatedContract("TokenStateSynthetix", "Synthetix"),
  Link("RewardEscrow", "synthetix", "Synthetix"),
  Link("RewardEscrow", "feePool", "FeePool"),
  [Link("SupplySchedule", "synthetixProxy", "ProxySynthetix")
     EXCEPT !.guard = {"SupplySchedule", "Synthetix"}],
  Link("RewardsDistribution", "authority", "Synthetix"),
  [Link("RewardsDistribution", "synthetixProxy", "ProxySynthetix")
     EXCEPT !.guard = {"Synthetix", "RewardsDistribution"}],
  escrowFindsProxy >>

configureLegacySettings ==
  << Step("SystemStatus", "accessControlOwner", "unset", Param("owner"), {"SystemStatus"}) >>
  \o configureStateAndProxies \o configureTokenAndEscrow

configureRewardEscrow == <<
  Step("RewardEscrowV2Storage", "associatedContract", "equals", AddressOf("RewardEscrowV2"), {}),
  Step("RewardEscrowV2Storage", "fallbackRewardEscrow", "unset",
       AddressOf("RewardEscrowV2Frozen"), {}),
  Step("RewardsDistribution", "rewardEscrow", "equals", AddressOf("RewardEscrowV2"), {}) >>

configureStandalonePriceFeeds == Equals("ExchangeRates", Keyed("aggregators", Feed))

configureSynths ==
  FlattenSeq([i \in DOMAIN Currency |-> LET k == Currency[i] IN
    << setAssociatedContract(TokenStateOf(k), ZassetOf(k)),
       setTarget(ProxyOf(k), ZassetOf(k)),
       Link(ZassetOf(k), "proxy", ProxyOf(k)),
       Step("ExchangeRates", "aggregators" \o k, "equals", Param(AssetOf[k]), {"ExchangeRates"}) >>])

configureOffchainPriceFeeds ==
  Equals("PerpsV2ExchangeRate", <<"offchainOracle">> \o Keyed("offchainPriceFeedId", Feed))

-----------------------------------------------------------------------------
(* Settings *)

exchangeFeeRates == Equals("SystemSettings", Keyed("exchangeFeeRate", Currency))

exchangeSettings ==
  Defaults("SystemSettings", <<"waitingPeriodSecs", "priceDeviationThresholdFactor">>)
  \o Equals("SystemSettings", <<"tradingRewardsEnabled">>)

stakingSettings ==
  Defaults("SystemSettings",
           <<"issuanceRatio", "feePeriodDuration", "targetThreshold", "liquidationDelay",
             "liquidationRatio", "liquidationPenalty", "snxLiquidationPenalty",
             "selfLiquidationPenalty", "liquidationEscrowDuration", "flagReward",
             "liquidateReward">>)

debtSettings ==
  Defaults("SystemSettings", <<"rateStalePeriod", "minimumStakeTime", "debtSnapshotStaleTime">>)

crossDomainSettings ==
  Defaults("SystemSettings",
           Keyed("crossDomainMessageGasLimit",
                 <<"Deposit", "Escrow", "Reward", "Withdrawal", "CloseFeePeriod", "Relay">>))

wrapperSettings ==
  (IF useOvm THEN <<>> ELSE Defaults("SystemSettings", <<"aggregatorWarningFlags">>))
  \o Defaults("SystemSettings",
              <<"etherWrapperMaxETH", "etherWrapperMintFeeRate", "etherWrapperBurnFeeRate">>)

dynamicFeeSettings ==
  Defaults("SystemSettings",
           <<"exchangeDynamicFeeThreshold", "exchangeDynamicFeeWeightDecay",
             "exchangeDynamicFeeRounds", "exchangeMaxDynamicFee">>)

atomicSettings ==
  Defaults("SystemSettings", <<"atomicMaxVolumePerBlock", "atomicTwapWindow">>
                             \o Keyed("atomicEquivalentForDexPricing", Currency))
  \o NotRequired("SystemSettings",
                 Keyed("atomicExchangeFeeRate", Currency)
                 \o Keyed("atomicVolatilityConsiderationWindow", Currency)
                 \o Keyed("atomicVolatilityUpdateThreshold", Currency))
  \o Equals("ExchangeRates", <<"dexPriceAggregator">>)

shortSettings == Defaults("SystemSettings", <<"interactionDelay", "collapseFeeRate">>)

configureSystemSettings ==
  exchangeFeeRates \o exchangeSettings \o stakingSettings \o debtSettings
  \o crossDomainSettings \o wrapperSettings \o dynamicFeeSettings \o atomicSettings
  \o shortSettings

-----------------------------------------------------------------------------
(* Loans and futures *)

(* Each kind of loan knows the manager, its synths and its fee.              *)
configureLoan(loan) ==
  << Link(loan, "manager", "CollateralManager") >>
  \o Defaults(loan, <<"synths", "issueFeeRate">>)

configureManager ==
  Defaults("CollateralManager",
           <<"maxDebt", "maxSkewRate", "baseBorrowRate", "baseShortRate">>
           \o Keyed("synthsByKey", Lent) \o Keyed("shortableSynthsByKey", Lent))

(* One call adds those of the three that the manager does not list.          *)
collaterals ==
  LET loans == <<"CollateralShort", "CollateralEth", "CollateralErc20">> IN
  [i \in DOMAIN loans |-> Link("CollateralManager", "collaterals" \o loans[i], loans[i])]

configureLoans ==
  << setAssociatedContract("CollateralManagerState", "CollateralManager") >>
  \o collaterals
  \o configureLoan("CollateralEth") \o configureLoan("CollateralErc20")
  \o configureLoan("CollateralShort") \o Defaults("CollateralShort", <<"interactionDelay">>)
  \o configureManager

configureFutures ==
  Equals("FuturesMarketSettings",
         <<"minInitialMargin", "liquidationFeeRatio", "liquidationBufferRatio", "minKeeperFee">>)
  \o FlattenSeq([i \in DOMAIN FuturesKey |->
        Equals("FuturesMarketSettings",
               Keyed(FuturesKey[i],
                     <<"takerFee", "makerFee", "takerFeeNextPrice", "makerFeeNextPrice",
                       "nextPriceConfirmWindow", "maxLeverage", "maxMarketValueUSD",
                       "maxFundingRate", "skewScaleUSD">>))])
(* Paused or not as the file of the markets says.                            *)
pauseFuturesMarkets == Equals("SystemStatus", Keyed("futuresMarketSuspension", FuturesKey))

configurePerpsV2GenericParams ==
  Equals("PerpsV2MarketSettings",
         <<"minInitialMargin", "liquidationFeeRatio", "minKeeperFee", "maxKeeperFee", "keeperLiquidationFee">>)

-----------------------------------------------------------------------------
(* RPAR.setTarget(AR) goes before the addresses are imported.                *)
importAddresses ==
  << setTarget("ReadProxyAddressResolver", "AddressResolver"), Special("importAddresses") >>

(* deploy() of index.js, in order *)
deployContracts ==
  deployCore \o deploySynths \o deployLoans \o deployFutures \o deployDappUtils
  \o importAddresses \o << Special("rebuildResolverCaches") >>
configureContracts ==
  configureLegacySettings \o configureRewardEscrow
  \o << Special("importFeePeriods") >>
  \o configureStandalonePriceFeeds \o configureOffchainPriceFeeds
  \o configureSynths \o << Special("addSynthsToProtocol") >>
  \o configureSystemSettings \o configureLoans \o configureFutures \o pauseFuturesMarkets
  \o configurePerpsV2GenericParams
Everything == deployContracts \o configureContracts
=============================================================================
