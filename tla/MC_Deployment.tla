---------------------------- MODULE MC_Deployment ----------------------------
(* A system of the resolver, the token, the fee pool, the issuer and one     *)
(* synth that the second release adds.                                       *)
EXTENDS Deployment

MCCurrency == <<"hBTC">>
MCFeed == <<>>
MCAssetOf == [k \in {"hBTC"} |-> "BTC"]
MCKeys == <<>>
NewSynth == {"TokenStatehBTC", "ProxyhBTC", "ZassethBTC"}
Undeployed == {"Exchanger", "TradingRewards"}
MCName == {"AddressResolver", "ReadProxyAddressResolver", "FlexibleStorage", "SystemSettings",
           "ProxySynthetix", "Synthetix", "SynthetixEscrow", "ProxyFeePool", "FeePool",
           "Issuer", "SystemStatus"} \cup NewSynth \cup Undeployed
MCExisting == MCName \ (NewSynth \cup Undeployed)
MCResolverAddressesRequired ==
  [n \in MCName |->
     CASE n = "SystemSettings" -> {"FlexibleStorage"}
       [] n = "Synthetix" -> {"Issuer"}
       [] n = "FeePool" -> {"Issuer"}
       [] n = "Issuer" -> {"Synthetix", "FeePool"}
       [] n = "ZassethBTC" -> {"Issuer", "FeePool"}
       [] OTHER -> {}]
MCSettings == {"waitingPeriodSecs"}
MCOwnerships == {{}, {"AddressResolver", "FeePool"}, MCExisting}
(* The last two cannot be deployed: the synth only once it is there and with *)
(* the issuer, the trading rewards not without the exchanger.                *)
MCReleases ==
  [sources : {{"FeePool", "SystemSettings"}, {"AddressResolver", "Issuer"},
              {"ProxyhBTC", "ZassethBTC"}, {"TradingRewards"}}, addNewSynths : {FALSE}]
  \cup {[sources |-> {}, addNewSynths |-> TRUE]}
MCNonUpgradeable == {"ReadProxyAddressResolver", "ProxySynthetix", "SynthetixEscrow", "ProxyFeePool",
                     "TokenStatehBTC", "ProxyhBTC"}
MCResumed == {[sources |-> {"SynthetixEscrow"}, addNewSynths |-> FALSE]}
==============================================================================
