----------------------------- MODULE MC_PerpsV2 -----------------------------
(* One market that exists and a new one, with three implementations.  In the *)
(* second version exit moves from one implementation to the other, which has *)
(* no submit any more, and both have modify.  A release is of a proxy, of    *)
(* the manager, or of a state with all that is built on it.  (With MCBoth,   *)
(* or MCWithProxy, as Releases, a release of the last with one of the others, *)
(* LegacyLinkedWhilePaused fails.)                                           *)
EXTENDS PerpsV2

MCMarket == <<"BTC", "ETH">>
MCOffchain == [m \in {"BTC", "ETH"} |-> IF m = "BTC" THEN "ocBTC" ELSE "ocETH"]
MCKind == {"PerpsV2Market", "PerpsV2DelayedIntent", "PerpsV2MarketViews"}
MCFunctions == [k \in MCKind |->
  CASE k = "PerpsV2Market" -> << {"modify", "exit"}, {"modify"} >>
    [] k = "PerpsV2DelayedIntent" -> << {"submit"}, {"exit", "modify"} >>
    [] OTHER -> << {"position"} >>]
BTC(parts) == {<<"BTC", part>> : part \in parts}
MCState == BTC({"PerpsV2MarketState"} \cup MCKind)
MCNewManager == {<<"", "FuturesMarketManager">>}
MCReleases == {BTC({"PerpsV2Proxy"}), MCNewManager, MCState}
MCBoth == {MCNewManager \cup MCState}
MCWithProxy == {BTC({"PerpsV2Proxy"}) \cup MCState}
MCOptions == { [markets |-> {"BTC", "ETH"}, cleanup |-> FALSE], [markets |-> {"ETH"}, cleanup |-> FALSE],
               [markets |-> {}, cleanup |-> TRUE] }
=============================================================================
