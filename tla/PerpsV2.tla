------------------------------- MODULE PerpsV2 -------------------------------
(***************************************************************************)
(* The part of the deploy command that deploys and upgrades the PerpsV2    *)
(* markets.  A market is a proxy that routes each function to one of       *)
(* several implementations, a state contract that takes over from the one  *)
(* before it, and an entry of the manager; an upgrade deploys some of them *)
(* and links all of them again, one transaction after the other, with the  *)
(* market paused.  A run may stop anywhere; the next one goes on from what *)
(* config.json, deployment.json and the chain say.  Guardians pause        *)
(* markets whenever they want.                                             *)
(*                                                                         *)
(* That a contract is mined, written down and loses its flag is one step   *)
(* here (Deployment.tla has the steps between), and so are the settings of *)
(* a market.  The account that deploys owns all the contracts.             *)
(***************************************************************************)
EXTENDS Integers, Sequences, FiniteSets, SequencesExt

CONSTANTS
  Market,       \* the keys of perpsv2-markets.json, in its order
  Offchain,     \* the offchain key of each market
  Kind,         \* the implementations of the instance
  Functions,    \* of each implementation, by version: the selectors, without the excluded ones
  Existing,     \* the markets that are there in the beginning
  paused,       \* the keys that are paused by configuration
  Releases,     \* what may be flagged together: pairs <<market, part>>
  Options,      \* how deploy may be run: [markets, cleanup]
  MaxReleases, MaxCrashes, MaxPauses  \* bounds, the last one of the guardians

(* The implementations in the order in which they are deployed.              *)
implementationConfigurations == <<
  [part |-> "PerpsV2Market", isView |-> FALSE, useExchangeRate |-> FALSE],
  [part |-> "PerpsV2MarketLiquidate", isView |-> FALSE, useExchangeRate |-> FALSE],
  [part |-> "PerpsV2DelayedIntent", isView |-> FALSE, useExchangeRate |-> TRUE],
  [part |-> "PerpsV2DelayedExecution", isView |-> FALSE, useExchangeRate |-> TRUE],
  [part |-> "PerpsV2MarketViews", isView |-> TRUE, useExchangeRate |-> FALSE]>>
Implementations == {c \in ToSet(implementationConfigurations) : c.part \in Kind}
Mutating == {c.part : c \in {c \in Implementations : ~c.isView}}
UsesRate == {c.part : c \in {c \in Implementations : c.useExchangeRate}}

Proxy == "PerpsV2Proxy"   State == "PerpsV2MarketState"
Manager == <<"", "FuturesMarketManager">>
Parts == {Proxy, State} \cup Kind
Name == {Manager} \cup (ToSet(Market) \X Parts)
Key == ToSet(Market) \cup {Offchain[m] : m \in ToSet(Market)}

ASSUME MarketIsList == Market \in Seq(ToSet(Market)) /\ "" \notin ToSet(Market) /\ IsInjective(Market)
ASSUME MarketAssumption ==
  /\ Existing \subseteq ToSet(Market) /\ paused \subseteq Key
  /\ DOMAIN Offchain = ToSet(Market) /\ \A m \in ToSet(Market) : Offchain[m] \notin ToSet(Market)
  /\ Kind \subseteq {c.part : c \in ToSet(implementationConfigurations)}
  /\ Releases \subseteq SUBSET Name
  /\ \A o \in Options : o.markets \subseteq ToSet(Market) /\ o.cleanup \in BOOLEAN
  /\ MaxReleases \in Nat /\ MaxCrashes \in Nat /\ MaxPauses \in Nat
ASSUME FunctionsAssumption ==
  \A part \in Kind :
    /\ Functions[part] \in Seq(ToSet(Functions[part])) /\ Functions[part] # <<>>
    /\ \A functions \in ToSet(Functions[part]) : IsFiniteSet(functions)

VARIABLES
  config,     \* config.json: the contracts that are flagged
  targets,    \* deployment.json: how often each contract was deployed, which is its address
  chain,      \* the contracts
  suspended,  \* SystemStatus: who paused each key last, if it is paused
  proc,       \* the memory of the process
  history

vars == <<config, targets, chain, suspended, proc, history>>

At(tg, m, part) == <<m, part, tg[<<m, part>>]>>
Deployed(tg, m, part) == tg[<<m, part>>] # 0
none == <<>>

(* The contracts of a market: the proxy with its routes, the state with what *)
(* may write to it, the implementations with what they were built on.        *)
Contracts(tg, m) == {At(tg, m, part) : part \in Parts}
selectors(part, nr) == Functions[part][IF nr <= Len(Functions[part]) THEN nr ELSE Len(Functions[part])]

-----------------------------------------------------------------------------
(* filteredFunctions: of the implementations that have a function the first. *)
Wanted(tg, m) ==
  LET at(i) == implementationConfigurations[i].part
      has(i) == IF at(i) \in Kind THEN selectors(at(i), tg[<<m, at(i)>>]) ELSE {}
      filtered(i) == has(i) \ UNION {has(j) : j \in 1..(i - 1)} IN
  UNION {{[selector |-> f, to |-> At(tg, m, at(i))] : f \in filtered(i)} :
           i \in DOMAIN implementationConfigurations}
Targets(routes) == {r.to : r \in routes}
MutatingAt(tg, m) == {At(tg, m, part) : part \in Mutating}

InitialTargets == [n \in Name |-> IF n = Manager \/ n[1] \in Existing THEN 1 ELSE 0]
Init ==
  /\ config = {}
  /\ targets = InitialTargets
  /\ chain =
       LET tg == InitialTargets
           made(part) == {At(tg, m, part) : m \in Existing} IN
       [routes |-> [p \in made(Proxy) |-> Wanted(tg, p[1])],
        state |-> [s \in made(State) |->
                     [legacy |-> none, initialized |-> TRUE, associated |-> MutatingAt(tg, s[1])]],
        impl |-> [i \in UNION {made(k) : k \in Kind} |->
                     [state |-> At(tg, i[1], State), proxy |-> At(tg, i[1], Proxy), manager |-> 1]],
        rates |-> UNION {made(k) : k \in UsesRate},
        managers |-> << [p \in made(Proxy) |-> Targets(Wanted(tg, p[1]))] >>,
        configured |-> Existing,
        canSuspend |-> FALSE]
  /\ suspended = [k \in Key |-> IF k \in paused THEN "guardian" ELSE "no"]
  /\ proc = [step |-> "off"]
  /\ history = [releases |-> 0, crashes |-> 0, pauses |-> 0, complete |-> TRUE, opened |-> Existing, foundPaused |-> {}]

(* The next release, when the one before is complete.                        *)
PrepareDeploy ==
  /\ proc.step = "off" /\ history.complete /\ history.releases < MaxReleases
  /\ \E flagged \in Releases : config' = flagged /\ flagged # {}
  /\ history' = [history EXCEPT !.releases = @ + 1, !.complete = FALSE]
  /\ UNCHANGED <<targets, chain, suspended, proc>>

known == chain.managers[targets[Manager]]
Keys(markets) == {p[1] : p \in markets}
NeedsDeploy(n) == n \in config \/ targets[n] = 0

-----------------------------------------------------------------------------
(* deployPerpsV2Generics *)

Goto(step) == proc' = [proc EXCEPT !.step = step]

Start(options) ==
  /\ proc.step = "off" /\ ~history.complete
  /\ proc' = [step |-> "manager", todo |-> options.markets, cleanup |-> options.cleanup,
              all |-> options.markets = ToSet(Market), before |-> {}, existing |-> {}, wasPaused |-> FALSE, updated |-> {}]
  /\ history' = [history EXCEPT !.foundPaused = {k \in ToSet(Market) \cap Keys(DOMAIN known) : suspended[k] # "no"}]
  /\ UNCHANGED <<config, targets, chain, suspended>>

(* A new manager begins with no market.                                      *)
DeployManager ==
  /\ proc.step = "manager"
  /\ IF NeedsDeploy(Manager)
     THEN /\ targets' = [targets EXCEPT ![Manager] = @ + 1]
          /\ config' = config \ {Manager}
          /\ chain' = [chain EXCEPT !.managers = Append(@, <<>>)]
          /\ proc' = [proc EXCEPT !.step = "import", !.before = DOMAIN known]
     ELSE /\ Goto("markets")
          /\ UNCHANGED <<config, targets, chain>>
  /\ UNCHANGED <<suspended, history>>

(* FuturesMarketManager.addProxiedMarkets reverts for a key that has a       *)
(* market; it asks the proxies for their targets.                            *)
CanAdd(proxies) == proxies \cap DOMAIN known = {} /\ Keys(proxies) \cap Keys(DOMAIN known) = {}
Known(markets) == [chain EXCEPT !.managers[targets[Manager]] = markets]
addProxiedMarkets(proxies) ==
  chain' = Known([p \in DOMAIN known \cup proxies |->
                    IF p \in proxies THEN Targets(chain.routes[p]) ELSE known[p]])
updateMarketsImplementations(proxies) ==
  chain' = Known([p \in DOMAIN known |-> IF p \in proxies THEN Targets(chain.routes[p]) ELSE known[p]])

(* The markets of the manager that was replaced.                             *)
ImportMarkets ==
  /\ proc.step = "import"
  /\ addProxiedMarkets(proc.before)
  /\ Goto("markets")
  /\ UNCHANGED <<config, targets, suspended, history>>

-----------------------------------------------------------------------------
(* deployPerpsV2Markets *)

(* The list of markets is read once, and the account may pause until the end.*)
StartMarkets ==
  /\ proc.step = "markets"
  /\ IF proc.todo = {}
     THEN Goto("cleanup") /\ UNCHANGED chain
     ELSE /\ proc' = [proc EXCEPT !.step = "deploy", !.existing = Keys(DOMAIN known)]
          /\ chain' = [chain EXCEPT !.canSuspend = TRUE]
  /\ UNCHANGED <<config, targets, suspended, history>>

(* They are upgraded in the order of the file.                               *)
FirstOf(markets) ==
  Market[CHOOSE i \in DOMAIN Market : Market[i] \in markets /\ \A j \in 1..(i - 1) : Market[j] \notin markets]
market == FirstOf(proc.todo)
newMarket == market \notin proc.existing
Here(part) == At(targets, market, part)
Working(step) == proc.step = step
Put(f, x, v) == [y \in DOMAIN f \cup {x} |-> IF y = x THEN v ELSE f[y]]

(* Proxy, state and implementations in this order, each on the ones before.  *)
deployOrder == <<Proxy, State>> \o [i \in 1..5 |-> implementationConfigurations[i].part]
Missing == {i \in DOMAIN deployOrder : deployOrder[i] \in Parts /\ NeedsDeploy(<<market, deployOrder[i]>>)}
deployMarket ==
  /\ Working("deploy")
  /\ IF Missing = {} THEN Goto("pauseMarket") /\ UNCHANGED <<config, targets, chain>>
     ELSE LET part == deployOrder[CHOOSE i \in Missing : \A j \in Missing : i <= j]
              n == <<market, part>>
              at == <<market, part, targets[n] + 1>> IN
          /\ targets' = [targets EXCEPT ![n] = @ + 1]
          /\ config' = config \ {n}
          /\ proc' = [proc EXCEPT !.updated = @ \cup {part}]
          /\ chain' =
               CASE part = Proxy -> [chain EXCEPT !.routes = Put(@, at, {})]
                 [] part = State ->
                      [chain EXCEPT !.state = Put(@, at,
                        [legacy |-> IF targets[n] = 0 THEN none ELSE Here(State),
                         initialized |-> FALSE, associated |-> {<<"owner">>}])]
                 [] OTHER ->
                      [chain EXCEPT !.impl = Put(@, at,
                        [state |-> Here(State), proxy |-> Here(Proxy), manager |-> 0])]
  /\ UNCHANGED <<suspended, history>>

\* A slip: only if this run has deployed an implementation.
someImplementationUpdated == proc.updated \cap Kind # {}
pauseMarketIfUpdated ==
  /\ Working("pauseMarket")
  /\ proc' = [proc EXCEPT !.step = "initialize", !.wasPaused = suspended[market] # "no"]
  /\ suspended' = IF someImplementationUpdated THEN [suspended EXCEPT ![market] = IF @ = "no" THEN "tool" ELSE @]
                  ELSE suspended
  /\ UNCHANGED <<config, targets, chain, history>>

(* A market that the manager knows is paused, unless it is.                  *)
pauseMarket ==
  /\ Working("pauseMarket")
  /\ IF newMarket
     THEN proc' = [proc EXCEPT !.step = "initialize", !.wasPaused = FALSE] /\ UNCHANGED suspended
     ELSE /\ proc' = [proc EXCEPT !.step = "initialize", !.wasPaused = suspended[market] # "no"]
          /\ suspended' = [suspended EXCEPT ![market] = IF @ = "no" THEN "tool" ELSE @]
  /\ UNCHANGED <<config, targets, chain, history>>

state == chain.state[Here(State)]
linkOrInitializeState ==
  /\ Working("initialize")
  /\ IF state.initialized THEN Goto("linkToState") /\ UNCHANGED chain
     ELSE /\ chain' = [chain EXCEPT !.state[Here(State)].initialized = TRUE]
          /\ Goto(IF State \in proc.updated /\ state.legacy # none THEN "legacy" ELSE "linkToState")
  /\ UNCHANGED <<config, targets, suspended, history>>
enableInLegacy ==
  /\ Working("legacy")
  /\ chain' = [chain EXCEPT !.state[state.legacy].associated = @ \cup {Here(State)}]
  /\ Goto("linkToState")
  /\ UNCHANGED <<config, targets, suspended, history>>

(* What must go first, then what must come.                                  *)
Filtered(have, want) == IF have \ want # {} THEN have \cap want ELSE want
\* A slip: only a state that this run has deployed.
linkToNewState ==
  /\ Working("linkToState")
  /\ LET want == MutatingAt(targets, market) IN
     IF state.associated = want \/ State \notin proc.updated
     THEN Goto("linkToPerpsExchangeRate") /\ UNCHANGED chain
     ELSE /\ chain' = [chain EXCEPT !.state[Here(State)].associated = Filtered(@, want)]
          /\ UNCHANGED proc
  /\ UNCHANGED <<config, targets, suspended, history>>
linkToState ==
  /\ Working("linkToState")
  /\ LET want == MutatingAt(targets, market) IN
     IF state.associated = want THEN Goto("linkToPerpsExchangeRate") /\ UNCHANGED chain
     ELSE /\ chain' = [chain EXCEPT !.state[Here(State)].associated = Filtered(@, want)]
          /\ UNCHANGED proc
  /\ UNCHANGED <<config, targets, suspended, history>>
linkToPerpsExchangeRate ==
  /\ Working("linkToPerpsExchangeRate")
  /\ chain' = [chain EXCEPT !.rates = @ \cup {Here(part) : part \in UsesRate}]
  /\ Goto("setProxy")
  /\ UNCHANGED <<config, targets, suspended, history>>

(* linkToProxy: the proxy of the implementations, the selectors that no      *)
(* implementation has any more, then those that lead elsewhere, one by one   *)
(* (in the order of the list in the code, in any fixed order here).          *)
setProxy ==
  /\ Working("setProxy")
  /\ LET wrong == {i \in MutatingAt(targets, market) : chain.impl[i].proxy # Here(Proxy)} IN
     IF wrong = {} THEN Goto("removeRoutes") /\ UNCHANGED chain
     ELSE /\ LET i == CHOOSE i \in wrong : TRUE IN chain' = [chain EXCEPT !.impl[i].proxy = Here(Proxy)]
          /\ UNCHANGED proc
  /\ UNCHANGED <<config, targets, suspended, history>>
routes == chain.routes[Here(Proxy)]
Selectors(rs) == {r.selector : r \in rs}
removeRoutes ==
  /\ Working("removeRoutes")
  /\ LET toRemove == {r \in routes : r.selector \notin Selectors(Wanted(targets, market))} IN
     IF toRemove = {} THEN Goto("addRoutes") /\ UNCHANGED chain
     ELSE /\ LET r == CHOOSE r \in toRemove : TRUE IN chain' = [chain EXCEPT !.routes[Here(Proxy)] = @ \ {r}]
          /\ UNCHANGED proc
  /\ UNCHANGED <<config, targets, suspended, history>>
\* A slip: only the selectors that the proxy does not have.
addMissingRoutes ==
  /\ Working("addRoutes")
  /\ LET toAdd == {r \in Wanted(targets, market) : r.selector \notin Selectors(routes)} IN
     IF toAdd = {} THEN Goto("linkToMarketManager") /\ UNCHANGED chain
     ELSE /\ LET r == CHOOSE r \in toAdd : TRUE IN
               chain' = [chain EXCEPT !.routes[Here(Proxy)] = @ \cup {r}]
          /\ UNCHANGED proc
  /\ UNCHANGED <<config, targets, suspended, history>>
addRoutes ==
  /\ Working("addRoutes")
  /\ LET toAdd == Wanted(targets, market) \ routes IN
     IF toAdd = {} THEN Goto("linkToMarketManager") /\ UNCHANGED chain
     ELSE /\ LET r == CHOOSE r \in toAdd : TRUE IN
               chain' = [chain EXCEPT !.routes[Here(Proxy)] =
                           {s \in @ : s.selector # r.selector} \cup {r}]
          /\ UNCHANGED proc
  /\ UNCHANGED <<config, targets, suspended, history>>

(* The manager gets the market, or pulls its implementations if one of them  *)
(* was deployed in this run.                                                 *)
linkToMarketManager ==
  /\ Working("linkToMarketManager")
  /\ IF Here(Proxy) \in DOMAIN known
     THEN /\ IF someImplementationUpdated THEN updateMarketsImplementations({Here(Proxy)}) ELSE UNCHANGED chain
          /\ Goto("rebuildCaches")
     ELSE IF CanAdd({Here(Proxy)})
     THEN addProxiedMarkets({Here(Proxy)}) /\ Goto("rebuildCaches")
     ELSE proc' = [step |-> "off"] /\ UNCHANGED chain
  /\ UNCHANGED <<config, targets, suspended, history>>
rebuildCaches ==
  /\ Working("rebuildCaches")
  /\ chain' = [chain EXCEPT !.impl =
       [i \in DOMAIN @ |-> IF i \in Contracts(targets, market) THEN [@[i] EXCEPT !.manager = targets[Manager]]
                           ELSE @[i]]]
  /\ Goto("configureMarket")
  /\ UNCHANGED <<config, targets, suspended, history>>

(* A new market is paused or opened as it is configured, and so is its       *)
(* offchain key; a market that this run paused is opened again.  The         *)
(* operator may refuse to open one.                                          *)
configureMarket ==
  /\ Working("configureMarket")
  /\ chain' = [chain EXCEPT !.configured = @ \cup {market}]
  /\ Goto(IF newMarket THEN "pausedMode" ELSE "resumeMarket")
  /\ UNCHANGED <<config, targets, suspended, history>>
Confirmed(k) == suspended' = suspended \/ suspended' = [suspended EXCEPT ![k] = "no"]
setPausedMode(step, k, next) ==
  /\ Working(step)
  /\ IF k \in paused THEN suspended' = [suspended EXCEPT ![k] = IF @ = "no" THEN "tool" ELSE @]
                     ELSE Confirmed(k)
  /\ Goto(next)
  /\ UNCHANGED <<config, targets, chain, history>>
PausedMode == setPausedMode("pausedMode", market, "offchainPausedMode")
OffchainPausedMode == setPausedMode("offchainPausedMode", Offchain[market], "resumeMarket")
\* A slip: whoever paused it.
resumeMarketAnyway ==
  /\ Working("resumeMarket")
  /\ IF ~newMarket THEN Confirmed(market) ELSE UNCHANGED suspended
  /\ history' = [history EXCEPT !.opened = @ \cup {market}]
  /\ LET left == proc.todo \ {market} IN
     proc' = [proc EXCEPT !.step = IF left = {} THEN "revoke" ELSE "deploy", !.todo = left, !.updated = {}]
  /\ UNCHANGED <<config, targets, chain>>
resumeMarket ==
  /\ Working("resumeMarket")
  /\ IF ~newMarket /\ ~proc.wasPaused THEN Confirmed(market) ELSE UNCHANGED suspended
  /\ history' = [history EXCEPT !.opened = @ \cup {market}]
  /\ LET left == proc.todo \ {market} IN
     proc' = [proc EXCEPT !.step = IF left = {} THEN "revoke" ELSE "deploy", !.todo = left, !.updated = {}]
  /\ UNCHANGED <<config, targets, chain>>
RevokeAccess ==
  /\ Working("revoke")
  /\ chain' = [chain EXCEPT !.canSuspend = FALSE]
  /\ Goto("cleanup")
  /\ UNCHANGED <<config, targets, suspended, history>>

(* cleanupPerpsV2: what is no market's implementation any more loses access  *)
(* to the exchange rate, then what lacks it gets it, and the manager loses   *)
(* what is not listed.  A listed market that is not deployed has no address, *)
(* and the run fails.                                                        *)
Current(part) == {At(targets, m, part) : m \in {m \in ToSet(Market) : Deployed(targets, m, part)}}
UsingRate == UNION {Current(part) : part \in UsesRate}
RemoveRates ==
  /\ Working("cleanup")
  /\ IF ~proc.cleanup THEN Goto("finish") /\ UNCHANGED chain
     ELSE IF \E m \in ToSet(Market) : \E part \in UsesRate : ~Deployed(targets, m, part)
     THEN proc' = [step |-> "off"] /\ UNCHANGED chain
     ELSE /\ chain' = [chain EXCEPT !.rates = @ \cap UsingRate]
          /\ Goto("cleanupRates")
  /\ UNCHANGED <<config, targets, suspended, history>>
AddRates ==
  /\ Working("cleanupRates")
  /\ chain' = [chain EXCEPT !.rates = @ \cup UsingRate]
  /\ Goto("cleanupMarkets")
  /\ UNCHANGED <<config, targets, suspended, history>>
CleanupRates == RemoveRates \/ AddRates
CleanupMarkets ==
  /\ Working("cleanupMarkets")
  /\ chain' = Known([p \in DOMAIN known \cap Current(Proxy) |-> known[p]])
  /\ Goto("finish")
  /\ UNCHANGED <<config, targets, suspended, history>>

(* A run of all markets that comes to its end completes the release if       *)
(* nothing that is flagged is left and the manager knows the markets.        *)
Finish ==
  /\ Working("finish")
  /\ proc' = [step |-> "off"]
  /\ history' = [history EXCEPT
       !.complete = proc.all /\ config = {} /\ \A m \in ToSet(Market) : At(targets, m, Proxy) \in DOMAIN known]
  /\ UNCHANGED <<config, targets, chain, suspended>>

Crash ==
  /\ proc.step # "off" /\ history.crashes < MaxCrashes
  /\ proc' = [step |-> "off"]
  /\ history' = [history EXCEPT !.crashes = @ + 1]
  /\ UNCHANGED <<config, targets, chain, suspended>>

(* Guardians pause at any time, also what is paused: the later reason stands. *)
(* They open what they, or a run that stopped, have paused, but no market    *)
(* that is half upgraded.                                                    *)
GuardianPauses ==
  /\ \E k \in Key : suspended' = [suspended EXCEPT ![k] = "guardian"]
  /\ history.pauses < MaxPauses /\ history' = [history EXCEPT !.pauses = @ + 1]
  /\ UNCHANGED <<config, targets, chain, proc>>
GuardianResumes ==
  /\ proc.step = "off" /\ history.complete
  /\ \E k \in Key : suspended[k] # "no" /\ suspended' = [suspended EXCEPT ![k] = "no"]
  /\ UNCHANGED <<config, targets, chain, proc, history>>

LinkMarket == \/ linkOrInitializeState \/ enableInLegacy \/ linkToState \/ linkToPerpsExchangeRate
              \/ setProxy \/ removeRoutes \/ addRoutes \/ linkToMarketManager \/ rebuildCaches
Process == \/ DeployManager \/ ImportMarkets \/ StartMarkets \/ deployMarket \/ pauseMarket \/ LinkMarket
           \/ configureMarket \/ PausedMode \/ OffchainPausedMode \/ resumeMarket \/ RevokeAccess
           \/ CleanupRates \/ CleanupMarkets \/ Finish
Next == \/ PrepareDeploy \/ (\E o \in Options : Start(o)) \/ Process \/ Crash
        \/ GuardianPauses \/ GuardianResumes

Spec == Init /\ [][Next]_vars
(* The script goes on, and the operator runs it again, with each of the      *)
(* options, until the release is complete.                                   *)
FairSpec == Spec /\ WF_vars(Process) /\ \A o \in Options : SF_vars(Start(o))

-----------------------------------------------------------------------------
(* What is asked of an upgrade *)

TypeOK ==
  /\ config \subseteq Name /\ targets \in [Name -> 0..(MaxReleases + 1)]
  /\ suspended \in [Key -> {"no", "tool", "guardian"}]
  /\ Len(chain.managers) = targets[Manager]
  /\ \A p \in DOMAIN chain.routes : /\ Targets(chain.routes[p]) \subseteq DOMAIN chain.impl
                                    /\ Cardinality(Selectors(chain.routes[p])) = Cardinality(chain.routes[p])
  /\ \A i \in DOMAIN chain.impl : /\ chain.impl[i].state \in DOMAIN chain.state
                                  /\ chain.impl[i].proxy \in DOMAIN chain.routes

(* A market that is open, and was completed once, is never half upgraded:    *)
(* all that its proxy leads to writes to one state that is initialized and   *)
(* lets it, and answers to this proxy, wherever a run stopped and however    *)
(* the market came to be open.                                               *)
OpenMeansOneState ==
  \A p \in DOMAIN known : p[1] \in history.opened /\ suspended[p[1]] = "no" =>
    \E s \in DOMAIN chain.state :
      /\ chain.state[s].initialized
      /\ \A i \in {i \in Targets(chain.routes[p]) : i[2] \in Mutating} :
           /\ chain.impl[i].state = s /\ i \in chain.state[s].associated
           /\ chain.impl[i].proxy = p

(* Whatever is open can be traded on, and on one state only.                 *)
MarketsConsistent == TypeOK /\ OpenMeansOneState

(* A market of the manager that was paused when a run began, by a guardian   *)
(* or by a run that was stopped, stays paused throughout the run.  (Only     *)
(* such a market: one that a guardian pauses later, when the run has read    *)
(* whether it was, is opened at the end of its upgrade; and one that the     *)
(* manager has lost, to a new manager without the imports or to a cleanup    *)
(* before its new proxy was added, is new to the next run, which opens it if *)
(* it is not paused by configuration.)                                       *)
KeptPaused ==
  proc.step # "off" => \A k \in history.foundPaused : suspended[k] # "no" => suspended'[k] # "no"

(* What a market of the manager leads to changes only while it is paused.    *)
RoutedWhilePaused ==
  \A p \in DOMAIN known \cap DOMAIN chain.routes :
    chain'.routes[p] # chain.routes[p] => suspended[p[1]] # "no"

(* Markets are upgraded while they are paused, and those that a run finds    *)
(* paused are not opened by it.                                              *)
PausesRespected == [][KeptPaused /\ RoutedWhilePaused]_vars

(* "This function should be called with the market paused": a state takes    *)
(* over from the one before it while no position can change there.  (Not if  *)
(* the manager is of the same release: all its markets are new to it; nor if *)
(* the proxy is: a cleanup drops the market, and it is new to the next run.) *)
LegacyLinkedWhilePaused ==
  [][\A s \in DOMAIN chain.state :
       ~chain.state[s].initialized /\ chain'.state[s].initialized /\ chain.state[s].legacy # none
         => suspended[s[1]] # "no"]_vars

(* A release comes to its end however often a run stops: every market is     *)
(* linked to what was deployed for it last.  If none was killed, the manager *)
(* also knows its implementations, and a state may take positions out of     *)
(* the one before it; a killed run may have been the one to do these two.    *)
Upgraded ==
  /\ config = {} /\ ~chain.canSuspend
  /\ \A p \in DOMAIN known : LET m == p[1] IN
       /\ p = At(targets, m, Proxy) /\ chain.routes[p] = Wanted(targets, m)
       /\ chain.state[At(targets, m, State)].associated = MutatingAt(targets, m)
       /\ {At(targets, m, part) : part \in UsesRate} \subseteq chain.rates
       /\ \A part \in Kind : chain.impl[At(targets, m, part)].manager = targets[Manager]
HandedOver ==
  \A p \in DOMAIN known : LET s == At(targets, p[1], State) IN
    /\ known[p] = Targets(chain.routes[p])
    /\ chain.state[s].legacy # none => s \in chain.state[chain.state[s].legacy].associated
EventuallyUpgraded ==
  <>[]Upgraded /\ ([](history.crashes = 0) => <>[]HandedOver)
=============================================================================
